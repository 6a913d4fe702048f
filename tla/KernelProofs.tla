------------------------------- MODULE KernelProofs -------------------------------
(***************************************************************************)
(* Theorems about the kernel, for every set of inputs and of event types,  *)
(* every script, every answer of the reducers and every ceiling; about     *)
(* playback on top of it; and about the drafts that the inputs come from.  *)
(***************************************************************************)
EXTENDS Kernel, ShellPlayback, Sandboxes, FiniteSetTheorems, SequenceTheorems, TLAPS

-----------------------------------------------------------------------------
(* Positions in the heap *)

\* A position beyond the first has its parent before it.
LEMMA ParentIsBefore ==
  ASSUME NEW j \in Nat, j > 1
  PROVE  j \div 2 \in Nat /\ 1 <= j \div 2 /\ j \div 2 < j
  OBVIOUS

\* The children of a position are the two it leads to.
LEMMA ChildrenOf ==
  ASSUME NEW j \in Nat, NEW i \in Nat
  PROVE  /\ j \div 2 = i <=> j \in {2 * i, 2 * i + 1}
         /\ i >= 1 => 2 * i > i /\ 2 * i + 1 > i
  OBVIOUS

-----------------------------------------------------------------------------
(* The heap *)

\* The first may be dispatched before the second.
InOrder(a, b) == ~Before(b, a)

\* The order is total and transitive; events with the same key are in order
\* both ways.
LEMMA OrderOfEvents ==
  ASSUME NEW a \in Event, NEW b \in Event
  PROVE  /\ InOrder(a, a)
         /\ InOrder(a, b) \/ InOrder(b, a)
         /\ Before(a, b) => InOrder(a, b)
         /\ InOrder(a, b) => a.at <= b.at
  BY DEF InOrder, Before, Event

LEMMA OrderIsTransitive ==
  ASSUME NEW a \in Event, NEW b \in Event, NEW c \in Event, InOrder(a, b), InOrder(b, c)
  PROVE  InOrder(a, c)
  BY DEF InOrder, Before, Event

LEMMA BeforeInOrder ==
  ASSUME NEW a \in Event, NEW b \in Event, NEW c \in Event, Before(a, b), InOrder(b, c)
  PROVE  Before(a, c)
  BY DEF InOrder, Before, Event

\* The event at j comes after its parent, if it has one.
UnderParent(heap, j) == j > 1 => InOrder(heap[j \div 2], heap[j])

IsHeap(heap) == \A j \in DOMAIN heap : UnderParent(heap, j)

\* A sequence, as a function.
LEMMA SequenceIsFunction ==
  ASSUME NEW X, NEW heap \in Seq(X)
  PROVE  /\ Len(heap) \in Nat
         /\ DOMAIN heap = 1 .. Len(heap)
         /\ heap \in [1 .. Len(heap) -> X]
         /\ heap \in Seq(Range(heap))
         /\ Range(heap) \in SUBSET X
         /\ \A j \in DOMAIN heap : heap[j] \in X /\ heap[j] \in Range(heap)
  BY DEF Range

\* Two positions change places.
LEMMA SwappedHeap ==
  ASSUME NEW X, NEW heap \in Seq(X), NEW i \in DOMAIN heap, NEW k \in DOMAIN heap, i # k
  PROVE  /\ Swapped(heap, i, k) \in Seq(X)
         /\ Len(Swapped(heap, i, k)) = Len(heap)
         /\ DOMAIN Swapped(heap, i, k) = DOMAIN heap
         /\ Swapped(heap, i, k)[i] = heap[k]
         /\ Swapped(heap, i, k)[k] = heap[i]
         /\ \A j \in DOMAIN heap : j # i /\ j # k => Swapped(heap, i, k)[j] = heap[j]
  BY DEF Swapped

\* In a heap but for the place i: the others are in order with their parents, and
\* the children of i with the parent of i.
HeapButFor(heap, i) ==
  /\ \A j \in DOMAIN heap : j # i => UnderParent(heap, j)
  /\ \A j \in DOMAIN heap : j \div 2 = i /\ i > 1 => InOrder(heap[i \div 2], heap[j])

\* Where an event that has come before its parent changes places with it, only
\* its new place is left to look at.
LEMMA RiseKeepsOrder ==
  ASSUME NEW heap \in Seq(Event), NEW i \in DOMAIN heap, i > 1,
         HeapButFor(heap, i), Before(heap[i], heap[i \div 2])
  PROVE  HeapButFor(Swapped(heap, i, i \div 2), i \div 2)
<1> DEFINE p == i \div 2
           risen == Swapped(heap, i, p)
<1>1. i \in Nat /\ p \in DOMAIN heap /\ p # i /\ p < i /\ p >= 1
  BY SequenceIsFunction, ParentIsBefore
<1>2. /\ risen[i] = heap[p] /\ risen[p] = heap[i] /\ DOMAIN risen = DOMAIN heap
      /\ \A j \in DOMAIN heap : j # i /\ j # p => risen[j] = heap[j]
  BY <1>1, SwappedHeap
<1>3. heap[i] \in Event /\ heap[p] \in Event
  BY <1>1
<1>4. InOrder(heap[i], heap[p])
  BY <1>3, OrderOfEvents
<1> HIDE DEF p, risen
<1>5. ASSUME NEW j \in DOMAIN risen, j # p
      PROVE  UnderParent(risen, j)
  <2> SUFFICES ASSUME j > 1 PROVE InOrder(risen[j \div 2], risen[j])
    BY DEF UnderParent
  <2>1. j \in Nat /\ j \div 2 \in DOMAIN heap /\ j \div 2 # j /\ heap[j] \in Event /\ heap[j \div 2] \in Event
    BY <1>2, SequenceIsFunction, ParentIsBefore
  <2>2. CASE j = i
    BY <1>2, <1>4, <2>2 DEF p
  <2>3. CASE j # i /\ j \div 2 = i
    <3>1. InOrder(heap[p], heap[j])
      BY <1>2, <2>1, <2>3 DEF HeapButFor, p
    <3> QED
      BY <1>2, <1>5, <2>3, <3>1
  <2>4. CASE j # i /\ j \div 2 = p
    <3>1. InOrder(heap[p], heap[j])
      BY <1>2, <2>1, <2>4 DEF HeapButFor, UnderParent
    <3>2. InOrder(heap[i], heap[j])
      BY <1>3, <1>4, <2>1, <3>1, OrderIsTransitive
    <3> QED
      BY <1>2, <1>5, <2>4, <3>2
  <2>5. CASE j # i /\ j \div 2 # i /\ j \div 2 # p
    BY <1>2, <1>5, <2>1, <2>5 DEF HeapButFor, UnderParent
  <2> QED
    BY <2>2, <2>3, <2>4, <2>5
<1>6. ASSUME NEW j \in DOMAIN risen, j \div 2 = p, p > 1
      PROVE  InOrder(risen[p \div 2], risen[j])
  <2>1. p \div 2 \in DOMAIN heap /\ p \div 2 # p /\ p \div 2 # i /\ p \div 2 \in Nat
    BY <1>1, <1>6, SequenceIsFunction, ParentIsBefore
  <2>2. risen[p \div 2] = heap[p \div 2]
    BY <1>2, <2>1
  <2>3. InOrder(heap[p \div 2], heap[p])
    BY <1>1, <1>6 DEF HeapButFor, UnderParent
  <2>4. CASE j = i
    BY <1>2, <2>2, <2>3, <2>4
  <2>5. CASE j # i
    <3>1. j # p /\ j \in DOMAIN heap /\ j > 1
      BY <1>2, <1>6, <1>1, SequenceIsFunction
    <3>2. InOrder(heap[p], heap[j])
      BY <1>6, <2>5, <3>1 DEF HeapButFor, UnderParent
    <3>3. InOrder(heap[p \div 2], heap[j])
      BY <1>3, <2>1, <2>3, <3>1, <3>2, OrderIsTransitive, SequenceIsFunction
    <3> QED
      BY <1>2, <2>2, <2>5, <3>1, <3>3
  <2> QED
    BY <2>4, <2>5
<1> QED
  BY <1>5, <1>6 DEF HeapButFor, p, risen

-----------------------------------------------------------------------------
(* siftUp *)

HasRisen(par, s) == Risen(s)

Rises(par, s) == Rise(s)

\* What the loop of siftUp keeps, with the turns it may still have.
Rising(ctx, n, s) ==
  /\ s \in Places(ctx.heap)
  /\ Len(s.heap) = Len(ctx.heap)
  /\ s.i \in DOMAIN s.heap
  /\ Risen(s) \/ s.i + n <= ctx.i
  /\ HeapButFor(ctx.heap, ctx.i) => HeapButFor(s.heap, s.i)

RisingLoop == INSTANCE Loops WITH Ends <- HasRisen, Turn <- Rises, Inv <- Rising

LEMMA SiftUpIsLoop ==
  ASSUME NEW heap, NEW start
  PROVE  SiftUp(heap, start)
           = RisingLoop!Looped({}, start, Places(heap), [heap |-> heap, i |-> start]).heap
  BY DEF SiftUp, Loop, RisingLoop!Looped, HasRisen, Rises

\* A turn of siftUp.
LEMMA RiseKeeps ==
  ASSUME NEW ctx, ctx.heap \in Seq(Event), ctx.i \in Nat, NEW n \in Nat, NEW s,
         Rising(ctx, n, s), ~Risen(s)
  PROVE  /\ Rise(s) \in Places(ctx.heap)
         /\ Rising(ctx, n + 1, Rise(s))
<1> DEFINE p == s.i \div 2
           t == Rise(s)
<1>1. s.heap \in Seq(Range(ctx.heap)) /\ s.heap \in Seq(Event) /\ s.i \in DOMAIN s.heap /\ s.i \in Nat
  <2>1. s.heap \in Seq(Range(ctx.heap)) /\ s.i \in Nat
    BY DEF Rising, Places
  <2>2. Range(ctx.heap) \in SUBSET Event
    BY SequenceIsFunction
  <2> QED
    BY <2>1, <2>2 DEF Rising
<1>2. s.i > 1 /\ Before(s.heap[s.i], s.heap[p])
  BY <1>1, SequenceIsFunction DEF Risen
<1>3. p \in DOMAIN s.heap /\ p \in Nat /\ p < s.i /\ p # s.i
  BY <1>1, <1>2, SequenceIsFunction, ParentIsBefore
<1>4. t = [heap |-> Swapped(s.heap, s.i, p), i |-> p]
  BY DEF Rise
<1>5. /\ t.heap \in Seq(Range(ctx.heap)) /\ Len(t.heap) = Len(s.heap)
      /\ DOMAIN t.heap = DOMAIN s.heap
  BY <1>1, <1>3, <1>4, SwappedHeap
<1>6. t \in Places(ctx.heap)
  BY <1>3, <1>4, <1>5 DEF Places
<1>7. t.i + (n + 1) <= ctx.i
  <2>1. s.i + n <= ctx.i
    BY DEF Rising
  <2> QED
    BY <1>1, <1>3, <1>4, <2>1
<1>8. HeapButFor(s.heap, s.i) => HeapButFor(t.heap, t.i)
  BY <1>1, <1>2, <1>4, RiseKeepsOrder
<1> QED
  BY <1>3, <1>4, <1>5, <1>6, <1>7, <1>8 DEF Rising

\* siftUp makes a heap of what is one but for the place it starts from, and
\* holds the same events.
LEMMA SiftUpKeeps ==
  ASSUME NEW heap \in Seq(Event), NEW start \in DOMAIN heap
  PROVE  /\ SiftUp(heap, start) \in Seq(Range(heap))
         /\ Len(SiftUp(heap, start)) = Len(heap)
         /\ HeapButFor(heap, start) => IsHeap(SiftUp(heap, start))
<1> DEFINE ctx == [heap |-> heap, i |-> start]
           result == RisingLoop!Looped({}, start, Places(heap), ctx)
<1>1. start \in Nat /\ heap \in Seq(Range(heap)) /\ ctx.heap \in Seq(Event) /\ ctx.i \in Nat
  BY SequenceIsFunction
<1>2. ctx \in Places(heap) /\ Rising(ctx, 0, ctx)
  BY <1>1 DEF Rising, Places
<1>3. ASSUME NEW n \in 1 .. start, NEW s \in Places(heap), Rising(ctx, n - 1, s)
      PROVE  RisingLoop!Next({}, s) \in Places(heap) /\ Rising(ctx, n, RisingLoop!Next({}, s))
  <2>1. CASE Risen(s)
    <3>1. RisingLoop!Next({}, s) = s
      BY <2>1 DEF RisingLoop!Next, HasRisen
    <3> QED
      BY <1>3, <2>1, <3>1 DEF Rising
  <2>2. CASE ~Risen(s)
    <3>1. RisingLoop!Next({}, s) = Rise(s)
      BY <2>2 DEF RisingLoop!Next, HasRisen, Rises
    <3>2. n - 1 \in Nat /\ (n - 1) + 1 = n
      OBVIOUS
    <3>3. Rise(s) \in Places(ctx.heap) /\ Rising(ctx, (n - 1) + 1, Rise(s))
      <4> HIDE DEF ctx
      <4> QED
        BY <1>1, <1>3, <2>2, <3>2, RiseKeeps
    <3> QED
      BY <3>1, <3>2, <3>3
  <2> QED
    BY <2>1, <2>2
<1>4. result \in Places(heap) /\ Rising(ctx, start, result)
  <2> HIDE DEF ctx
  <2> QED
    BY <1>1, <1>2, <1>3, RisingLoop!LoopKeeps DEF ctx
<1>5. SiftUp(heap, start) = result.heap
  BY SiftUpIsLoop
<1> HIDE DEF result
<1>6. result.i \in DOMAIN result.heap /\ result.heap \in Seq(Range(heap)) /\ Len(result.heap) = Len(heap)
  BY <1>4 DEF Rising, Places
<1>7. result.i \in Nat /\ result.i >= 1
  BY <1>6
<1>8. Risen(result)
  BY <1>1, <1>4, <1>7 DEF Rising
<1>9. ASSUME HeapButFor(heap, start)
      PROVE  IsHeap(result.heap)
  <2>1. HeapButFor(result.heap, result.i)
    BY <1>4, <1>9 DEF Rising
  <2>2. UnderParent(result.heap, result.i)
    BY <1>8 DEF Risen, UnderParent, InOrder
  <2> QED
    BY <2>1, <2>2 DEF HeapButFor, IsHeap
<1> QED
  BY <1>5, <1>6, <1>9

-----------------------------------------------------------------------------
(* siftDown *)

\* The least of an event and its children, and where it is.
LEMMA SmallestOfThree ==
  ASSUME NEW heap \in Seq(Event), NEW i \in DOMAIN heap
  PROVE  LET c == Smallest(heap, i)
         IN /\ c \in DOMAIN heap
            /\ c = i \/ c = 2 * i \/ c = 2 * i + 1
            /\ c # i => Before(heap[c], heap[i])
            /\ \A k \in DOMAIN heap : k = i \/ k = 2 * i \/ k = 2 * i + 1 => InOrder(heap[c], heap[k])
<1> DEFINE b == Smaller(heap, i, 2 * i)
           c == Smaller(heap, b, 2 * i + 1)
<1>1. /\ b \in DOMAIN heap /\ (b = i \/ b = 2 * i) /\ (b # i => Before(heap[b], heap[i]))
      /\ InOrder(heap[b], heap[i]) /\ (2 * i \in DOMAIN heap => InOrder(heap[b], heap[2 * i]))
  <2>1. CASE 2 * i \in DOMAIN heap /\ Before(heap[2 * i], heap[i])
    BY <2>1, OrderOfEvents DEF Smaller
  <2>2. CASE ~(2 * i \in DOMAIN heap /\ Before(heap[2 * i], heap[i]))
    BY <2>2, OrderOfEvents DEF Smaller, InOrder
  <2> QED
    BY <2>1, <2>2
<1> HIDE DEF b
<1>2. /\ c \in DOMAIN heap /\ (c = b \/ c = 2 * i + 1) /\ InOrder(heap[c], heap[b])
      /\ (c # b => Before(heap[c], heap[b]))
      /\ (2 * i + 1 \in DOMAIN heap => InOrder(heap[c], heap[2 * i + 1]))
  <2>1. CASE 2 * i + 1 \in DOMAIN heap /\ Before(heap[2 * i + 1], heap[b])
    BY <1>1, <2>1, OrderOfEvents DEF Smaller
  <2>2. CASE ~(2 * i + 1 \in DOMAIN heap /\ Before(heap[2 * i + 1], heap[b]))
    BY <1>1, <2>2, OrderOfEvents DEF Smaller, InOrder
  <2> QED
    BY <2>1, <2>2
<1>3. c = Smallest(heap, i)
  BY DEF Smallest, b
<1> HIDE DEF c
<1>4. c # i => Before(heap[c], heap[i])
  <2> SUFFICES ASSUME c # i PROVE Before(heap[c], heap[i])
    OBVIOUS
  <2>1. CASE c = b
    BY <1>1, <2>1
  <2>2. CASE c # b
    <3>1. heap[c] \in Event /\ heap[b] \in Event /\ heap[i] \in Event
      BY <1>1, <1>2
    <3> QED
      BY <1>1, <1>2, <2>2, <3>1, BeforeInOrder
  <2> QED
    BY <2>1, <2>2
<1>5. ASSUME NEW k \in DOMAIN heap, k = i \/ k = 2 * i \/ k = 2 * i + 1
      PROVE  InOrder(heap[c], heap[k])
  <2>1. heap[c] \in Event /\ heap[b] \in Event /\ heap[k] \in Event
    BY <1>1, <1>2
  <2>2. CASE k = 2 * i + 1
    BY <1>2, <2>2
  <2>3. CASE k = i \/ k = 2 * i
    <3>1. InOrder(heap[b], heap[k])
      BY <1>1, <2>3
    <3> QED
      BY <1>2, <2>1, <3>1, OrderIsTransitive
  <2> QED
    BY <1>5, <2>2, <2>3
<1> QED
  BY <1>1, <1>2, <1>3, <1>4, <1>5

\* Where a child that comes before the event at i changes places with it, and
\* its sibling does not come before that child, only the new place is left.
LEMMA SinkKeepsOrder ==
  ASSUME NEW heap \in Seq(Event), NEW i \in DOMAIN heap, NEW c \in DOMAIN heap,
         c = 2 * i \/ c = 2 * i + 1, Before(heap[c], heap[i]),
         \A k \in DOMAIN heap : k = i \/ k = 2 * i \/ k = 2 * i + 1 => InOrder(heap[c], heap[k]),
         \A j \in DOMAIN heap : j \div 2 # i => UnderParent(heap, j),
         \A j \in DOMAIN heap : j \div 2 = i /\ i > 1 => InOrder(heap[i \div 2], heap[j])
  PROVE  LET sunk == Swapped(heap, i, c)
         IN /\ \A j \in DOMAIN sunk : j \div 2 # c => UnderParent(sunk, j)
            /\ \A j \in DOMAIN sunk : j \div 2 = c /\ c > 1 => InOrder(sunk[c \div 2], sunk[j])
<1> DEFINE sunk == Swapped(heap, i, c)
<1>1. i \in Nat /\ c \in Nat /\ i >= 1 /\ c > i /\ c \div 2 = i
  BY SequenceIsFunction, ChildrenOf
<1>2. /\ sunk[i] = heap[c] /\ sunk[c] = heap[i] /\ DOMAIN sunk = DOMAIN heap
      /\ \A j \in DOMAIN heap : j # i /\ j # c => sunk[j] = heap[j]
  BY <1>1, SwappedHeap
<1>3. heap[i] \in Event /\ heap[c] \in Event
  OBVIOUS
<1>4. InOrder(heap[c], heap[i])
  BY <1>3, OrderOfEvents
<1> HIDE DEF sunk
<1>5. ASSUME NEW j \in DOMAIN sunk, j \div 2 # c
      PROVE  UnderParent(sunk, j)
  <2> SUFFICES ASSUME j > 1 PROVE InOrder(sunk[j \div 2], sunk[j])
    BY DEF UnderParent
  <2>1. j \in Nat /\ j \div 2 \in DOMAIN heap /\ j \div 2 # j /\ heap[j] \in Event /\ heap[j \div 2] \in Event
    BY <1>2, SequenceIsFunction, ParentIsBefore
  <2>2. CASE j = c
    BY <1>1, <1>2, <1>4, <2>2
  <2>3. CASE j # c /\ j \div 2 = i
    <3>1. j = 2 * i \/ j = 2 * i + 1
      BY <1>1, <2>1, <2>3, ChildrenOf
    <3>2. InOrder(heap[c], heap[j])
      BY <1>2, <3>1
    <3> QED
      BY <1>2, <2>1, <2>3, <3>2
  <2>4. CASE j = i
    <3>1. InOrder(heap[i \div 2], heap[c])
      BY <1>1, <2>4
    <3>2. i \div 2 # i /\ i \div 2 # c
      BY <1>1, <2>1, <2>4, <1>5
    <3> QED
      BY <1>2, <2>1, <2>4, <3>1, <3>2
  <2>5. CASE j # c /\ j # i /\ j \div 2 # i
    <3>1. InOrder(heap[j \div 2], heap[j])
      BY <1>2, <2>5 DEF UnderParent
    <3> QED
      BY <1>2, <1>5, <2>1, <2>5, <3>1
  <2> QED
    BY <2>2, <2>3, <2>4, <2>5
<1>6. ASSUME NEW j \in DOMAIN sunk, j \div 2 = c
      PROVE  InOrder(sunk[c \div 2], sunk[j])
  <2>1. j \in Nat /\ j # c /\ j # i /\ j > 1
    <3>1. j \in Nat
      BY <1>2, SequenceIsFunction
    <3>2. j = 2 * c \/ j = 2 * c + 1
      BY <1>1, <1>6, <3>1, ChildrenOf
    <3> QED
      BY <1>1, <3>1, <3>2
  <2>2. c # i
    BY <1>1
  <2>3. InOrder(heap[j \div 2], heap[j])
    BY <1>2, <1>6, <2>1, <2>2 DEF UnderParent
  <2>4. InOrder(heap[c], heap[j]) /\ sunk[c \div 2] = heap[c] /\ sunk[j] = heap[j]
    BY <1>1, <1>2, <1>6, <2>1, <2>3
  <2> QED
    BY <2>4
<1> QED
  BY <1>5, <1>6 DEF sunk

\* In a heap but for the children of i.
HeapButUnder(heap, i) ==
  /\ \A j \in DOMAIN heap : j \div 2 # i => UnderParent(heap, j)
  /\ \A j \in DOMAIN heap : j \div 2 = i /\ i > 1 => InOrder(heap[i \div 2], heap[j])

HasSunk(par, s) == Sunk(s)

Sinks(par, s) == Sink(s)

\* What the loop of siftDown keeps, with the turns it has had.
Sinking(ctx, n, s) ==
  /\ s \in Places(ctx.heap)
  /\ Len(s.heap) = Len(ctx.heap)
  /\ s.i \in DOMAIN s.heap
  /\ Sunk(s) \/ s.i > n
  /\ HeapButUnder(ctx.heap, ctx.i) => HeapButUnder(s.heap, s.i)

SinkingLoop == INSTANCE Loops WITH Ends <- HasSunk, Turn <- Sinks, Inv <- Sinking

LEMMA SiftDownIsLoop ==
  ASSUME NEW heap, NEW start
  PROVE  SiftDown(heap, start)
           = SinkingLoop!Looped({}, Len(heap), Places(heap), [heap |-> heap, i |-> start]).heap
  BY DEF SiftDown, Loop, SinkingLoop!Looped, HasSunk, Sinks

\* A turn of siftDown.
LEMMA SinkKeeps ==
  ASSUME NEW ctx, ctx.heap \in Seq(Event), NEW n \in Nat, NEW s,
         Sinking(ctx, n, s), ~Sunk(s)
  PROVE  /\ Sink(s) \in Places(ctx.heap)
         /\ Sinking(ctx, n + 1, Sink(s))
<1> DEFINE c == Smallest(s.heap, s.i)
           t == Sink(s)
<1>1. s.heap \in Seq(Range(ctx.heap)) /\ s.heap \in Seq(Event) /\ s.i \in DOMAIN s.heap /\ s.i \in Nat /\ s.i >= 1
  <2>1. s.heap \in Seq(Range(ctx.heap)) /\ s.i \in Nat
    BY DEF Sinking, Places
  <2>2. Range(ctx.heap) \in SUBSET Event
    BY SequenceIsFunction
  <2> QED
    BY <2>1, <2>2 DEF Sinking
<1>2. c # s.i
  BY DEF Sunk
<1>3. /\ c \in DOMAIN s.heap /\ (c = 2 * s.i \/ c = 2 * s.i + 1) /\ Before(s.heap[c], s.heap[s.i])
      /\ \A k \in DOMAIN s.heap : k = s.i \/ k = 2 * s.i \/ k = 2 * s.i + 1 => InOrder(s.heap[c], s.heap[k])
  BY <1>1, <1>2, SmallestOfThree
<1>4. t = [heap |-> Swapped(s.heap, s.i, c), i |-> c]
  BY DEF Sink
<1> HIDE DEF c, t
<1>5. /\ t.heap \in Seq(Range(ctx.heap)) /\ Len(t.heap) = Len(s.heap)
      /\ DOMAIN t.heap = DOMAIN s.heap
  BY <1>1, <1>2, <1>3, <1>4, SwappedHeap
<1>6. t \in Places(ctx.heap)
  <2>1. c \in Nat
    BY <1>1, <1>3
  <2> QED
    BY <1>4, <1>5, <2>1 DEF Places
<1>7. t.i > n + 1
  <2>1. s.i > n
    BY DEF Sinking
  <2> QED
    BY <1>1, <1>3, <1>4, <2>1
<1>8. HeapButUnder(s.heap, s.i) => HeapButUnder(t.heap, t.i)
  <2> SUFFICES ASSUME HeapButUnder(s.heap, s.i) PROVE HeapButUnder(Swapped(s.heap, s.i, c), c)
    BY <1>4
  <2> QED
    BY <1>1, <1>3, SinkKeepsOrder DEF HeapButUnder
<1> QED
  BY <1>3, <1>4, <1>5, <1>6, <1>7, <1>8 DEF Sinking, t

\* siftDown makes a heap of what is one but for the children of the place it
\* starts from, and holds the same events.
LEMMA SiftDownKeeps ==
  ASSUME NEW heap \in Seq(Event), NEW start \in DOMAIN heap
  PROVE  /\ SiftDown(heap, start) \in Seq(Range(heap))
         /\ Len(SiftDown(heap, start)) = Len(heap)
         /\ HeapButUnder(heap, start) => IsHeap(SiftDown(heap, start))
<1> DEFINE ctx == [heap |-> heap, i |-> start]
           n == Len(heap)
           result == SinkingLoop!Looped({}, n, Places(heap), ctx)
<1>1. start \in Nat /\ start >= 1 /\ n \in Nat /\ heap \in Seq(Range(heap)) /\ ctx.heap \in Seq(Event)
  BY SequenceIsFunction
<1>2. ctx \in Places(heap) /\ Sinking(ctx, 0, ctx)
  BY <1>1 DEF Sinking, Places
<1>3. ASSUME NEW i \in 1 .. n, NEW s \in Places(heap), Sinking(ctx, i - 1, s)
      PROVE  SinkingLoop!Next({}, s) \in Places(heap) /\ Sinking(ctx, i, SinkingLoop!Next({}, s))
  <2>1. CASE Sunk(s)
    <3>1. SinkingLoop!Next({}, s) = s
      BY <2>1 DEF SinkingLoop!Next, HasSunk
    <3> QED
      BY <1>3, <2>1, <3>1 DEF Sinking
  <2>2. CASE ~Sunk(s)
    <3>1. SinkingLoop!Next({}, s) = Sink(s)
      BY <2>2 DEF SinkingLoop!Next, HasSunk, Sinks
    <3>2. i - 1 \in Nat /\ (i - 1) + 1 = i
      OBVIOUS
    <3>3. Sink(s) \in Places(ctx.heap) /\ Sinking(ctx, (i - 1) + 1, Sink(s))
      <4> HIDE DEF ctx
      <4> QED
        BY <1>1, <1>3, <2>2, <3>2, SinkKeeps
    <3> QED
      BY <3>1, <3>2, <3>3
  <2> QED
    BY <2>1, <2>2
<1>4. result \in Places(heap) /\ Sinking(ctx, n, result)
  <2> HIDE DEF ctx, n
  <2> QED
    BY <1>1, <1>2, <1>3, SinkingLoop!LoopKeeps DEF ctx
<1>5. SiftDown(heap, start) = result.heap
  BY SiftDownIsLoop
<1> HIDE DEF result
<1>6. result.i \in DOMAIN result.heap /\ result.heap \in Seq(Range(heap)) /\ Len(result.heap) = Len(heap)
  BY <1>4 DEF Sinking, Places
<1>7. result.i \in Nat /\ result.i >= 1 /\ result.i <= n
  BY <1>6
<1>8. Sunk(result)
  BY <1>1, <1>4, <1>7 DEF Sinking
<1>9. ASSUME HeapButUnder(heap, start)
      PROVE  IsHeap(result.heap)
  <2>1. HeapButUnder(result.heap, result.i)
    BY <1>4, <1>9 DEF Sinking
  <2>2. result.heap \in Seq(Event)
    BY <1>6, SequenceIsFunction
  <2>3. ASSUME NEW j \in DOMAIN result.heap, j \div 2 = result.i
        PROVE  InOrder(result.heap[result.i], result.heap[j])
    <3>1. j \in Nat
      BY <1>6
    <3>2. j = 2 * result.i \/ j = 2 * result.i + 1
      BY <1>7, <2>3, <3>1, ChildrenOf
    <3> QED
      BY <1>6, <1>8, <2>2, <3>2, SmallestOfThree DEF Sunk
  <2> QED
    BY <2>1, <2>3 DEF HeapButUnder, IsHeap, UnderParent
<1> QED
  BY <1>5, <1>6, <1>9

-----------------------------------------------------------------------------
(* push and pop *)

\* What is in a sequence of elements of another is in the other.
LEMMA RangesAreTransitive ==
  ASSUME NEW X, NEW a \in Seq(X), NEW b \in Seq(Range(a))
  PROVE  b \in Seq(X) /\ Range(b) \in SUBSET Range(a)
  BY DEF Range

\* push keeps the heap and adds the event.
LEMMA PushKeeps ==
  ASSUME NEW heap \in Seq(Event), NEW event \in Event
  PROVE  /\ Push(heap, event) \in Seq(Range(heap) \cup {event})
         /\ Len(Push(heap, event)) = Len(heap) + 1
         /\ IsHeap(heap) => IsHeap(Push(heap, event))
<1> DEFINE longer == Append(heap, event)
           n == Len(heap) + 1
<1>1. /\ longer \in Seq(Event) /\ Len(longer) = n /\ n \in DOMAIN longer /\ n \in Nat
      /\ \A j \in DOMAIN longer : j # n => j \in DOMAIN heap /\ longer[j] = heap[j]
      /\ longer[n] = event /\ DOMAIN longer = 1 .. n
  OBVIOUS
<1>2. Range(longer) \in SUBSET (Range(heap) \cup {event})
  BY <1>1 DEF Range
<1>3. Push(heap, event) = SiftUp(longer, n)
  BY DEF Push
<1> HIDE DEF longer, n
<1>4. ASSUME IsHeap(heap) PROVE HeapButFor(longer, n)
  <2>1. ASSUME NEW j \in DOMAIN longer, j # n
        PROVE  UnderParent(longer, j)
    <3> SUFFICES ASSUME j > 1 PROVE InOrder(longer[j \div 2], longer[j])
      BY DEF UnderParent
    <3>1. j \in Nat /\ j < n /\ j \div 2 \in DOMAIN longer /\ j \div 2 # n
      BY <1>1, <2>1, ParentIsBefore
    <3>2. InOrder(heap[j \div 2], heap[j])
      BY <1>1, <1>4, <2>1 DEF IsHeap, UnderParent
    <3> QED
      BY <1>1, <2>1, <3>1, <3>2
  <2>2. ASSUME NEW j \in DOMAIN longer, j \div 2 = n
        PROVE  FALSE
    <3>1. j \in Nat /\ n \in Nat /\ n >= 1 /\ j <= n
      BY <1>1
    <3> QED
      BY <2>2, <3>1
  <2> QED
    BY <2>1, <2>2 DEF HeapButFor
<1>5. SiftUp(longer, n) \in Seq(Range(longer)) /\ Len(SiftUp(longer, n)) = Len(longer)
  BY <1>1, SiftUpKeeps
<1>6. IsHeap(heap) => IsHeap(SiftUp(longer, n))
  BY <1>1, <1>4, SiftUpKeeps
<1>7. SiftUp(longer, n) \in Seq(Range(heap) \cup {event})
  BY <1>2, <1>5
<1> QED
  BY <1>1, <1>3, <1>5, <1>6, <1>7 DEF n

\* pop keeps the heap and takes an event away.
LEMMA WithoutTopKeeps ==
  ASSUME NEW heap \in Seq(Event), heap # <<>>
  PROVE  /\ WithoutTop(heap) \in Seq(Range(heap))
         /\ Len(WithoutTop(heap)) = Len(heap) - 1
         /\ IsHeap(heap) => IsHeap(WithoutTop(heap))
<1>1. CASE Len(heap) = 1
  <2>1. WithoutTop(heap) = <<>> /\ DOMAIN <<>> = {}
    BY <1>1 DEF WithoutTop
  <2> QED
    BY <1>1, <2>1 DEF IsHeap
<1>2. CASE Len(heap) # 1
  <2> DEFINE n == Len(heap)
             shorter == [SubSeq(heap, 1, n - 1) EXCEPT ![1] = heap[n]]
  <2>1. n \in Nat /\ n > 1
    BY <1>2, EmptySeq
  <2>2. /\ shorter \in Seq(Range(heap)) /\ Len(shorter) = n - 1 /\ DOMAIN shorter = 1 .. n - 1
        /\ \A j \in DOMAIN shorter : j # 1 => shorter[j] = heap[j]
    <3> DEFINE front == SubSeq(heap, 1, n - 1)
               X == Range(heap)
    <3>1. heap[n] \in X /\ heap \in Seq(X)
      BY <2>1, SequenceIsFunction
    <3>2. front \in Seq(X) /\ Len(front) = n - 1 /\ \A j \in 1 .. n - 1 : front[j] = heap[j]
      <4> HIDE DEF X
      <4> QED
        BY <2>1, <3>1
    <3> HIDE DEF front, X, n
    <3>3. front \in [1 .. n - 1 -> X] /\ 1 \in 1 .. n - 1
      BY <2>1, <3>2
    <3>4. shorter \in [1 .. n - 1 -> X] /\ \A j \in 1 .. n - 1 : j # 1 => shorter[j] = heap[j]
      BY <3>1, <3>2, <3>3 DEF front
    <3>5. n - 1 \in Nat /\ DOMAIN shorter = 1 .. n - 1
      BY <2>1, <3>4
    <3> HIDE DEF shorter
    <3>6. shorter \in Seq(X) /\ Len(shorter) = n - 1
      BY <3>4, <3>5
    <3> QED
      BY <3>4, <3>5, <3>6 DEF X
  <2>3. shorter \in Seq(Event) /\ Range(shorter) \in SUBSET Range(heap) /\ 1 \in DOMAIN shorter
    BY <2>1, <2>2, RangesAreTransitive
  <2>4. WithoutTop(heap) = SiftDown(shorter, 1)
    BY <1>2 DEF WithoutTop
  <2> HIDE DEF shorter, n
  <2>5. ASSUME IsHeap(heap) PROVE HeapButUnder(shorter, 1)
    <3>1. ASSUME NEW j \in DOMAIN shorter, j \div 2 # 1
          PROVE  UnderParent(shorter, j)
      <4> SUFFICES ASSUME j > 1 PROVE InOrder(shorter[j \div 2], shorter[j])
        BY DEF UnderParent
      <4>1. j \in Nat /\ j \in DOMAIN heap /\ j \div 2 \in DOMAIN shorter
        BY <2>1, <2>2, ParentIsBefore DEF n
      <4>2. InOrder(heap[j \div 2], heap[j])
        BY <2>5, <4>1 DEF IsHeap, UnderParent
      <4> QED
        BY <2>2, <3>1, <4>1, <4>2
    <3> QED
      BY <3>1 DEF HeapButUnder
  <2>6. SiftDown(shorter, 1) \in Seq(Range(shorter)) /\ Len(SiftDown(shorter, 1)) = n - 1
    BY <2>2, <2>3, SiftDownKeeps
  <2>7. IsHeap(heap) => IsHeap(SiftDown(shorter, 1))
    BY <2>3, <2>5, SiftDownKeeps
  <2>8. SiftDown(shorter, 1) \in Seq(Range(heap))
    BY <2>3, <2>6
  <2> QED
    BY <2>4, <2>6, <2>7, <2>8 DEF n
<1> QED
  BY <1>1, <1>2

\* The numbers of a heap that do not come after its top are all of them.
LEMMA TopIsLeast ==
  ASSUME NEW heap \in Seq(Event), IsHeap(heap)
  PROVE  \A j \in DOMAIN heap : InOrder(heap[1], heap[j])
<1> DEFINE Misplaced == {j \in DOMAIN heap : ~InOrder(heap[1], heap[j])}
<1> SUFFICES ASSUME Misplaced # {} PROVE FALSE
  OBVIOUS
<1>1. Misplaced \in SUBSET Nat
  BY SequenceIsFunction
<1>2. PICK j \in Misplaced : \A k \in Misplaced : j <= k
  BY <1>1, RisingLoop!LeastNumber
<1>3. heap[1] \in Event /\ heap[j] \in Event /\ j \in Nat /\ j >= 1
  BY <1>2, SequenceIsFunction
<1>4. j # 1
  BY <1>2, <1>3, OrderOfEvents
<1>5. j \div 2 \in DOMAIN heap /\ j \div 2 < j
  BY <1>2, <1>3, <1>4, SequenceIsFunction, ParentIsBefore
<1>6. j \div 2 \notin Misplaced
  BY <1>2, <1>3, <1>5
<1>7. InOrder(heap[1], heap[j \div 2])
  BY <1>5, <1>6
<1>8. InOrder(heap[j \div 2], heap[j])
  <2>1. j > 1 /\ j \in DOMAIN heap
    BY <1>2, <1>3, <1>4
  <2>2. UnderParent(heap, j)
    BY <2>1 DEF IsHeap
  <2> QED
    BY <2>1, <2>2 DEF UnderParent
<1>9. heap[j \div 2] \in Event
  BY <1>5, SequenceIsFunction
<1> QED
  BY <1>2, <1>3, <1>7, <1>8, <1>9, OrderIsTransitive

-----------------------------------------------------------------------------
(* pushAll and popDue *)

PushStep(par, aux, heap, event) == Push(heap, event)

\* What has been made of the heap when the first i events are in.
PushedSoFar(ctx, i, heap) ==
  /\ heap \in Seq(ctx.of)
  /\ Len(heap) = Len(ctx.heap) + i
  /\ IsHeap(ctx.heap) => IsHeap(heap)

PushFold == INSTANCE LeftFold WITH Op <- PushStep, Inv <- PushedSoFar

LEMMA PushAllIsFold ==
  ASSUME NEW heap, NEW events
  PROVE  PushAll(heap, events) = PushFold!Folded({}, {}, heap, events)
  BY DEF PushAll, PushFold!Folded, PushStep, FoldLeft, PushFold!FoldLeft, MapThenFoldSet,
         PushFold!MapThenFoldSet, Max, PushFold!Max

\* What the elements of a sequence are taken from may grow.
LEMMA SequencesGrow ==
  ASSUME NEW X, NEW Y, X \subseteq Y, NEW s \in Seq(X)
  PROVE  s \in Seq(Y)
  OBVIOUS

\* pushAll keeps the heap and adds the events.
LEMMA PushAllKeeps ==
  ASSUME NEW heap \in Seq(Event), NEW events \in Seq(Event)
  PROVE  /\ PushAll(heap, events) \in Seq(Range(heap) \cup Range(events))
         /\ Len(PushAll(heap, events)) = Len(heap) + Len(events)
         /\ IsHeap(heap) => IsHeap(PushAll(heap, events))
<1> DEFINE X == Range(heap) \cup Range(events)
           n == Len(events)
           ctx == [heap |-> heap, of |-> X]
<1>1. X \in SUBSET Event /\ n \in Nat /\ DOMAIN events = 1 .. n /\ Len(heap) \in Nat
  BY SequenceIsFunction
<1>2. PushedSoFar(ctx, 0, heap)
  <2>1. heap \in Seq(X)
    BY SequenceIsFunction, SequencesGrow
  <2> QED
    BY <1>1, <2>1 DEF PushedSoFar
<1>3. ASSUME NEW i \in 1 .. n, NEW acc, PushedSoFar(ctx, i - 1, acc)
      PROVE  PushedSoFar(ctx, i, PushStep({}, {}, acc, events[i]))
  <2>1. acc \in Seq(X) /\ Len(acc) = Len(heap) + (i - 1) /\ (IsHeap(heap) => IsHeap(acc))
    BY <1>3 DEF PushedSoFar
  <2>2. acc \in Seq(Event) /\ Range(acc) \in SUBSET X
    BY <1>1, <2>1, SequenceIsFunction, SequencesGrow
  <2>3. events[i] \in Event /\ events[i] \in X
    BY <1>1, SequenceIsFunction
  <2> HIDE DEF X
  <2>4. Push(acc, events[i]) \in Seq(X)
    <3>1. Push(acc, events[i]) \in Seq(Range(acc) \cup {events[i]})
      BY <2>2, <2>3, PushKeeps
    <3>2. Range(acc) \cup {events[i]} \subseteq X
      BY <2>2, <2>3
    <3> QED
      BY <3>1, <3>2, SequencesGrow
  <2>5. Len(Push(acc, events[i])) = Len(heap) + i
    <3>1. Len(Push(acc, events[i])) = Len(acc) + 1
      BY <2>2, <2>3, PushKeeps
    <3> QED
      BY <1>1, <2>1, <3>1
  <2>6. IsHeap(acc) => IsHeap(Push(acc, events[i]))
    BY <2>2, <2>3, PushKeeps
  <2> QED
    BY <2>1, <2>4, <2>5, <2>6 DEF PushedSoFar, PushStep
<1>4. PushedSoFar(ctx, n, PushFold!Folded({}, {}, heap, events))
  <2> HIDE DEF ctx, n
  <2> QED
    BY <1>1, <1>2, <1>3, PushFold!FoldKeeps
<1> QED
  BY <1>4, PushAllIsFold DEF PushedSoFar

HasDrained(upTo, s) == Drained(s, upTo)

Pops(upTo, s) == Pop(s)

\* What the loop of popDue goes through.
Poppings(heap) == [due : Seq(Range(heap)), rest : Seq(Range(heap))]

\* What the loop of popDue keeps, with the turns it has had.
Popping(ctx, n, s) ==
  /\ s \in Poppings(ctx.heap)
  /\ Len(s.due) + Len(s.rest) = Len(ctx.heap)
  /\ Drained(s, ctx.upTo) \/ Len(s.due) = n
  /\ Len(s.due) = 0 => s.rest = ctx.heap
  /\ \A i \in DOMAIN s.due : s.due[i].at <= ctx.upTo
  /\ IsHeap(ctx.heap) => IsHeap(s.rest)

PoppingLoop == INSTANCE Loops WITH Ends <- HasDrained, Turn <- Pops, Inv <- Popping

LEMMA PopDueIsLoop ==
  ASSUME NEW heap, NEW upTo
  PROVE  PopDue(heap, upTo)
           = PoppingLoop!Looped(upTo, Len(heap), Poppings(heap), [due |-> <<>>, rest |-> heap])
  BY DEF PopDue, Loop, PoppingLoop!Looped, HasDrained, Pops, Poppings

\* A turn of popDue.
LEMMA PopKeeps ==
  ASSUME NEW ctx, ctx.heap \in Seq(Event), ctx.upTo \in Int, NEW n \in Nat, NEW s,
         Popping(ctx, n, s), ~Drained(s, ctx.upTo)
  PROVE  /\ Pop(s) \in Poppings(ctx.heap)
         /\ Popping(ctx, n + 1, Pop(s))
<1> DEFINE X == Range(ctx.heap)
           t == Pop(s)
<1>1. s.due \in Seq(X) /\ s.rest \in Seq(X) /\ X \in SUBSET Event
  BY SequenceIsFunction DEF Popping, Poppings
<1>2. s.rest \in Seq(Event) /\ s.rest # <<>> /\ Range(s.rest) \in SUBSET X
  BY <1>1, SequenceIsFunction, SequencesGrow DEF Drained
<1>3. Len(s.rest) \in Nat /\ Len(s.rest) >= 1 /\ s.rest[1] \in X /\ s.rest[1] \in Event
  BY <1>1, <1>2, EmptySeq
<1>4. s.rest[1].at <= ctx.upTo
  BY <1>2, <1>3 DEF Drained, Event
<1>5. t.due = Append(s.due, s.rest[1]) /\ t.rest = WithoutTop(s.rest)
      /\ t = [due |-> t.due, rest |-> t.rest]
  BY DEF Pop
<1>6. /\ WithoutTop(s.rest) \in Seq(Range(s.rest)) /\ Len(WithoutTop(s.rest)) = Len(s.rest) - 1
      /\ IsHeap(s.rest) => IsHeap(WithoutTop(s.rest))
  BY <1>2, WithoutTopKeeps
<1> HIDE DEF X, t
<1>7. t.rest \in Seq(X) /\ Len(t.rest) = Len(s.rest) - 1 /\ (IsHeap(s.rest) => IsHeap(t.rest))
  BY <1>2, <1>5, <1>6, SequencesGrow
<1>8. /\ t.due \in Seq(X) /\ Len(t.due) = Len(s.due) + 1 /\ Len(s.due) \in Nat
      /\ \A i \in DOMAIN t.due : (i \in DOMAIN s.due /\ t.due[i] = s.due[i]) \/ t.due[i] = s.rest[1]
  BY <1>1, <1>3, <1>5
<1>9. t \in Poppings(ctx.heap)
  BY <1>5, <1>7, <1>8 DEF Poppings, X
<1>10. Len(t.due) + Len(t.rest) = Len(ctx.heap) /\ Len(t.due) = n + 1 /\ Len(t.due) # 0
  <2>1. Len(s.due) + Len(s.rest) = Len(ctx.heap) /\ Len(s.due) = n
    BY DEF Popping
  <2>2. Len(t.due) = Len(s.due) + 1 /\ Len(t.rest) = Len(s.rest) - 1
    BY <1>7, <1>8
  <2>3. Len(s.rest) \in Nat /\ Len(s.due) \in Nat
    BY <1>3, <1>8
  <2>4. \A a, b \in Nat : (a + 1) + (b - 1) = a + b /\ a + 1 # 0
    OBVIOUS
  <2> QED
    BY <2>1, <2>2, <2>3, <2>4
<1>11. \A i \in DOMAIN t.due : t.due[i].at <= ctx.upTo
  BY <1>4, <1>8 DEF Popping
<1>12. IsHeap(ctx.heap) => IsHeap(t.rest)
  BY <1>7 DEF Popping
<1>13. Popping(ctx, n + 1, t)
  BY <1>9, <1>10, <1>11, <1>12 DEF Popping
<1> QED
  BY <1>9, <1>13 DEF t

\* popDue splits the heap: what is due comes out, at or before upTo; what is left
\* is a heap of what comes later.
LEMMA PopDueKeeps ==
  ASSUME NEW heap \in Seq(Event), NEW upTo \in Int
  PROVE  LET popped == PopDue(heap, upTo)
         IN /\ popped.due \in Seq(Range(heap))
            /\ popped.rest \in Seq(Range(heap))
            /\ Len(popped.due) + Len(popped.rest) = Len(heap)
            /\ Drained(popped, upTo)
            /\ Len(popped.due) = 0 => popped.rest = heap
            /\ \A i \in DOMAIN popped.due : popped.due[i].at <= upTo
            /\ IsHeap(heap) => IsHeap(popped.rest)
<1> DEFINE ctx == [heap |-> heap, upTo |-> upTo]
           start == [due |-> <<>>, rest |-> heap]
           n == Len(heap)
           result == PoppingLoop!Looped(upTo, n, Poppings(heap), start)
<1>1. n \in Nat /\ heap \in Seq(Range(heap)) /\ ctx.heap \in Seq(Event) /\ ctx.upTo \in Int
  BY SequenceIsFunction
<1>2. start \in Poppings(heap) /\ Popping(ctx, 0, start)
  <2>1. Len(start.due) = 0 /\ DOMAIN start.due = {} /\ start.due \in Seq(Range(heap))
    OBVIOUS
  <2> QED
    BY <1>1, <2>1 DEF Popping, Poppings
<1>3. ASSUME NEW i \in 1 .. n, NEW s \in Poppings(heap), Popping(ctx, i - 1, s)
      PROVE  PoppingLoop!Next(upTo, s) \in Poppings(heap) /\ Popping(ctx, i, PoppingLoop!Next(upTo, s))
  <2>1. CASE Drained(s, upTo)
    <3>1. PoppingLoop!Next(upTo, s) = s
      BY <2>1 DEF PoppingLoop!Next, HasDrained
    <3> QED
      BY <1>3, <2>1, <3>1 DEF Popping
  <2>2. CASE ~Drained(s, upTo)
    <3>1. PoppingLoop!Next(upTo, s) = Pop(s)
      BY <2>2 DEF PoppingLoop!Next, HasDrained, Pops
    <3>2. i - 1 \in Nat /\ (i - 1) + 1 = i
      OBVIOUS
    <3>3. ~Drained(s, ctx.upTo)
      BY <2>2
    <3>4. Pop(s) \in Poppings(ctx.heap) /\ Popping(ctx, (i - 1) + 1, Pop(s))
      <4> HIDE DEF ctx
      <4> QED
        BY <1>1, <1>3, <3>2, <3>3, PopKeeps
    <3> QED
      BY <3>1, <3>2, <3>4
  <2> QED
    BY <2>1, <2>2
<1>4. result \in Poppings(heap) /\ Popping(ctx, n, result)
  <2> HIDE DEF ctx, n, start
  <2> QED
    BY <1>1, <1>2, <1>3, PoppingLoop!LoopKeeps
<1>5. PopDue(heap, upTo) = result
  BY PopDueIsLoop
<1> HIDE DEF result
<1>6. /\ result.due \in Seq(Range(heap)) /\ result.rest \in Seq(Range(heap))
      /\ Len(result.due) + Len(result.rest) = n
      /\ Len(result.due) \in Nat /\ Len(result.rest) \in Nat
  BY <1>4 DEF Popping, Poppings
<1>7. Drained(result, upTo)
  <2>1. Drained(result, upTo) \/ Len(result.due) = n
    BY <1>4 DEF Popping
  <2>2. ASSUME Len(result.due) = n PROVE result.rest = <<>>
    BY <1>1, <1>6, <2>2, EmptySeq
  <2> QED
    BY <2>1, <2>2 DEF Drained
<1> QED
  BY <1>4, <1>5, <1>6, <1>7 DEF Popping

-----------------------------------------------------------------------------
(* Simulations *)

JournalLine == [at : Nat, kind : Kinds]

\* Every line of the journal is by the time t.
WrittenBy(journal, t) == \A m \in DOMAIN journal : journal[m].at <= t

\* Nothing in the heap is before the time t.
NotBefore(heap, t) == \A j \in DOMAIN heap : heap[j].at >= t

\* Each scheduled event is dispatched, pending, or one of the rest of a batch.
Accounted(sim, rest) ==
  sim.processed + Len(sim.heap) + rest = Len(Script[sim.input]) + sim.seq

\* The simulations a kernel holds between two calls.
Orderly(sim) ==
  /\ IsHeap(sim.heap)
  /\ sim.processed <= Ceiling
  /\ InTimeOrder(sim.journal)
  /\ \A m \in DOMAIN sim.journal : NotBefore(sim.heap, sim.journal[m].at)
  /\ ~sim.halted => Accounted(sim, 0)

\* The parts of a simulation.
LEMMA SimulationParts ==
  ASSUME NEW sim \in Simulation
  PROVE  /\ sim.input \in Inputs
         /\ sim.heap \in Seq(Event)
         /\ sim.now \in Nat
         /\ sim.seq \in Nat
         /\ sim.processed \in Nat
         /\ sim.halted \in BOOLEAN
         /\ sim.journal \in Seq(JournalLine)
  BY DEF Simulation, JournalLine

\* The events and the lines of a simulation.
LEMMA SimulationElements ==
  ASSUME NEW sim \in Simulation
  PROVE  /\ Len(sim.heap) \in Nat /\ DOMAIN sim.heap = 1 .. Len(sim.heap)
         /\ \A j \in DOMAIN sim.heap : sim.heap[j] \in Event /\ sim.heap[j].at \in Nat
         /\ \A m \in DOMAIN sim.journal : sim.journal[m].at \in Nat
<1> DEFINE heap == sim.heap
           journal == sim.journal
<1>1. heap \in Seq(Event) /\ journal \in Seq(JournalLine)
  BY SimulationParts
<1> HIDE DEF heap, journal
<1>2. /\ Len(heap) \in Nat /\ DOMAIN heap = 1 .. Len(heap)
      /\ \A j \in DOMAIN heap : heap[j] \in Event
      /\ \A m \in DOMAIN journal : journal[m] \in JournalLine
  BY <1>1, SequenceIsFunction
<1>3. \A e \in Event : e.at \in Nat
  BY DEF Event
<1>4. \A l \in JournalLine : l.at \in Nat
  BY DEF JournalLine
<1> QED
  BY <1>2, <1>3, <1>4 DEF heap, journal

\* The events of a script are scheduled at their times.
LEMMA SeedEventsAreEvents ==
  ASSUME NEW input \in Inputs
  PROVE  /\ SeedEvents(input) \in Seq(Event)
         /\ Len(SeedEvents(input)) = Len(Script[input])
         /\ Len(Script[input]) \in Nat
<1> DEFINE script == Script[input]
<1>1. script \in Seq([at : Nat, kind : Kinds])
  BY ScriptAssumption
<1>2. Len(script) \in Nat /\ DOMAIN script = 1 .. Len(script)
      /\ \A i \in DOMAIN script : script[i] \in [at : Nat, kind : Kinds] /\ i - 1 \in Nat
  <2> HIDE DEF script
  <2>1. Len(script) \in Nat /\ DOMAIN script = 1 .. Len(script)
        /\ \A i \in DOMAIN script : script[i] \in [at : Nat, kind : Kinds]
    BY <1>1, SequenceIsFunction
  <2> QED
    BY <2>1
<1>3. SeedEvents(input) = [i \in DOMAIN script |-> [at |-> script[i].at, seq |-> i - 1, kind |-> script[i].kind]]
  BY DEF SeedEvents
<1> HIDE DEF script
<1>4. SeedEvents(input) \in [1 .. Len(script) -> Event]
  BY <1>2, <1>3 DEF Event
<1>5. DOMAIN SeedEvents(input) = 1 .. Len(script)
  BY <1>2, <1>3
<1>6. SeedEvents(input) \in Seq(Event) /\ Len(SeedEvents(input)) = Len(script)
  BY <1>2, <1>4, <1>5
<1> QED
  BY <1>2, <1>6 DEF script

\* The empty sequence is a heap.
LEMMA EmptyHeap ==
  /\ <<>> \in Seq(Event)
  /\ IsHeap(<<>>)
  /\ Len(<<>>) = 0
  /\ Range(<<>>) = {}
<1>1. DOMAIN <<>> = {}
  OBVIOUS
<1> QED
  BY <1>1 DEF IsHeap, Range

\* A kernel is created orderly.
LEMMA CreatedOrderly ==
  ASSUME NEW input \in Inputs
  PROVE  /\ CreateKernel(input) \in Simulation
         /\ Orderly(CreateKernel(input))
<1> DEFINE heap == PushAll(<<>>, SeedEvents(input))
           sim == CreateKernel(input)
<1>1. heap \in Seq(Range(<<>>) \cup Range(SeedEvents(input))) /\ IsHeap(heap)
      /\ Len(heap) = Len(<<>>) + Len(SeedEvents(input))
  BY SeedEventsAreEvents, EmptyHeap, PushAllKeeps
<1>2. heap \in Seq(Event)
  <2>1. Range(<<>>) \cup Range(SeedEvents(input)) \subseteq Event
    BY SeedEventsAreEvents, EmptyHeap, SequenceIsFunction
  <2> QED
    BY <1>1, <2>1, SequencesGrow
<1>3. Len(heap) = Len(Script[input]) /\ Len(Script[input]) \in Nat
  BY <1>1, SeedEventsAreEvents, EmptyHeap
<1> HIDE DEF heap
<1>4. sim = [input |-> input, heap |-> heap, now |-> 0, seq |-> 0, processed |-> 0,
             halted |-> FALSE, journal |-> <<>>]
  BY DEF CreateKernel, heap
<1>5. sim \in Simulation
  <2>1. <<>> \in Seq([at : Nat, kind : Kinds])
    OBVIOUS
  <2> QED
    BY <1>2, <1>4, <2>1 DEF Simulation
<1>6. DOMAIN <<>> = {}
  OBVIOUS
<1>7. Orderly(sim)
  BY <1>1, <1>3, <1>4, <1>6, KernelBoundsAssumption DEF Orderly, InTimeOrder, Accounted
<1> QED
  BY <1>5, <1>7

-----------------------------------------------------------------------------
(* A dispatch *)

\* The events a reducer returns are not before the one they answer.
LEMMA NewEventsAreLater ==
  ASSUME NEW sim \in Simulation, NEW event \in Event
  PROVE  /\ NewEvents(sim, event) \in Seq(Event)
         /\ Len(NewEvents(sim, event)) = Len(Spawns[event.kind])
         /\ Len(Spawns[event.kind]) \in Nat
         /\ NotBefore(NewEvents(sim, event), event.at)
<1> DEFINE spawned == Spawns[event.kind]
           new == NewEvents(sim, event)
<1>1. event.at \in Nat /\ event.kind \in Kinds /\ sim.seq \in Nat
  BY DEF Event, Simulation
<1>2. spawned \in Seq([delay : Nat, kind : Kinds])
  BY <1>1, SpawnsAssumption
<1>3. Len(spawned) \in Nat /\ DOMAIN spawned = 1 .. Len(spawned)
      /\ \A i \in DOMAIN spawned : spawned[i] \in [delay : Nat, kind : Kinds]
  <2> HIDE DEF spawned
  <2> QED
    BY <1>2, SequenceIsFunction
<1>4. new = [i \in DOMAIN spawned |->
               [at |-> event.at + spawned[i].delay, seq |-> sim.seq + i, kind |-> spawned[i].kind]]
  BY DEF NewEvents
<1> HIDE DEF spawned, new
<1>5. ASSUME NEW i \in 1 .. Len(spawned)
      PROVE  new[i] \in Event /\ new[i].at >= event.at
  <2>1. spawned[i].delay \in Nat /\ spawned[i].kind \in Kinds /\ i \in Nat
    BY <1>3
  <2>2. event.at + spawned[i].delay \in Nat /\ event.at + spawned[i].delay >= event.at /\ sim.seq + i \in Nat
    BY <1>1, <2>1
  <2>3. new[i] = [at |-> event.at + spawned[i].delay, seq |-> sim.seq + i, kind |-> spawned[i].kind]
    BY <1>3, <1>4
  <2> QED
    BY <2>1, <2>2, <2>3 DEF Event
<1>6. DOMAIN new = 1 .. Len(spawned) /\ new \in [1 .. Len(spawned) -> Event]
  <2>1. DOMAIN new = 1 .. Len(spawned) /\ new = [i \in 1 .. Len(spawned) |-> new[i]]
    BY <1>3, <1>4
  <2> QED
    BY <1>5, <2>1
<1>7. new \in Seq(Event) /\ Len(new) = Len(spawned)
  BY <1>3, <1>6
<1> QED
  BY <1>3, <1>5, <1>6, <1>7 DEF NotBefore, new, spawned

\* The journal keeps its latest lines.
LEMMA CapJournalKeeps ==
  ASSUME NEW journal \in Seq(JournalLine)
  PROVE  /\ CapJournal(journal) \in Seq(JournalLine)
         /\ InTimeOrder(journal) => InTimeOrder(CapJournal(journal))
         /\ \A t \in Nat : WrittenBy(journal, t) => WrittenBy(CapJournal(journal), t)
<1> DEFINE n == Len(journal)
           capped == CapJournal(journal)
<1>1. n \in Nat /\ MaxJournal \in Nat /\ DOMAIN journal = 1 .. n
  BY KernelBoundsAssumption
<1>2. CASE n <= MaxJournal
  BY <1>2 DEF CapJournal
<1>3. CASE n > MaxJournal
  <2>1. capped = SubSeq(journal, n - MaxJournal + 1, n)
    BY <1>1, <1>3 DEF CapJournal
  <2> DEFINE k == n - MaxJournal
  <2>2. k \in Nat /\ k + MaxJournal = n
    BY <1>1, <1>3
  <2> HIDE DEF n, k
  <2>3. /\ capped \in Seq(JournalLine) /\ DOMAIN capped = 1 .. MaxJournal
        /\ \A i \in 1 .. MaxJournal : capped[i] = journal[i + k] /\ i + k \in DOMAIN journal
    BY <1>1, <2>1, <2>2 DEF k, n
  <2> HIDE DEF capped
  <2>4. ASSUME InTimeOrder(journal) PROVE InTimeOrder(capped)
    <3> SUFFICES ASSUME NEW a \in DOMAIN capped, NEW b \in DOMAIN capped, a < b
                 PROVE  capped[a].at <= capped[b].at
      BY DEF InTimeOrder
    <3>1. a + k \in DOMAIN journal /\ b + k \in DOMAIN journal /\ capped[a] = journal[a + k]
          /\ capped[b] = journal[b + k]
      BY <2>3
    <3>2. a + k < b + k
      BY <1>1, <2>2, <2>3
    <3>3. journal[a + k].at <= journal[b + k].at
      BY <2>4, <3>1, <3>2 DEF InTimeOrder
    <3> QED
      BY <3>1, <3>3
  <2>5. \A t \in Nat : WrittenBy(journal, t) => WrittenBy(capped, t)
    BY <2>3 DEF WrittenBy
  <2> QED
    BY <2>3, <2>4, <2>5 DEF capped
<1> QED
  BY <1>1, <1>2, <1>3

\* What an event that is dispatched makes of a simulation.
Dispatched(sim, event) ==
  [sim EXCEPT !.processed = @ + 1,
              !.now       = event.at,
              !.seq       = @ + Len(Spawns[event.kind]),
              !.heap      = PushAll(@, NewEvents(sim, event)),
              !.journal   = CapJournal(Append(@, [at |-> event.at, kind |-> event.kind]))]

LEMMA DispatchedParts ==
  ASSUME NEW sim \in Simulation, NEW event \in Event
  PROVE  LET d == Dispatched(sim, event)
         IN /\ d \in Simulation
            /\ d.input = sim.input
            /\ d.halted = sim.halted
            /\ d.processed = sim.processed + 1
            /\ d.now = event.at
            /\ d.seq = sim.seq + Len(Spawns[event.kind])
            /\ d.heap = PushAll(sim.heap, NewEvents(sim, event))
            /\ d.journal = CapJournal(Append(sim.journal, [at |-> event.at, kind |-> event.kind]))
<1> DEFINE heap == PushAll(sim.heap, NewEvents(sim, event))
           line == [at |-> event.at, kind |-> event.kind]
           journal == CapJournal(Append(sim.journal, line))
           d == Dispatched(sim, event)
<1>1. event.at \in Nat /\ event.kind \in Kinds
  BY DEF Event
<1>2. heap \in Seq(Event)
  <2>1. heap \in Seq(Range(sim.heap) \cup Range(NewEvents(sim, event)))
    BY SimulationParts, NewEventsAreLater, PushAllKeeps
  <2>2. Range(sim.heap) \cup Range(NewEvents(sim, event)) \subseteq Event
    BY SimulationParts, NewEventsAreLater, SequenceIsFunction
  <2> QED
    BY <2>1, <2>2, SequencesGrow
<1>3. journal \in Seq(JournalLine)
  <2>1. line \in JournalLine
    BY <1>1 DEF JournalLine
  <2>2. Append(sim.journal, line) \in Seq(JournalLine)
    BY <2>1, SimulationParts
  <2> QED
    BY <2>2, CapJournalKeeps
<1>4. sim.seq + Len(Spawns[event.kind]) \in Nat /\ sim.processed + 1 \in Nat
  BY SimulationParts, NewEventsAreLater
<1>5. d = [sim EXCEPT !.processed = sim.processed + 1, !.now = event.at,
                      !.seq = sim.seq + Len(Spawns[event.kind]), !.heap = heap, !.journal = journal]
  BY DEF Dispatched
<1> HIDE DEF heap, journal, d
<1>6. d \in Simulation
  BY <1>1, <1>2, <1>3, <1>4, <1>5 DEF Simulation, JournalLine
<1>7. /\ d.input = sim.input /\ d.halted = sim.halted /\ d.processed = sim.processed + 1
      /\ d.seq = sim.seq + Len(Spawns[event.kind]) /\ d.heap = heap /\ d.journal = journal
      /\ d.now = event.at
  BY <1>5 DEF Simulation
<1> QED
  BY <1>6, <1>7 DEF heap, journal, d

\* The three ways of a dispatch.
LEMMA DispatchCases ==
  ASSUME NEW sim \in Simulation, NEW event \in Event
  PROVE  /\ sim.halted => Dispatch(sim, event) = sim
         /\ ~sim.halted /\ sim.processed >= Ceiling =>
              Dispatch(sim, event) = [sim EXCEPT !.halted = TRUE]
         /\ ~sim.halted /\ sim.processed < Ceiling =>
              Dispatch(sim, event) = Dispatched(sim, event)
  BY SimulationParts, KernelBoundsAssumption DEF Dispatch, Dispatched

LEMMA HaltedParts ==
  ASSUME NEW sim \in Simulation
  PROVE  LET h == [sim EXCEPT !.halted = TRUE]
         IN /\ h \in Simulation /\ h.halted
            /\ h.input = sim.input /\ h.heap = sim.heap /\ h.seq = sim.seq
            /\ h.processed = sim.processed /\ h.journal = sim.journal /\ h.now = sim.now
  BY DEF Simulation

\* A dispatch counts one event, or halts.
LEMMA DispatchKeeps ==
  ASSUME NEW sim \in Simulation, NEW event \in Event
  PROVE  LET d == Dispatch(sim, event)
         IN /\ d \in Simulation
            /\ d.input = sim.input
            /\ d.halted \/ (d.processed = sim.processed + 1 /\ d.processed <= Ceiling)
<1>1. CASE sim.halted
  BY <1>1, DispatchCases
<1>2. CASE ~sim.halted /\ sim.processed >= Ceiling
  <2> DEFINE h == [sim EXCEPT !.halted = TRUE]
  <2>1. h \in Simulation /\ h.halted /\ h.input = sim.input
    BY HaltedParts
  <2>2. Dispatch(sim, event) = h
    BY <1>2, DispatchCases
  <2> HIDE DEF h
  <2> QED
    BY <2>1, <2>2
<1>3. CASE ~sim.halted /\ sim.processed < Ceiling
  <2>1. sim.processed + 1 <= Ceiling
    BY <1>3, SimulationParts, KernelBoundsAssumption
  <2> QED
    BY <1>3, <2>1, DispatchCases, DispatchedParts
<1> QED
  BY <1>1, <1>2, <1>3, SimulationParts, KernelBoundsAssumption

\* A simulation in the middle of a batch of the time t, with so many events of it
\* still to come.
Amid(sim, t, rest) ==
  /\ IsHeap(sim.heap)
  /\ sim.processed <= Ceiling
  /\ InTimeOrder(sim.journal)
  /\ WrittenBy(sim.journal, t)
  /\ NotBefore(sim.heap, t)
  /\ ~sim.halted => Accounted(sim, rest)

\* Nothing in what is made of two sequences is before a time that both respect.
LEMMA NotBeforeBoth ==
  ASSUME NEW a \in Seq(Event), NEW b \in Seq(Event), NEW c \in Seq(Range(a) \cup Range(b)),
         NEW t \in Nat, NotBefore(a, t), NotBefore(b, t)
  PROVE  NotBefore(c, t)
<1> SUFFICES ASSUME NEW j \in DOMAIN c PROVE c[j].at >= t
  BY DEF NotBefore
<1>1. c[j] \in Range(a) \cup Range(b)
  BY SequenceIsFunction
<1> QED
  BY <1>1 DEF Range, NotBefore

\* A line at the end of a journal that was written by then.
LEMMA JournalGrows ==
  ASSUME NEW journal \in Seq(JournalLine), NEW line \in JournalLine,
         InTimeOrder(journal), WrittenBy(journal, line.at)
  PROVE  /\ Append(journal, line) \in Seq(JournalLine)
         /\ InTimeOrder(Append(journal, line))
         /\ WrittenBy(Append(journal, line), line.at)
<1> DEFINE longer == Append(journal, line)
           n == Len(journal)
<1>1. /\ longer \in Seq(JournalLine) /\ n \in Nat /\ DOMAIN longer = 1 .. n + 1 /\ longer[n + 1] = line
      /\ \A i \in 1 .. n : i \in DOMAIN journal /\ longer[i] = journal[i]
  OBVIOUS
<1>2. line.at \in Nat /\ line.at <= line.at
  BY DEF JournalLine
<1> HIDE DEF longer, n
<1>3. \A i \in DOMAIN longer : i = n + 1 \/ i \in 1 .. n
  BY <1>1
<1>4. WrittenBy(longer, line.at)
  BY <1>1, <1>2, <1>3 DEF WrittenBy
<1>5. ASSUME NEW a \in DOMAIN longer, NEW b \in DOMAIN longer, a < b
      PROVE  longer[a].at <= longer[b].at
  <2>1. a \in 1 .. n
    BY <1>1, <1>5
  <2>2. CASE b = n + 1
    BY <1>1, <2>1, <2>2 DEF WrittenBy
  <2>3. CASE b \in 1 .. n
    BY <1>1, <1>5, <2>1, <2>3 DEF InTimeOrder
  <2> QED
    BY <1>3, <2>2, <2>3
<1> QED
  BY <1>1, <1>4, <1>5 DEF InTimeOrder, longer

\* A dispatch keeps the order, and its event is accounted for.
LEMMA DispatchKeepsOrder ==
  ASSUME NEW sim \in Simulation, NEW event \in Event, NEW rest \in Nat,
         Amid(sim, event.at, rest + 1)
  PROVE  Amid(Dispatch(sim, event), event.at, rest)
<1> DEFINE t == event.at
<1>1. t \in Nat /\ event.kind \in Kinds
  BY DEF Event
<1>2. CASE sim.halted
  BY <1>2, DispatchCases DEF Amid
<1>3. CASE ~sim.halted /\ sim.processed >= Ceiling
  <2> DEFINE h == [sim EXCEPT !.halted = TRUE]
  <2>1. /\ h.halted /\ h.heap = sim.heap /\ h.processed = sim.processed /\ h.journal = sim.journal
    BY HaltedParts
  <2>2. Dispatch(sim, event) = h
    BY <1>3, DispatchCases
  <2> HIDE DEF h
  <2>3. Amid(h, t, rest)
    BY <2>1 DEF Amid
  <2> QED
    BY <2>2, <2>3
<1>4. CASE ~sim.halted /\ sim.processed < Ceiling
  <2> DEFINE d == Dispatched(sim, event)
             new == NewEvents(sim, event)
             line == [at |-> t, kind |-> event.kind]
  <2>1. /\ d.input = sim.input /\ d.halted = sim.halted /\ d.processed = sim.processed + 1
        /\ d.seq = sim.seq + Len(Spawns[event.kind])
        /\ d.heap = PushAll(sim.heap, new) /\ d.journal = CapJournal(Append(sim.journal, line))
    BY DispatchedParts
  <2>2. /\ new \in Seq(Event) /\ Len(new) = Len(Spawns[event.kind]) /\ Len(new) \in Nat /\ NotBefore(new, t)
    BY NewEventsAreLater
  <2> HIDE DEF d, new
  <2>3. /\ d.heap \in Seq(Range(sim.heap) \cup Range(new))
        /\ Len(d.heap) = Len(sim.heap) + Len(new)
        /\ IsHeap(d.heap)
    <3>1. sim.heap \in Seq(Event) /\ IsHeap(sim.heap)
      BY SimulationParts DEF Amid
    <3> DEFINE heap == PushAll(sim.heap, new)
    <3>2. heap \in Seq(Range(sim.heap) \cup Range(new)) /\ Len(heap) = Len(sim.heap) + Len(new) /\ IsHeap(heap)
      BY <2>2, <3>1, PushAllKeeps
    <3> HIDE DEF heap
    <3> QED
      BY <2>1, <3>2 DEF heap
  <2>4. NotBefore(d.heap, t)
    BY <1>1, <2>2, <2>3, SimulationParts, NotBeforeBoth DEF Amid
  <2>5. InTimeOrder(d.journal) /\ WrittenBy(d.journal, t)
    <3>1. line \in JournalLine /\ line.at = t
      BY <1>1 DEF JournalLine
    <3>2. sim.journal \in Seq(JournalLine) /\ InTimeOrder(sim.journal) /\ WrittenBy(sim.journal, line.at)
      BY <3>1, SimulationParts DEF Amid
    <3> HIDE DEF line
    <3>3. /\ Append(sim.journal, line) \in Seq(JournalLine) /\ InTimeOrder(Append(sim.journal, line))
          /\ WrittenBy(Append(sim.journal, line), t)
      BY <3>1, <3>2, JournalGrows
    <3> QED
      BY <1>1, <2>1, <3>3, CapJournalKeeps
  <2>6. d.processed <= Ceiling
    BY <1>4, <2>1, SimulationParts, KernelBoundsAssumption
  <2>7. Accounted(d, rest)
    <3>1. Accounted(sim, rest + 1)
      BY <1>4 DEF Amid
    <3>2. /\ sim.processed \in Nat /\ sim.seq \in Nat /\ Len(sim.heap) \in Nat
          /\ Len(Script[sim.input]) \in Nat
      BY SimulationParts, SequenceIsFunction, SeedEventsAreEvents
    <3>3. sim.processed + Len(sim.heap) + (rest + 1) = Len(Script[sim.input]) + sim.seq
      BY <3>1 DEF Accounted
    <3>4. (sim.processed + 1) + (Len(sim.heap) + Len(new)) + rest = Len(Script[sim.input]) + (sim.seq + Len(new))
      <4>1. PICK p \in Nat, h \in Nat, w \in Nat, l \in Nat, q \in Nat :
               /\ p = sim.processed /\ h = Len(sim.heap) /\ w = Len(new)
               /\ l = Len(Script[sim.input]) /\ q = sim.seq
        BY <2>2, <3>2
      <4>2. p + h + (rest + 1) = l + q
        BY <3>3, <4>1
      <4>3. (p + 1) + (h + w) + rest = l + (q + w)
        BY <4>2
      <4> QED
        BY <4>1, <4>3
    <3> QED
      BY <2>1, <2>2, <2>3, <3>4 DEF Accounted
  <2>8. Amid(d, t, rest)
    BY <2>3, <2>4, <2>5, <2>6, <2>7 DEF Amid
  <2> QED
    BY <1>4, <2>8, DispatchCases DEF d
<1> QED
  BY <1>2, <1>3, <1>4, SimulationParts, KernelBoundsAssumption

-----------------------------------------------------------------------------
(* A batch *)

DispatchStep(par, aux, sim, event) == Dispatch(sim, event)

\* What has been made of a simulation when i events of the batch are dispatched.
BatchedSoFar(ctx, i, sim) ==
  /\ sim \in Simulation
  /\ sim.input = ctx.sim.input
  /\ sim.halted \/ sim.processed = ctx.sim.processed + i
  /\ sim.halted \/ i = 0 \/ sim.processed <= Ceiling
  /\ Orderly(ctx.sim) => Amid(sim, ctx.time, ctx.size - i)

DispatchFold == INSTANCE LeftFold WITH Op <- DispatchStep, Inv <- BatchedSoFar

\* The simulation whose batch has been taken out.
Popped(sim) == [sim EXCEPT !.heap = PopDue(sim.heap, sim.heap[1].at).rest]

BatchOf(sim) == PopDue(sim.heap, sim.heap[1].at).due

LEMMA BatchIsFold ==
  ASSUME NEW sim, NEW upTo
  PROVE  DispatchBatch(sim, upTo) = DispatchFold!Folded({}, {}, Popped(sim), BatchOf(sim))
  BY DEF DispatchBatch, BatchTime, Popped, BatchOf, DispatchFold!Folded, DispatchStep, FoldLeft,
         DispatchFold!FoldLeft, MapThenFoldSet, DispatchFold!MapThenFoldSet, Max, DispatchFold!Max

\* The batch is not empty, all of it is of one time, and the rest comes later.
LEMMA BatchKeeps ==
  ASSUME NEW sim \in Simulation, sim.heap # <<>>
  PROVE  /\ sim.heap[1] \in Event
         /\ BatchOf(sim) \in Seq(Event)
         /\ Len(BatchOf(sim)) \in Nat \ {0}
         /\ Popped(sim) \in Simulation
         /\ Popped(sim) = [sim EXCEPT !.heap = Popped(sim).heap]
         /\ Orderly(sim) =>
              /\ \A i \in DOMAIN BatchOf(sim) : BatchOf(sim)[i].at = sim.heap[1].at
              /\ Amid(Popped(sim), sim.heap[1].at, Len(BatchOf(sim)))
<1> DEFINE heap == sim.heap
           t == heap[1].at
           popped == PopDue(heap, t)
           p == Popped(sim)
<1>1. heap \in Seq(Event) /\ Len(heap) \in Nat /\ Len(heap) # 0 /\ 1 \in DOMAIN heap
  <2>1. heap \in Seq(Event)
    BY SimulationParts
  <2>2. Len(heap) # 0 /\ Len(heap) \in Nat /\ DOMAIN heap = 1 .. Len(heap)
    BY <2>1, EmptySeq
  <2> QED
    BY <2>1, <2>2
<1>2. heap[1] \in Event /\ t \in Nat
  BY <1>1, SimulationElements
<1> HIDE DEF heap, t
<1>3. /\ popped.due \in Seq(Range(heap)) /\ popped.rest \in Seq(Range(heap))
      /\ Len(popped.due) + Len(popped.rest) = Len(heap)
      /\ Drained(popped, t)
      /\ Len(popped.due) = 0 => popped.rest = heap
      /\ \A i \in DOMAIN popped.due : popped.due[i].at <= t
      /\ IsHeap(heap) => IsHeap(popped.rest)
  <2>1. t \in Int
    BY <1>2
  <2> QED
    BY <1>1, <2>1, PopDueKeeps
<1> HIDE DEF popped
<1>4. /\ popped.due \in Seq(Event) /\ popped.rest \in Seq(Event)
      /\ Len(popped.due) \in Nat /\ Len(popped.rest) \in Nat
  BY <1>1, <1>3, RangesAreTransitive, SequenceIsFunction
<1>5. Len(popped.due) # 0
  <2> SUFFICES ASSUME Len(popped.due) = 0 PROVE FALSE
    OBVIOUS
  <2>1. heap = <<>> \/ t > t
    BY <1>3 DEF Drained, t
  <2> QED
    BY <1>1, <1>2, <2>1, EmptySeq
<1>6. p = [sim EXCEPT !.heap = popped.rest] /\ BatchOf(sim) = popped.due
  BY DEF Popped, BatchOf, popped, heap, t
<1> HIDE DEF p
<1>7. /\ p \in Simulation /\ p.heap = popped.rest /\ p.input = sim.input /\ p.halted = sim.halted
      /\ p.processed = sim.processed /\ p.seq = sim.seq /\ p.journal = sim.journal
  BY <1>4, <1>6 DEF Simulation
<1>8. ASSUME Orderly(sim)
      PROVE  /\ \A i \in DOMAIN BatchOf(sim) : BatchOf(sim)[i].at = t
             /\ Amid(p, t, Len(popped.due))
  <2>1. IsHeap(heap)
    BY <1>8 DEF Orderly, heap
  <2>2. NotBefore(heap, t)
    <3> SUFFICES ASSUME NEW j \in DOMAIN heap PROVE heap[j].at >= t
      BY DEF NotBefore
    <3>1. InOrder(heap[1], heap[j]) /\ heap[j] \in Event /\ heap[j].at \in Nat
      <4>1. heap[j] \in Event /\ heap[j].at \in Nat
        BY SimulationElements DEF heap
      <4> QED
        BY <1>1, <2>1, <4>1, TopIsLeast
    <3>2. t <= heap[j].at
      BY <1>2, <3>1, OrderOfEvents DEF t
    <3> QED
      BY <1>2, <3>1, <3>2
  <2>3. \A x \in Range(heap) : x \in Event /\ x.at \in Nat /\ x.at >= t
    <3> TAKE x \in Range(heap)
    <3>1. PICK j \in DOMAIN heap : x = heap[j]
      BY DEF Range
    <3>2. heap[j] \in Event /\ heap[j].at \in Nat
      BY SimulationElements DEF heap
    <3> QED
      BY <2>2, <3>1, <3>2 DEF NotBefore
  <2>4. ASSUME NEW i \in DOMAIN popped.due PROVE popped.due[i].at = t
    <3>1. popped.due[i] \in Range(heap) /\ popped.due[i].at <= t
      BY <1>3, SequenceIsFunction
    <3> QED
      BY <1>2, <2>3, <3>1
  <2>5. NotBefore(popped.rest, t)
    <3> SUFFICES ASSUME NEW j \in DOMAIN popped.rest PROVE popped.rest[j].at >= t
      BY DEF NotBefore
    <3>1. popped.rest[j] \in Range(heap)
      BY <1>3, SequenceIsFunction
    <3> QED
      BY <2>3, <3>1
  <2>6. WrittenBy(sim.journal, t)
    <3> SUFFICES ASSUME NEW m \in DOMAIN sim.journal PROVE sim.journal[m].at <= t
      BY DEF WrittenBy
    <3>1. heap[1].at >= sim.journal[m].at
      BY <1>1, <1>8 DEF Orderly, NotBefore, heap
    <3>2. sim.journal[m].at \in Nat
      BY SimulationElements
    <3> QED
      BY <1>2, <3>1, <3>2 DEF t
  <2>7. ASSUME ~sim.halted PROVE Accounted(p, Len(popped.due))
    <3>1. sim.processed + Len(heap) + 0 = Len(Script[sim.input]) + sim.seq
      BY <1>8, <2>7 DEF Orderly, Accounted, heap
    <3>2. PICK a \in Nat, b \in Nat, c \in Nat, h \in Nat :
             a = sim.processed /\ b = Len(popped.rest) /\ c = Len(popped.due) /\ h = Len(heap)
      BY <1>1, <1>4, SimulationParts
    <3>3. a + b + c = a + h + 0
      <4>1. c + b = h
        BY <1>3, <3>2
      <4> QED
        BY <4>1
    <3> QED
      BY <1>7, <3>1, <3>2, <3>3 DEF Accounted
  <2> QED
    BY <1>3, <1>6, <1>7, <1>8, <2>1, <2>4, <2>5, <2>6, <2>7 DEF Amid, Orderly
<1> QED
  BY <1>2, <1>4, <1>5, <1>6, <1>7, <1>8 DEF p, heap, t

\* A simulation at the end of a batch is orderly.
LEMMA AmidToOrderly ==
  ASSUME NEW sim \in Simulation, NEW t \in Nat, Amid(sim, t, 0)
  PROVE  Orderly(sim)
<1>1. ASSUME NEW m \in DOMAIN sim.journal
      PROVE  NotBefore(sim.heap, sim.journal[m].at)
  <2> SUFFICES ASSUME NEW j \in DOMAIN sim.heap PROVE sim.heap[j].at >= sim.journal[m].at
    BY DEF NotBefore
  <2>1. sim.heap[j].at \in Nat /\ sim.journal[m].at \in Nat
    BY SimulationElements
  <2>2. sim.heap[j].at >= t /\ sim.journal[m].at <= t
    BY DEF Amid, NotBefore, WrittenBy
  <2> QED
    BY <2>1, <2>2
<1> QED
  BY <1>1 DEF Amid, Orderly

\* A batch takes a simulation on: it halts, or more events are counted and the
\* ceiling is respected; and the order is kept.
LEMMA DispatchBatchKeeps ==
  ASSUME NEW sim \in Simulation, sim.heap # <<>>, NEW upTo
  PROVE  LET b == DispatchBatch(sim, upTo)
         IN /\ b \in Simulation
            /\ b.input = sim.input
            /\ b.halted \/ (b.processed > sim.processed /\ b.processed <= Ceiling)
            /\ Orderly(sim) => Orderly(b) /\ NotBefore(b.heap, sim.heap[1].at)
<1> DEFINE t == sim.heap[1].at
           due == BatchOf(sim)
           n == Len(due)
           start == Popped(sim)
           ctx == [sim |-> sim, time |-> t, size |-> n]
           b == DispatchFold!Folded({}, {}, start, due)
<1>1. /\ t \in Nat /\ due \in Seq(Event) /\ n \in Nat /\ n # 0 /\ DOMAIN due = 1 .. n
      /\ start \in Simulation /\ start.input = sim.input /\ start.processed = sim.processed
  <2>1. sim.heap[1] \in Event /\ due \in Seq(Event) /\ n \in Nat \ {0}
        /\ start \in Simulation /\ start = [sim EXCEPT !.heap = start.heap]
    BY BatchKeeps
  <2>2. t \in Nat
    BY <2>1 DEF Event
  <2> HIDE DEF start, due, t, n
  <2>3. start.input = sim.input /\ start.processed = sim.processed
    BY <2>1 DEF Simulation
  <2>4. DOMAIN due = 1 .. n
    BY <2>1, SequenceIsFunction DEF n
  <2> QED
    BY <2>1, <2>2, <2>3, <2>4
<1>2. Orderly(sim) => /\ \A i \in DOMAIN due : due[i].at = t
                      /\ Amid(start, t, n)
  BY BatchKeeps
<1> HIDE DEF t, due, n, start
<1>3. BatchedSoFar(ctx, 0, start)
  BY <1>1, <1>2, SimulationParts DEF BatchedSoFar
<1>4. ASSUME NEW i \in 1 .. n, NEW acc, BatchedSoFar(ctx, i - 1, acc)
      PROVE  BatchedSoFar(ctx, i, DispatchStep({}, {}, acc, due[i]))
  <2> DEFINE d == Dispatch(acc, due[i])
  <2>1. acc \in Simulation /\ acc.input = sim.input /\ due[i] \in Event
    BY <1>1, <1>4 DEF BatchedSoFar
  <2>2. /\ d \in Simulation /\ d.input = acc.input
        /\ d.halted \/ (d.processed = acc.processed + 1 /\ d.processed <= Ceiling)
    BY <2>1, DispatchKeeps
  <2>3. acc.halted => d = acc
    BY <2>1, DispatchCases
  <2> HIDE DEF d
  <2>4. d.halted \/ d.processed = sim.processed + i
    <3>1. CASE acc.halted
      BY <2>3, <3>1
    <3>2. CASE ~acc.halted
      <4>1. acc.processed = sim.processed + (i - 1)
        BY <1>4, <3>2 DEF BatchedSoFar
      <4>2. sim.processed \in Nat /\ acc.processed \in Nat
        BY <2>1, SimulationParts
      <4> QED
        BY <2>2, <4>1, <4>2
    <3> QED
      BY <3>1, <3>2
  <2>5. ASSUME Orderly(sim) PROVE Amid(d, t, n - i)
    <3>1. Amid(acc, t, n - (i - 1))
      BY <1>4, <2>5 DEF BatchedSoFar
    <3>2. n - i \in Nat /\ n - (i - 1) = (n - i) + 1
      BY <1>1
    <3>3. due[i].at = t
      BY <1>1, <1>2, <2>5
    <3> QED
      BY <2>1, <3>1, <3>2, <3>3, DispatchKeepsOrder DEF d
  <2> QED
    BY <2>1, <2>2, <2>4, <2>5 DEF BatchedSoFar, DispatchStep, d
<1>5. BatchedSoFar(ctx, n, b)
  <2> HIDE DEF ctx
  <2> QED
    BY <1>1, <1>3, <1>4, DispatchFold!FoldKeeps
<1>6. DispatchBatch(sim, upTo) = b
  BY BatchIsFold DEF start, due
<1> HIDE DEF b
<1>7. b \in Simulation /\ b.input = sim.input
  BY <1>5 DEF BatchedSoFar
<1>8. b.halted \/ (b.processed > sim.processed /\ b.processed <= Ceiling)
  <2>1. b.halted \/ (b.processed = sim.processed + n /\ b.processed <= Ceiling)
    BY <1>1, <1>5 DEF BatchedSoFar
  <2>2. sim.processed \in Nat /\ sim.processed + n > sim.processed
    BY <1>1, SimulationParts
  <2> QED
    BY <2>1, <2>2
<1>9. ASSUME Orderly(sim) PROVE Orderly(b) /\ NotBefore(b.heap, t)
  <2>1. n - n = 0 /\ Amid(b, t, n - n)
    BY <1>1, <1>5, <1>9 DEF BatchedSoFar
  <2> QED
    BY <1>1, <1>7, <2>1, AmidToOrderly DEF Amid
<1> QED
  BY <1>6, <1>7, <1>8, <1>9 DEF t

-----------------------------------------------------------------------------
(* A run *)

RunEnds(upTo, sim) == Done(sim, upTo)

RunTurn(upTo, sim) == DispatchBatch(sim, upTo)

\* What a run has made of a simulation after n turns.
Running(ctx, n, sim) ==
  /\ sim.input = ctx.sim.input
  /\ Done(sim, ctx.upTo) \/ (sim.processed >= n /\ (n = 0 \/ sim.processed <= Ceiling))
  /\ Orderly(ctx.sim) => Orderly(sim)

RunningLoop == INSTANCE Loops WITH Ends <- RunEnds, Turn <- RunTurn, Inv <- Running

LEMMA RunIsLoop ==
  ASSUME NEW sim \in Simulation, NEW upTo
  PROVE  /\ sim.input \in Invalid => Run(sim, upTo) = sim
         /\ sim.input \notin Invalid =>
              Run(sim, upTo) = RunningLoop!Looped(upTo, Ceiling + 1, Simulation, sim)
  BY DEF Run, Loop, RunningLoop!Looped, RunEnds, RunTurn

\* A turn of a run, or none when it is done.
NextOfRun(upTo, sim) == IF Done(sim, upTo) THEN sim ELSE DispatchBatch(sim, upTo)

LEMMA TurnOfRunKeeps ==
  ASSUME NEW sim \in Simulation, NEW upTo
  PROVE  /\ NextOfRun(upTo, sim) \in Simulation
         /\ NextOfRun(upTo, sim).input = sim.input
         /\ Done(sim, upTo) => NextOfRun(upTo, sim) = sim
         /\ ~Done(sim, upTo) =>
              /\ NextOfRun(upTo, sim) = DispatchBatch(sim, upTo)
              /\ NextOfRun(upTo, sim).halted
                 \/ (/\ NextOfRun(upTo, sim).processed > sim.processed
                     /\ NextOfRun(upTo, sim).processed <= Ceiling)
         /\ Orderly(sim) => Orderly(NextOfRun(upTo, sim))
<1>1. CASE Done(sim, upTo)
  BY <1>1 DEF NextOfRun
<1>2. CASE ~Done(sim, upTo)
  <2>1. sim.heap # <<>>
    BY <1>2 DEF Done
  <2>2. NextOfRun(upTo, sim) = DispatchBatch(sim, upTo)
    BY <1>2 DEF NextOfRun
  <2> QED
    BY <1>2, <2>1, <2>2, DispatchBatchKeeps
<1> QED
  BY <1>1, <1>2

\* However a run is taken, it is over within one turn more than the ceiling:
\* nothing is left that is due, or the kernel has halted.  It keeps the order.
LEMMA RunKeeps ==
  ASSUME NEW sim \in Simulation, NEW upTo
  PROVE  LET r == Run(sim, upTo)
         IN /\ r \in Simulation
            /\ r.input = sim.input
            /\ sim.input \in Invalid \/ Done(r, upTo)
            /\ Orderly(sim) => Orderly(r)
<1>1. CASE sim.input \in Invalid
  BY <1>1, RunIsLoop
<1>2. CASE sim.input \notin Invalid
  <2> DEFINE ctx == [sim |-> sim, upTo |-> upTo]
             n == Ceiling + 1
             r == RunningLoop!Looped(upTo, n, Simulation, sim)
  <2>1. n \in Nat /\ n # 0
    BY KernelBoundsAssumption
  <2>2. Running(ctx, 0, sim)
    BY SimulationParts DEF Running
  <2>3. ASSUME NEW i \in 1 .. n, NEW s \in Simulation, Running(ctx, i - 1, s)
        PROVE  RunningLoop!Next(upTo, s) \in Simulation /\ Running(ctx, i, RunningLoop!Next(upTo, s))
    <3> DEFINE t == NextOfRun(upTo, s)
    <3>1. RunningLoop!Next(upTo, s) = t
      BY DEF RunningLoop!Next, RunEnds, RunTurn, NextOfRun
    <3>2. /\ t \in Simulation /\ t.input = s.input
          /\ Done(s, upTo) => t = s
          /\ ~Done(s, upTo) => t.halted \/ (t.processed > s.processed /\ t.processed <= Ceiling)
          /\ Orderly(s) => Orderly(t)
      BY TurnOfRunKeeps
    <3> HIDE DEF t
    <3>3. ASSUME ~Done(t, upTo) PROVE t.processed >= i /\ t.processed <= Ceiling
      <4>1. ~Done(s, upTo) /\ ~t.halted
        BY <3>2, <3>3 DEF Done
      <4>2. s.processed >= i - 1 /\ t.processed > s.processed
        BY <2>3, <3>2, <4>1 DEF Running
      <4>3. s.processed \in Nat /\ t.processed \in Nat /\ i \in Nat
        BY <3>2, SimulationParts
      <4> QED
        BY <3>2, <4>1, <4>2, <4>3
    <3> QED
      BY <2>3, <3>1, <3>2, <3>3 DEF Running
  <2>4. r \in Simulation /\ Running(ctx, n, r)
    <3> HIDE DEF ctx, n
    <3> QED
      BY <2>1, <2>2, <2>3, RunningLoop!LoopKeeps
  <2> HIDE DEF r
  <2>5. Done(r, upTo)
    <3>1. r.processed \in Nat /\ ~(r.processed >= n /\ r.processed <= Ceiling)
      BY <2>4, SimulationParts, KernelBoundsAssumption
    <3> QED
      BY <2>1, <2>4, <3>1 DEF Running
  <2>6. Run(sim, upTo) = r
    BY <1>2, RunIsLoop DEF r
  <2> QED
    BY <2>4, <2>5, <2>6 DEF Running
<1> QED
  BY <1>1, <1>2

\* What is done stays as it is.
LEMMA RunStops ==
  ASSUME NEW sim \in Simulation, NEW upTo, Done(sim, upTo)
  PROVE  Run(sim, upTo) = sim
<1>1. Ceiling + 1 \in Nat /\ RunEnds(upTo, sim)
  BY KernelBoundsAssumption DEF RunEnds
<1>2. RunningLoop!Looped(upTo, Ceiling + 1, Simulation, sim) = sim
  BY <1>1, RunningLoop!LoopStops
<1> QED
  BY <1>2, RunIsLoop

\* A run may go on from where one of its turns has led.
LEMMA RunGoesOn ==
  ASSUME NEW sim \in Simulation, NEW upTo, sim.input \notin Invalid
  PROVE  Run(NextOfRun(upTo, sim), upTo) = Run(sim, upTo)
<1> DEFINE n == Ceiling + 1
           next == NextOfRun(upTo, sim)
<1>1. n \in Nat \ {0}
  BY KernelBoundsAssumption
<1>2. \A s : RunningLoop!Next(upTo, s) = NextOfRun(upTo, s)
  BY DEF RunningLoop!Next, RunEnds, RunTurn, NextOfRun
<1>3. \A s \in Simulation : RunningLoop!Next(upTo, s) \in Simulation
  BY <1>2, TurnOfRunKeeps
<1>4. next \in Simulation /\ next.input = sim.input
  BY TurnOfRunKeeps
<1>5. /\ Run(sim, upTo) = RunningLoop!Looped(upTo, n, Simulation, sim)
      /\ Run(next, upTo) = RunningLoop!Looped(upTo, n, Simulation, next)
  BY <1>4, RunIsLoop
<1>6. RunEnds(upTo, RunningLoop!Looped(upTo, n, Simulation, sim))
  BY <1>5, RunKeeps DEF RunEnds
<1>7. RunningLoop!Looped(upTo, n, Simulation, RunningLoop!Next(upTo, sim))
        = RunningLoop!Looped(upTo, n, Simulation, sim)
  <2> HIDE DEF n
  <2> QED
    BY <1>1, <1>3, <1>6, RunningLoop!LoopGoesOn
<1> QED
  BY <1>2, <1>5, <1>7

-----------------------------------------------------------------------------
(* A run in slices *)

\* What a run leads to is what the run that it is a part of leads to.
Leading(ctx, n, sim) ==
  /\ sim.input = ctx.sim.input
  /\ Run(sim, ctx.upTo) = Run(ctx.sim, ctx.upTo)

SlicedLoop == INSTANCE Loops WITH Ends <- RunEnds, Turn <- RunTurn, Inv <- Leading

\* What is done by a time is done by an earlier one.
LEMMA DoneEarlier ==
  ASSUME NEW sim \in Simulation, NEW t1 \in Int, NEW t2 \in Int, t1 <= t2, Done(sim, t2)
  PROVE  Done(sim, t1)
<1>1. CASE sim.halted \/ sim.heap = <<>>
  BY <1>1 DEF Done
<1>2. CASE ~sim.halted /\ sim.heap # <<>>
  <2>1. 1 \in DOMAIN sim.heap
    BY <1>2, SimulationParts, SimulationElements, EmptySeq
  <2>2. sim.heap[1].at \in Nat /\ sim.heap[1].at > t2
    BY <1>2, <2>1, SimulationElements DEF Done
  <2> QED
    BY <2>2 DEF Done
<1> QED
  BY <1>1, <1>2

\* A run to a time, and on from there to a later one, is a single run.
LEMMA RunInSlices ==
  ASSUME NEW sim \in Simulation, NEW t1 \in Int, NEW t2 \in Int, t1 <= t2
  PROVE  Run(Run(sim, t1), t2) = Run(sim, t2)
<1>1. CASE sim.input \in Invalid
  BY <1>1, RunIsLoop
<1>2. CASE sim.input \notin Invalid
  <2> DEFINE ctx == [sim |-> sim, upTo |-> t2]
             n == Ceiling + 1
             r == SlicedLoop!Looped(t1, n, Simulation, sim)
  <2>1. n \in Nat
    BY KernelBoundsAssumption
  <2>2. Leading(ctx, 0, sim)
    BY DEF Leading
  <2>3. ASSUME NEW i \in 1 .. n, NEW s \in Simulation, Leading(ctx, i - 1, s)
        PROVE  SlicedLoop!Next(t1, s) \in Simulation /\ Leading(ctx, i, SlicedLoop!Next(t1, s))
    <3>1. SlicedLoop!Next(t1, s) = NextOfRun(t1, s)
      BY DEF SlicedLoop!Next, RunEnds, RunTurn, NextOfRun
    <3>2. s.input = sim.input /\ Run(s, t2) = Run(sim, t2)
      BY <2>3 DEF Leading
    <3>3. NextOfRun(t1, s) \in Simulation /\ NextOfRun(t1, s).input = s.input
      BY TurnOfRunKeeps
    <3>4. CASE Done(s, t1)
      BY <2>3, <3>1, <3>4 DEF NextOfRun, Leading
    <3>5. CASE ~Done(s, t1)
      <4>1. ~Done(s, t2)
        BY <3>5, DoneEarlier
      <4>2. DispatchBatch(s, t1) = DispatchBatch(s, t2)
        BY DEF DispatchBatch, BatchTime
      <4>3. NextOfRun(t1, s) = NextOfRun(t2, s)
        BY <3>5, <4>1, <4>2 DEF NextOfRun
      <4>4. Run(NextOfRun(t2, s), t2) = Run(s, t2)
        BY <1>2, <3>2, RunGoesOn
      <4> QED
        BY <3>1, <3>2, <3>3, <4>3, <4>4 DEF Leading
    <3> QED
      BY <3>4, <3>5
  <2>4. Leading(ctx, n, r)
    <3> HIDE DEF ctx, n
    <3> QED
      BY <2>1, <2>2, <2>3, SlicedLoop!LoopKeeps
  <2>5. Run(sim, t1) = r
    BY <1>2 DEF Run, Loop, SlicedLoop!Looped, RunEnds, RunTurn
  <2> HIDE DEF r
  <2> QED
    BY <2>4, <2>5 DEF Leading
<1> QED
  BY <1>1, <1>2

\* A run to a time that has been reached changes nothing.
LEMMA RunNoFurther ==
  ASSUME NEW sim \in Simulation, NEW t1 \in Int, NEW t2 \in Int, t2 <= t1
  PROVE  Run(Run(sim, t1), t2) = Run(sim, t1)
<1>1. CASE sim.input \in Invalid
  BY <1>1, RunIsLoop
<1>2. CASE sim.input \notin Invalid
  <2>1. Run(sim, t1) \in Simulation /\ Done(Run(sim, t1), t1)
    BY <1>2, RunKeeps
  <2>2. Done(Run(sim, t1), t2)
    BY <2>1, DoneEarlier
  <2> QED
    BY <2>1, <2>2, RunStops
<1> QED
  BY <1>1, <1>2

-----------------------------------------------------------------------------
(* The clock of a simulation *)

\* Two simulations that differ by their clock at most.
Alike(a, b) ==
  /\ a.input = b.input
  /\ a.heap = b.heap
  /\ a.seq = b.seq
  /\ a.processed = b.processed
  /\ a.halted = b.halted
  /\ a.journal = b.journal

LEMMA AlikeContents ==
  ASSUME NEW a \in Simulation, NEW b \in Simulation
  PROVE  Alike(a, b) <=> Contents(a) = Contents(b)
<1>1. ASSUME NEW s \in Simulation
      PROVE  /\ Contents(s) \in Simulation /\ Contents(s).now = 0
             /\ Contents(s).input = s.input /\ Contents(s).heap = s.heap
             /\ Contents(s).seq = s.seq /\ Contents(s).processed = s.processed
             /\ Contents(s).halted = s.halted /\ Contents(s).journal = s.journal
  BY DEF Contents, Simulation
<1>2. ASSUME NEW x \in Simulation, NEW y \in Simulation, Alike(x, y), x.now = y.now
      PROVE  x = y
  <2> DEFINE R(s) == [input |-> s.input, heap |-> s.heap, now |-> s.now, seq |-> s.seq,
                      processed |-> s.processed, halted |-> s.halted, journal |-> s.journal]
  <2>1. x = R(x) /\ y = R(y)
    BY DEF Simulation
  <2>2. R(x) = R(y)
    BY <1>2 DEF Alike
  <2> QED
    BY <2>1, <2>2
<1>3. Contents(a) \in Simulation /\ Contents(b) \in Simulation
      /\ Contents(a).now = Contents(b).now
  BY <1>1
<1>4. Alike(a, b) => Contents(a) = Contents(b)
  <2> SUFFICES ASSUME Alike(a, b) PROVE Contents(a) = Contents(b)
    OBVIOUS
  <2> DEFINE x == Contents(a)
             y == Contents(b)
  <2>1. x \in Simulation /\ y \in Simulation /\ x.now = y.now
    BY <1>3
  <2>2. /\ x.input = a.input /\ x.heap = a.heap /\ x.seq = a.seq
        /\ x.processed = a.processed /\ x.halted = a.halted /\ x.journal = a.journal
    BY <1>1
  <2>3. /\ y.input = b.input /\ y.heap = b.heap /\ y.seq = b.seq
        /\ y.processed = b.processed /\ y.halted = b.halted /\ y.journal = b.journal
    BY <1>1
  <2> HIDE DEF x, y
  <2>4. Alike(x, y)
    BY <2>2, <2>3 DEF Alike
  <2>5. x = y
    BY <1>2, <2>1, <2>4
  <2> QED
    BY <2>5 DEF x, y
<1>5. ASSUME Contents(a) = Contents(b) PROVE Alike(a, b)
  <2>1. /\ Contents(a).input = Contents(b).input /\ Contents(a).heap = Contents(b).heap
        /\ Contents(a).seq = Contents(b).seq /\ Contents(a).processed = Contents(b).processed
        /\ Contents(a).halted = Contents(b).halted /\ Contents(a).journal = Contents(b).journal
    BY <1>5
  <2>2. /\ Contents(a).input = a.input /\ Contents(a).heap = a.heap
        /\ Contents(a).seq = a.seq /\ Contents(a).processed = a.processed
        /\ Contents(a).halted = a.halted /\ Contents(a).journal = a.journal
    BY <1>1
  <2>3. /\ Contents(b).input = b.input /\ Contents(b).heap = b.heap
        /\ Contents(b).seq = b.seq /\ Contents(b).processed = b.processed
        /\ Contents(b).halted = b.halted /\ Contents(b).journal = b.journal
    BY <1>1
  <2> QED
    BY <2>1, <2>2, <2>3 DEF Alike
<1> QED
  BY <1>4, <1>5

\* No event is dispatched with a look at the clock.
LEMMA DispatchIgnoresNow ==
  ASSUME NEW a \in Simulation, NEW b \in Simulation, NEW event \in Event, Alike(a, b)
  PROVE  Alike(Dispatch(a, event), Dispatch(b, event))
<1>1. CASE a.halted
  BY <1>1, DispatchCases DEF Alike
<1>2. CASE ~a.halted /\ a.processed >= Ceiling
  <2>1. Dispatch(a, event) = [a EXCEPT !.halted = TRUE] /\ Dispatch(b, event) = [b EXCEPT !.halted = TRUE]
    BY <1>2, DispatchCases DEF Alike
  <2> QED
    BY <2>1, HaltedParts DEF Alike
<1>3. CASE ~a.halted /\ a.processed < Ceiling
  <2>1. Dispatch(a, event) = Dispatched(a, event) /\ Dispatch(b, event) = Dispatched(b, event)
    BY <1>3, DispatchCases DEF Alike
  <2>2. NewEvents(a, event) = NewEvents(b, event)
    BY DEF NewEvents, Alike
  <2> DEFINE p == Dispatched(a, event)
             q == Dispatched(b, event)
  <2>3. /\ p.input = a.input /\ p.halted = a.halted /\ p.processed = a.processed + 1
        /\ p.seq = a.seq + Len(Spawns[event.kind])
        /\ p.heap = PushAll(a.heap, NewEvents(a, event))
        /\ p.journal = CapJournal(Append(a.journal, [at |-> event.at, kind |-> event.kind]))
    BY DispatchedParts
  <2>4. /\ q.input = b.input /\ q.halted = b.halted /\ q.processed = b.processed + 1
        /\ q.seq = b.seq + Len(Spawns[event.kind])
        /\ q.heap = PushAll(b.heap, NewEvents(b, event))
        /\ q.journal = CapJournal(Append(b.journal, [at |-> event.at, kind |-> event.kind]))
    BY DispatchedParts
  <2> HIDE DEF p, q
  <2>5. Alike(p, q)
    BY <2>2, <2>3, <2>4, Zenon DEF Alike
  <2> QED
    BY <2>1, <2>5 DEF p, q
<1> QED
  BY <1>1, <1>2, <1>3, SimulationParts, KernelBoundsAssumption

\* The batch of a simulation goes along with that of another, step by step.
AlikeSoFar(ctx, i, sim) ==
  /\ sim \in Simulation
  /\ ctx[i] \in Simulation
  /\ Alike(sim, ctx[i])

AlikeFold == INSTANCE LeftFold WITH Op <- DispatchStep, Inv <- AlikeSoFar

\* Nor is a batch.
LEMMA BatchIgnoresNow ==
  ASSUME NEW a \in Simulation, NEW b \in Simulation, NEW upTo, a.heap # <<>>, Alike(a, b)
  PROVE  Alike(DispatchBatch(a, upTo), DispatchBatch(b, upTo))
<1> DEFINE due == BatchOf(a)
           n == Len(due)
<1>1. a.heap = b.heap /\ BatchOf(b) = due
  BY DEF BatchOf, Alike
<1>2. /\ due \in Seq(Event) /\ n \in Nat /\ DOMAIN due = 1 .. n
      /\ \A i \in 1 .. n : due[i] \in Event
  <2>1. due \in Seq(Event)
    BY BatchKeeps
  <2> HIDE DEF due
  <2> QED
    BY <2>1, SequenceIsFunction
<1>3. Popped(a) \in Simulation /\ Popped(b) \in Simulation
  BY <1>1, BatchKeeps
<1>4. Alike(Popped(a), Popped(b))
  <2> DEFINE rest == PopDue(a.heap, a.heap[1].at).rest
  <2>1. Popped(a) = [a EXCEPT !.heap = rest] /\ Popped(b) = [b EXCEPT !.heap = rest]
    BY <1>1 DEF Popped
  <2> HIDE DEF rest
  <2> QED
    BY <2>1 DEF Alike, Simulation
<1> HIDE DEF due
<1>5. PICK h : DispatchFold!Steps(h, n, {}, {}, Popped(b), due)
  BY <1>2, DispatchFold!FoldSteps
<1>6. h[0] = Popped(b) /\ \A i \in 1 .. n : h[i] = Dispatch(h[i - 1], due[i])
  BY <1>5 DEF DispatchFold!Steps, DispatchStep
<1>7. DispatchBatch(b, upTo) = h[n]
  BY <1>1, <1>5, BatchIsFold DEF DispatchFold!Steps
<1>8. AlikeSoFar(h, 0, Popped(a))
  BY <1>3, <1>4, <1>6 DEF AlikeSoFar
<1>9. ASSUME NEW i \in 1 .. n, NEW acc, AlikeSoFar(h, i - 1, acc)
      PROVE  AlikeSoFar(h, i, DispatchStep({}, {}, acc, due[i]))
  <2>1. acc \in Simulation /\ h[i - 1] \in Simulation /\ Alike(acc, h[i - 1])
    BY <1>9 DEF AlikeSoFar
  <2>2. h[i] = Dispatch(h[i - 1], due[i]) /\ due[i] \in Event
    BY <1>2, <1>6
  <2> QED
    BY <2>1, <2>2, DispatchKeeps, DispatchIgnoresNow DEF AlikeSoFar, DispatchStep
<1>10. AlikeSoFar(h, n, AlikeFold!Folded({}, {}, Popped(a), due))
  BY <1>2, <1>8, <1>9, AlikeFold!FoldKeeps
<1>11. DispatchBatch(a, upTo) = AlikeFold!Folded({}, {}, Popped(a), due)
  BY DEF DispatchBatch, BatchTime, Popped, BatchOf, due, AlikeFold!Folded, DispatchStep, FoldLeft,
         AlikeFold!FoldLeft, MapThenFoldSet, AlikeFold!MapThenFoldSet, Max, AlikeFold!Max
<1> QED
  BY <1>7, <1>10, <1>11 DEF AlikeSoFar

\* A run goes along with that of a simulation that is alike.
RunsAlike(ctx, n, sim) ==
  \E other \in Simulation :
    /\ Alike(sim, other)
    /\ other.input \notin Invalid
    /\ Run(other, ctx.upTo) = ctx.result

AlikeLoop == INSTANCE Loops WITH Ends <- RunEnds, Turn <- RunTurn, Inv <- RunsAlike

\* What a run makes of a simulation does not depend on its clock.
LEMMA RunIgnoresNow ==
  ASSUME NEW a \in Simulation, NEW b \in Simulation, NEW upTo, Alike(a, b)
  PROVE  Alike(Run(a, upTo), Run(b, upTo))
<1>1. a.input = b.input
  BY DEF Alike
<1>2. CASE a.input \in Invalid
  BY <1>1, <1>2, RunIsLoop
<1>3. CASE a.input \notin Invalid
  <2> DEFINE ctx == [upTo |-> upTo, result |-> Run(b, upTo)]
             n == Ceiling + 1
             r == AlikeLoop!Looped(upTo, n, Simulation, a)
  <2>1. n \in Nat
    BY KernelBoundsAssumption
  <2>2. RunsAlike(ctx, 0, a)
    BY <1>1, <1>3 DEF RunsAlike
  <2>3. ASSUME NEW i \in 1 .. n, NEW s \in Simulation, RunsAlike(ctx, i - 1, s)
        PROVE  AlikeLoop!Next(upTo, s) \in Simulation /\ RunsAlike(ctx, i, AlikeLoop!Next(upTo, s))
    <3>1. AlikeLoop!Next(upTo, s) = NextOfRun(upTo, s)
      BY DEF AlikeLoop!Next, RunEnds, RunTurn, NextOfRun
    <3>2. PICK other \in Simulation :
             Alike(s, other) /\ other.input \notin Invalid /\ Run(other, upTo) = Run(b, upTo)
      BY <2>3 DEF RunsAlike
    <3>3. /\ NextOfRun(upTo, s) \in Simulation
          /\ NextOfRun(upTo, other) \in Simulation /\ NextOfRun(upTo, other).input = other.input
      BY TurnOfRunKeeps
    <3>4. Run(NextOfRun(upTo, other), upTo) = Run(other, upTo)
      BY <3>2, RunGoesOn
    <3>5. Done(s, upTo) <=> Done(other, upTo)
      BY <3>2 DEF Done, Alike
    <3>6. Alike(NextOfRun(upTo, s), NextOfRun(upTo, other))
      <4>1. CASE Done(s, upTo)
        BY <3>2, <3>5, <4>1 DEF NextOfRun
      <4>2. CASE ~Done(s, upTo)
        <5>1. s.heap # <<>>
          BY <4>2 DEF Done
        <5>2. Alike(DispatchBatch(s, upTo), DispatchBatch(other, upTo))
          BY <3>2, <5>1, BatchIgnoresNow
        <5> QED
          BY <3>5, <4>2, <5>2 DEF NextOfRun
      <4> QED
        BY <4>1, <4>2
    <3> QED
      BY <3>1, <3>2, <3>3, <3>4, <3>6 DEF RunsAlike
  <2>4. r \in Simulation /\ RunsAlike(ctx, n, r)
    <3> HIDE DEF ctx, n
    <3> QED
      BY <2>1, <2>2, <2>3, AlikeLoop!LoopKeeps
  <2>5. Run(a, upTo) = r
    BY <1>3 DEF Run, Loop, AlikeLoop!Looped, RunEnds, RunTurn
  <2> HIDE DEF r
  <2>6. PICK other \in Simulation : Alike(r, other) /\ Run(other, upTo) = Run(b, upTo)
    BY <2>4 DEF RunsAlike
  <2>7. Done(other, upTo)
    BY <1>3, <2>5, <2>6, RunKeeps DEF Done, Alike
  <2>8. Run(other, upTo) = other
    BY <2>7, RunStops
  <2> QED
    BY <2>5, <2>6, <2>8
<1> QED
  BY <1>2, <1>3

-----------------------------------------------------------------------------
(* The calls of a kernel's owner *)

\* What a simulation promises does not depend on its clock.
LEMMA AlikeKeeps ==
  ASSUME NEW a \in Simulation, NEW b \in Simulation, Alike(a, b)
  PROVE  /\ Orderly(a) <=> Orderly(b)
         /\ \A t : Done(a, t) <=> Done(b, t)
  BY DEF Alike, Orderly, Accounted, Done

\* The clock may be put anywhere.
LEMMA ClockMoves ==
  ASSUME NEW sim \in Simulation, NEW t \in Nat
  PROVE  [sim EXCEPT !.now = t] \in Simulation /\ Alike([sim EXCEPT !.now = t], sim)
  BY DEF Simulation, Alike

\* A call goes as far as its run, for all but the clock.
LEMMA CallsAreRuns ==
  ASSUME NEW sim \in Simulation, NEW t \in Nat
  PROVE  /\ AdvancedTo(sim, t) \in Simulation /\ Alike(AdvancedTo(sim, t), Run(sim, t))
         /\ sim.heap # <<>> /\ sim.heap[1].at = t =>
              SteppedOnce(sim) \in Simulation /\ Alike(SteppedOnce(sim), Run(sim, t))
<1> DEFINE r == Run(sim, t)
<1>1. r \in Simulation /\ r.now \in Nat
  BY RunKeeps, SimulationParts
<1>2. Later(r.now, t) \in Nat
  BY <1>1 DEF Later
<1>3. Alike(r, r)
  BY DEF Alike
<1>4. AdvancedTo(sim, t) = IF r.halted THEN r ELSE [r EXCEPT !.now = Later(r.now, t)]
  BY DEF AdvancedTo
<1>5. sim.heap # <<>> /\ sim.heap[1].at = t =>
        SteppedOnce(sim) = IF r.halted THEN r ELSE [r EXCEPT !.now = t]
  BY DEF SteppedOnce
<1> HIDE DEF r
<1>6. /\ [r EXCEPT !.now = Later(r.now, t)] \in Simulation
      /\ Alike([r EXCEPT !.now = Later(r.now, t)], r)
  BY <1>1, <1>2, ClockMoves
<1>7. [r EXCEPT !.now = t] \in Simulation /\ Alike([r EXCEPT !.now = t], r)
  BY <1>1, ClockMoves
<1> QED
  BY <1>1, <1>3, <1>4, <1>5, <1>6, <1>7 DEF r

\* To run on from where a fresh simulation has been taken is to take the fresh one
\* as far.
LEMMA RunFromThere ==
  ASSUME NEW sim \in Simulation, NEW fresh \in Simulation, NEW r \in Int, NEW t \in Int,
         Alike(sim, Run(fresh, r))
  PROVE  /\ Alike(Run(sim, t), Run(fresh, Later(r, t)))
         /\ fresh.input \in Invalid \/ Done(Run(sim, t), Later(r, t))
<1>1. Run(fresh, r) \in Simulation /\ Run(sim, t) \in Simulation
  BY RunKeeps
<1>2. Alike(Run(sim, t), Run(Run(fresh, r), t))
  BY <1>1, RunIgnoresNow
<1>3. Run(Run(fresh, r), t) = Run(fresh, Later(r, t))
  <2>1. CASE r < t
    BY <2>1, RunInSlices DEF Later
  <2>2. CASE t <= r
    BY <2>2, RunNoFurther DEF Later
  <2> QED
    BY <2>1, <2>2
<1>4. /\ Run(fresh, Later(r, t)) \in Simulation
      /\ fresh.input \in Invalid \/ Done(Run(fresh, Later(r, t)), Later(r, t))
  BY RunKeeps
<1> QED
  BY <1>1, <1>2, <1>3, <1>4, AlikeKeeps

\* A simulation that is created has nothing to do before the time 0.
LEMMA NothingBeforeZero ==
  ASSUME NEW input \in Inputs
  PROVE  Done(CreateKernel(input), -1) /\ Run(CreateKernel(input), -1) = CreateKernel(input)
<1> DEFINE sim == CreateKernel(input)
<1>1. sim \in Simulation
  BY CreatedOrderly
<1> HIDE DEF sim
<1>2. Done(sim, -1)
  <2>1. CASE sim.heap = <<>>
    BY <2>1 DEF Done
  <2>2. CASE sim.heap # <<>>
    <3>1. 1 \in DOMAIN sim.heap
      BY <1>1, <2>2, SimulationParts, SimulationElements, EmptySeq
    <3>2. sim.heap[1].at \in Nat
      BY <1>1, <3>1, SimulationElements
    <3> QED
      BY <3>2 DEF Done
  <2> QED
    BY <2>1, <2>2
<1> QED
  BY <1>1, <1>2, RunStops DEF sim

\* The kernel between two calls: it holds what a fresh simulation holds at the
\* time it was taken to, in order.
KernelInv ==
  /\ simulation \in Simulation
  /\ reached \in Nat \cup {-1}
  /\ Orderly(simulation)
  /\ simulation.input \in Invalid \/ Done(simulation, reached)
  /\ SlicingDoesNotMatter

\* A call that takes the simulation to a time.
LEMMA CallKeepsKernelInv ==
  ASSUME KernelInv, NEW t \in Nat, simulation' \in Simulation,
         Alike(simulation', Run(simulation, t)), reached' = Later(reached, t)
  PROVE  KernelInv'
<1> DEFINE fresh == CreateKernel(simulation.input)
<1>1. /\ simulation \in Simulation /\ simulation.input \in Inputs /\ reached \in Int
      /\ Orderly(simulation)
  BY SimulationParts DEF KernelInv
<1>2. fresh \in Simulation /\ fresh.input = simulation.input
  BY <1>1, CreatedOrderly DEF CreateKernel
<1>3. Run(fresh, reached) \in Simulation
  BY <1>2, RunKeeps
<1>4. Alike(simulation, Run(fresh, reached))
  BY <1>1, <1>3, AlikeContents DEF KernelInv, SlicingDoesNotMatter
<1> HIDE DEF fresh
<1>5. /\ Alike(Run(simulation, t), Run(fresh, reached'))
      /\ fresh.input \in Invalid \/ Done(Run(simulation, t), reached')
  BY <1>1, <1>2, <1>4, RunFromThere
<1>6. Run(simulation, t) \in Simulation /\ Orderly(Run(simulation, t)) /\ Run(simulation, t).input = simulation.input
  BY <1>1, RunKeeps
<1>7. simulation'.input = simulation.input
  BY <1>6 DEF Alike
<1>8. Orderly(simulation') /\ (simulation'.input \in Invalid \/ Done(simulation', reached'))
  BY <1>2, <1>5, <1>6, <1>7, AlikeKeeps
<1>9. reached' \in Nat \cup {-1}
  BY <1>1 DEF KernelInv, Later
<1>10. SlicingDoesNotMatter'
  <2>1. Alike(simulation', Run(fresh, reached'))
    BY <1>5 DEF Alike
  <2>2. Run(fresh, reached') \in Simulation
    BY <1>2, RunKeeps
  <2>3. Contents(simulation') = Contents(Run(fresh, reached'))
    BY <2>1, <2>2, AlikeContents
  <2> QED
    BY <1>7, <2>3 DEF SlicingDoesNotMatter, fresh
<1> QED
  BY <1>8, <1>9, <1>10 DEF KernelInv

\* A kernel that has just been created.
LEMMA CreatedKeepsKernelInv ==
  ASSUME NEW input \in Inputs, simulation = CreateKernel(input), reached = -1
  PROVE  KernelInv
<1>1. simulation \in Simulation /\ Orderly(simulation)
  BY CreatedOrderly
<1>2. simulation.input = input
  BY DEF CreateKernel
<1>3. Done(simulation, reached) /\ Run(simulation, reached) = simulation
  BY NothingBeforeZero
<1>4. SlicingDoesNotMatter
  BY <1>2, <1>3 DEF SlicingDoesNotMatter
<1> QED
  BY <1>1, <1>3, <1>4 DEF KernelInv

LEMMA KernelInvInitially == KernelInit => KernelInv
  BY CreatedKeepsKernelInv DEF KernelInit

LEMMA KernelInvKept == KernelInv /\ [KernelNext]_kernelVars => KernelInv'
<1> SUFFICES ASSUME KernelInv, [KernelNext]_kernelVars PROVE KernelInv'
  OBVIOUS
<1>1. simulation \in Simulation /\ simulation.input \in Inputs
  BY SimulationParts DEF KernelInv
<1>2. ASSUME NEW t \in 0 .. MaxTime, AdvanceTo(t) PROVE KernelInv'
  <2>1. t \in Nat
    BY KernelBoundsAssumption
  <2>2. simulation' \in Simulation /\ Alike(simulation', Run(simulation, t)) /\ reached' = Later(reached, t)
    BY <1>1, <1>2, <2>1, CallsAreRuns DEF AdvanceTo
  <2> QED
    BY <2>1, <2>2, CallKeepsKernelInv
<1>3. CASE StepOnce
  <2>1. CASE simulation.heap = <<>>
    <3>1. simulation' = simulation /\ reached' = reached
      BY <1>3, <2>1 DEF StepOnce, SteppedOnce
    <3> QED
      BY <3>1 DEF KernelInv, SlicingDoesNotMatter
  <2>2. CASE simulation.heap # <<>>
    <3> DEFINE t == simulation.heap[1].at
    <3>1. 1 \in DOMAIN simulation.heap
      BY <1>1, <2>2, SimulationParts, SimulationElements, EmptySeq
    <3>2. t \in Nat
      BY <1>1, <3>1, SimulationElements
    <3>3. reached' = Later(reached, t) /\ simulation' = SteppedOnce(simulation)
      BY <1>3, <2>2 DEF StepOnce
    <3>4. simulation' \in Simulation /\ Alike(simulation', Run(simulation, t))
      BY <1>1, <2>2, <3>2, <3>3, CallsAreRuns
    <3> QED
      BY <3>2, <3>3, <3>4, CallKeepsKernelInv
  <2> QED
    BY <2>1, <2>2
<1>4. CASE Reset
  <2>1. simulation' = CreateKernel(simulation.input) /\ reached' = -1
    BY <1>4 DEF Reset
  <2> DEFINE input == simulation.input
  <2>2. simulation' \in Simulation /\ Orderly(simulation') /\ simulation'.input = input
    BY <1>1, <2>1, CreatedOrderly DEF CreateKernel
  <2>3. Done(simulation', reached') /\ Run(simulation', reached') = simulation'
    BY <1>1, <2>1, NothingBeforeZero
  <2>4. SlicingDoesNotMatter'
    BY <2>1, <2>2, <2>3 DEF SlicingDoesNotMatter
  <2> QED
    BY <2>1, <2>2, <2>3, <2>4 DEF KernelInv
<1>5. CASE UNCHANGED kernelVars
  BY <1>5 DEF kernelVars, KernelInv, SlicingDoesNotMatter
<1> QED
  BY <1>2, <1>3, <1>4, <1>5 DEF KernelNext

\* At all times.
LEMMA KernelInvAlways == KernelSpec => []KernelInv
  BY KernelInvInitially, KernelInvKept, PTL DEF KernelSpec

\* However the calls slice the virtual time of a kernel (advanceTo, stepOnce and
\* reset of run.ts, in any order and to any times), and wherever the ceiling
\* halts it, it holds what a fresh kernel holds after one advanceTo to the same
\* point: rewinding may replay from the start.
THEOREM SlicingIsCorrect == KernelSpec => []SlicingDoesNotMatter
<1>1. KernelInv => SlicingDoesNotMatter
  BY DEF KernelInv
<1> QED
  BY <1>1, KernelInvAlways, PTL

\* A kernel dispatches its events in the order of virtual time, leaves nothing
\* behind that is due, loses none and dispatches none twice, and stops at the
\* ceiling (run and dispatch of run.ts on the heap of clock.ts).
THEOREM DispatchIsCorrect == KernelSpec => []EachEventOnceInOrder
<1>1. ASSUME KernelInv PROVE EachEventOnceInOrder
  <2>1. /\ simulation \in Simulation /\ reached \in Int /\ Orderly(simulation)
        /\ simulation.input \in Invalid \/ Done(simulation, reached)
    BY <1>1 DEF KernelInv
  <2>2. simulation.processed <= Ceiling /\ InTimeOrder(simulation.journal)
    BY <2>1 DEF Orderly
  <2>3. ASSUME ~simulation.halted, simulation.input \notin Invalid, NEW i \in DOMAIN simulation.heap
        PROVE  simulation.heap[i].at > reached
    <3> DEFINE heap == simulation.heap
    <3>1. heap \in Seq(Event) /\ IsHeap(heap)
      BY <2>1, SimulationParts DEF Orderly
    <3>2. heap # <<>> /\ heap[1].at > reached
      BY <2>1, <2>3, SimulationElements DEF Done
    <3>3. 1 \in DOMAIN heap
      BY <2>1, <3>2, SimulationParts, SimulationElements, EmptySeq
    <3>4. heap[1] \in Event /\ heap[i] \in Event /\ heap[1].at \in Nat /\ heap[i].at \in Nat
      BY <2>1, <2>3, <3>3, SimulationElements
    <3> HIDE DEF heap
    <3>5. InOrder(heap[1], heap[i])
      BY <2>3, <3>1, TopIsLeast DEF heap
    <3>6. heap[1].at <= heap[i].at
      BY <3>4, <3>5, OrderOfEvents
    <3>7. heap[i].at > reached
      BY <2>1, <3>2, <3>4, <3>6
    <3> QED
      BY <3>7 DEF heap
  <2>4. ASSUME ~simulation.halted
        PROVE  simulation.processed + Len(simulation.heap) = Len(Script[simulation.input]) + simulation.seq
    <3>1. simulation.processed + Len(simulation.heap) + 0 = Len(Script[simulation.input]) + simulation.seq
      BY <2>1, <2>4 DEF Orderly, Accounted
    <3>2. simulation.processed \in Nat /\ Len(simulation.heap) \in Nat
      BY <2>1, SimulationParts, SimulationElements
    <3> QED
      BY <3>1, <3>2
  <2> QED
    BY <2>2, <2>3, <2>4 DEF EachEventOnceInOrder, InTimeOrder
<1> QED
  BY <1>1, KernelInvAlways, PTL

-----------------------------------------------------------------------------
(* What a run adds, and when *)

\* One simulation is what has come of another: what it has counted beyond it, it
\* has dispatched at the times from-to; where it has counted no more, it has
\* written nothing and its clock stands still.
MovedOn(a, b, from, to) ==
  /\ b.processed >= a.processed
  /\ b.processed = a.processed => Progress(b) = Progress(a) /\ b.now = a.now
  /\ b.processed > a.processed => from <= b.now /\ b.now <= to

LEMMA MovedOnStays ==
  ASSUME NEW a \in Simulation, NEW from, NEW to
  PROVE  MovedOn(a, a, from, to)
  BY SimulationParts DEF MovedOn

\* A step that counts no event or counts one in time moves on.
LEMMA MovedOnByOne ==
  ASSUME NEW a \in Simulation, NEW b \in Simulation, NEW c \in Simulation, NEW from, NEW to,
         MovedOn(a, b, from, to),
         \/ c.processed = b.processed /\ Progress(c) = Progress(b) /\ c.now = b.now
         \/ c.processed > b.processed /\ from <= c.now /\ c.now <= to
  PROVE  MovedOn(a, c, from, to)
<1>1. a.processed \in Nat /\ b.processed \in Nat /\ c.processed \in Nat
  BY SimulationParts
<1> QED
  BY <1>1 DEF MovedOn

LEMMA DispatchMovesOn ==
  ASSUME NEW sim \in Simulation, NEW event \in Event
  PROVE  LET d == Dispatch(sim, event)
         IN \/ d.processed = sim.processed /\ Progress(d) = Progress(sim) /\ d.now = sim.now
            \/ d.processed > sim.processed /\ d.now = event.at
<1>1. CASE sim.halted
  BY <1>1, DispatchCases
<1>2. CASE ~sim.halted /\ sim.processed >= Ceiling
  <2> DEFINE h == [sim EXCEPT !.halted = TRUE]
  <2>1. h.processed = sim.processed /\ h.seq = sim.seq /\ h.journal = sim.journal /\ h.now = sim.now
    BY HaltedParts
  <2>2. Dispatch(sim, event) = h
    BY <1>2, DispatchCases
  <2> HIDE DEF h
  <2> QED
    BY <2>1, <2>2 DEF Progress
<1>3. CASE ~sim.halted /\ sim.processed < Ceiling
  <2>1. Dispatch(sim, event) = Dispatched(sim, event)
    BY <1>3, DispatchCases
  <2>2. Dispatched(sim, event).processed = sim.processed + 1 /\ Dispatched(sim, event).now = event.at
    BY DispatchedParts
  <2>3. sim.processed + 1 > sim.processed
    BY SimulationParts
  <2> QED
    BY <2>1, <2>2, <2>3
<1> QED
  BY <1>1, <1>2, <1>3, SimulationParts, KernelBoundsAssumption

MovingSoFar(ctx, i, sim) ==
  /\ sim \in Simulation
  /\ MovedOn(ctx.sim, sim, ctx.time, ctx.time)

MovingFold == INSTANCE LeftFold WITH Op <- DispatchStep, Inv <- MovingSoFar

\* A batch moves on to the time of its events.
LEMMA BatchMovesOn ==
  ASSUME NEW sim \in Simulation, sim.heap # <<>>, Orderly(sim), NEW upTo
  PROVE  MovedOn(sim, DispatchBatch(sim, upTo), sim.heap[1].at, sim.heap[1].at)
<1> DEFINE t == sim.heap[1].at
           due == BatchOf(sim)
           n == Len(due)
           start == Popped(sim)
           ctx == [sim |-> sim, time |-> t]
<1>1. /\ due \in Seq(Event) /\ n \in Nat /\ start \in Simulation
      /\ start = [sim EXCEPT !.heap = start.heap] /\ sim.heap[1] \in Event
      /\ \A i \in DOMAIN due : due[i].at = t
  BY BatchKeeps
<1>2. t \in Nat
  BY <1>1 DEF Event
<1> HIDE DEF t, due, start
<1>3. DOMAIN due = 1 .. n /\ \A i \in 1 .. n : due[i] \in Event /\ due[i].at = t
  BY <1>1, SequenceIsFunction
<1>4. start.processed = sim.processed /\ Progress(start) = Progress(sim) /\ start.now = sim.now
  BY <1>1 DEF Progress, Simulation
<1>5. MovingSoFar(ctx, 0, start)
  BY <1>1, <1>4, MovedOnStays, MovedOnByOne DEF MovingSoFar
<1>6. ASSUME NEW i \in 1 .. n, NEW acc, MovingSoFar(ctx, i - 1, acc)
      PROVE  MovingSoFar(ctx, i, DispatchStep({}, {}, acc, due[i]))
  <2> DEFINE d == Dispatch(acc, due[i])
  <2>1. acc \in Simulation /\ MovedOn(sim, acc, t, t) /\ due[i] \in Event /\ due[i].at = t
    BY <1>3, <1>6 DEF MovingSoFar
  <2>2. d \in Simulation
    BY <2>1, DispatchKeeps
  <2>3. \/ d.processed = acc.processed /\ Progress(d) = Progress(acc) /\ d.now = acc.now
        \/ d.processed > acc.processed /\ d.now = t
    BY <2>1, DispatchMovesOn
  <2>4. t <= t
    BY <1>2
  <2> HIDE DEF d
  <2>5. MovedOn(sim, d, t, t)
    BY <2>1, <2>2, <2>3, <2>4, MovedOnByOne
  <2> QED
    BY <2>2, <2>5 DEF MovingSoFar, DispatchStep, d
<1> HIDE DEF n
<1>7. MovingSoFar(ctx, n, MovingFold!Folded({}, {}, start, due))
  <2> HIDE DEF ctx
  <2> QED
    BY <1>1, <1>3, <1>5, <1>6, MovingFold!FoldKeeps
<1>8. DispatchBatch(sim, upTo) = MovingFold!Folded({}, {}, start, due)
  BY DEF DispatchBatch, BatchTime, Popped, BatchOf, due, start, MovingFold!Folded, DispatchStep,
         FoldLeft, MovingFold!FoldLeft, MapThenFoldSet, MovingFold!MapThenFoldSet, Max, MovingFold!Max
<1> QED
  BY <1>7, <1>8 DEF MovingSoFar, t

\* What a run has made of a simulation whose events are not before a time.
MovingRun(ctx, n, sim) ==
  /\ Orderly(sim)
  /\ NotBefore(sim.heap, ctx.from)
  /\ MovedOn(ctx.sim, sim, ctx.from, ctx.upTo)

MovingLoop == INSTANCE Loops WITH Ends <- RunEnds, Turn <- RunTurn, Inv <- MovingRun

\* Nothing of a heap is before an earlier time either.
LEMMA NotBeforeEarlier ==
  ASSUME NEW sim \in Simulation, NEW from \in Nat, NEW t \in Nat, from <= t, NotBefore(sim.heap, t)
  PROVE  NotBefore(sim.heap, from)
<1> SUFFICES ASSUME NEW j \in DOMAIN sim.heap PROVE sim.heap[j].at >= from
  BY DEF NotBefore
<1>1. sim.heap[j].at \in Nat /\ sim.heap[j].at >= t
  BY SimulationElements DEF NotBefore
<1> QED
  BY <1>1

\* A run dispatches from the time of the first pending event to its target.
LEMMA RunMovesOn ==
  ASSUME NEW sim \in Simulation, Orderly(sim), NEW from \in Nat, NEW upTo \in Nat,
         NotBefore(sim.heap, from)
  PROVE  MovedOn(sim, Run(sim, upTo), from, upTo)
<1>1. CASE sim.input \in Invalid
  BY <1>1, RunIsLoop, MovedOnStays
<1>2. CASE sim.input \notin Invalid
  <2> DEFINE ctx == [sim |-> sim, from |-> from, upTo |-> upTo]
             n == Ceiling + 1
             r == MovingLoop!Looped(upTo, n, Simulation, sim)
  <2>1. n \in Nat
    BY KernelBoundsAssumption
  <2>2. MovingRun(ctx, 0, sim)
    BY MovedOnStays DEF MovingRun
  <2>3. ASSUME NEW i \in 1 .. n, NEW s \in Simulation, MovingRun(ctx, i - 1, s)
        PROVE  MovingLoop!Next(upTo, s) \in Simulation /\ MovingRun(ctx, i, MovingLoop!Next(upTo, s))
    <3> DEFINE b == NextOfRun(upTo, s)
               t == s.heap[1].at
    <3>1. MovingLoop!Next(upTo, s) = b
      BY DEF MovingLoop!Next, RunEnds, RunTurn, NextOfRun
    <3>2. Orderly(s) /\ NotBefore(s.heap, from) /\ MovedOn(sim, s, from, upTo)
      BY <2>3 DEF MovingRun
    <3>3. b \in Simulation /\ Orderly(b)
      BY <3>2, TurnOfRunKeeps
    <3>4. CASE Done(s, upTo)
      BY <2>3, <3>1, <3>4 DEF NextOfRun, MovingRun
    <3>5. CASE ~Done(s, upTo)
      <4>1. s.heap # <<>> /\ ~(t > upTo)
        BY <3>5 DEF Done
      <4>2. 1 \in DOMAIN s.heap
        BY <4>1, SimulationParts, SimulationElements, EmptySeq
      <4>3. t \in Nat /\ t >= from
        BY <3>2, <4>2, SimulationElements DEF NotBefore
      <4>4. b = DispatchBatch(s, upTo)
        BY <3>5 DEF NextOfRun
      <4>5. MovedOn(s, b, t, t) /\ NotBefore(b.heap, t)
        BY <3>2, <4>1, <4>4, BatchMovesOn, DispatchBatchKeeps
      <4> HIDE DEF b, t
      <4>6. NotBefore(b.heap, from)
        BY <3>3, <4>3, <4>5, NotBeforeEarlier
      <4>7. \/ b.processed = s.processed /\ Progress(b) = Progress(s) /\ b.now = s.now
            \/ b.processed > s.processed /\ from <= b.now /\ b.now <= upTo
        <5>1. b.processed \in Nat /\ s.processed \in Nat /\ b.now \in Nat
          BY <3>3, SimulationParts
        <5> QED
          BY <4>1, <4>3, <4>5, <5>1 DEF MovedOn
      <4>8. MovedOn(sim, b, from, upTo)
        BY <3>2, <3>3, <4>7, MovedOnByOne
      <4> QED
        BY <3>1, <3>3, <4>6, <4>8 DEF MovingRun
    <3> QED
      BY <3>4, <3>5
  <2>4. MovingRun(ctx, n, r)
    <3> HIDE DEF ctx, n
    <3> QED
      BY <2>1, <2>2, <2>3, MovingLoop!LoopKeeps
  <2>5. Run(sim, upTo) = r
    BY <1>2 DEF Run, Loop, MovingLoop!Looped, RunEnds, RunTurn
  <2> HIDE DEF r
  <2> QED
    BY <2>4, <2>5 DEF MovingRun
<1> QED
  BY <1>1, <1>2

-----------------------------------------------------------------------------
(* The simulation the hook holds *)

\* The fresh simulation of the same input.
FreshOf(sim) == CreateKernel(sim.input)

\* The simulation shows what a fresh one shows at its clock, and at any later time
\* when it has halted.
Held(sim) ==
  /\ Orderly(sim)
  /\ ~sim.halted => Alike(sim, Run(FreshOf(sim), sim.now))
  /\ sim.halted =>
       \A u \in Nat : u >= sim.now => Progress(Run(FreshOf(sim), u)) = Progress(sim)

LEMMA FreshOfKeeps ==
  ASSUME NEW sim \in Simulation
  PROVE  /\ FreshOf(sim) \in Simulation
         /\ FreshOf(sim).input = sim.input
         /\ FreshOf(sim).now = 0
         /\ ~FreshOf(sim).halted
         /\ Orderly(FreshOf(sim))
         /\ NotBefore(FreshOf(sim).heap, 0)
<1> DEFINE fresh == FreshOf(sim)
<1>1. fresh \in Simulation /\ Orderly(fresh)
  BY SimulationParts, CreatedOrderly DEF FreshOf
<1>2. fresh.input = sim.input /\ fresh.now = 0 /\ fresh.halted = FALSE
  BY DEF FreshOf, CreateKernel
<1> HIDE DEF fresh
<1>3. NotBefore(fresh.heap, 0)
  BY <1>1, SimulationElements DEF NotBefore
<1> QED
  BY <1>1, <1>2, <1>3 DEF fresh

LEMMA AlikeProgress ==
  ASSUME NEW a, NEW b, Alike(a, b)
  PROVE  Progress(a) = Progress(b) /\ Alike(b, a)
  BY DEF Alike, Progress

LEMMA AlikeChain ==
  ASSUME NEW a, NEW b, NEW c, Alike(a, b), Alike(b, c)
  PROVE  Alike(a, c)
  BY DEF Alike

\* What is done by a time has nothing before the next.
LEMMA DoneIsNotBefore ==
  ASSUME NEW sim \in Simulation, Orderly(sim), NEW t \in Nat, Done(sim, t), ~sim.halted
  PROVE  NotBefore(sim.heap, t + 1)
<1> SUFFICES ASSUME NEW j \in DOMAIN sim.heap PROVE sim.heap[j].at >= t + 1
  BY DEF NotBefore
<1> DEFINE heap == sim.heap
<1>1. heap \in Seq(Event) /\ IsHeap(heap)
  BY SimulationParts DEF Orderly
<1>2. Len(heap) \in Nat /\ DOMAIN heap = 1 .. Len(heap) /\ 1 \in DOMAIN heap
      /\ \A k \in DOMAIN heap : heap[k] \in Event /\ heap[k].at \in Nat
  BY SimulationElements
<1>3. heap[1].at > t
  BY <1>1, <1>2, EmptySeq DEF Done
<1> HIDE DEF heap
<1>4. InOrder(heap[1], heap[j])
  BY <1>1, TopIsLeast DEF heap
<1>5. heap[1].at <= heap[j].at
  BY <1>2, <1>4, OrderOfEvents DEF heap
<1>6. heap[j].at >= t + 1
  BY <1>2, <1>3, <1>5 DEF heap
<1> QED
  BY <1>6 DEF heap

\* A simulation that runs on to a time from one that agrees with the fresh one from
\* its clock on.
LEMMA HeldByRun ==
  ASSUME NEW sim \in Simulation, Orderly(sim), ~sim.halted, NEW t \in Nat, sim.now <= t,
         sim.input \in Invalid \/ NotBefore(sim.heap, sim.now),
         \A u \in Nat : u >= sim.now => Alike(Run(sim, u), Run(FreshOf(sim), u))
  PROVE  LET a == AdvancedTo(sim, t)
         IN /\ a \in Simulation /\ a.input = sim.input /\ Held(a)
            /\ a.now <= t
            /\ ~a.halted => a.now = t
            /\ a = IF Run(sim, t).halted THEN Run(sim, t) ELSE [Run(sim, t) EXCEPT !.now = t]
<1> DEFINE r == Run(sim, t)
           a == AdvancedTo(sim, t)
           fresh == FreshOf(sim)
<1>1. /\ r \in Simulation /\ r.input = sim.input /\ Orderly(r)
      /\ sim.now \in Nat /\ r.now \in Nat
      /\ fresh \in Simulation /\ fresh.input = sim.input
  BY RunKeeps, SimulationParts, FreshOfKeeps
<1>2. Alike(r, Run(fresh, t)) /\ Run(fresh, t) \in Simulation
  BY <1>1, RunKeeps
<1>3. sim.now <= r.now /\ r.now <= t
  <2>1. CASE sim.input \in Invalid
    BY <1>1, <2>1, RunIsLoop
  <2>2. CASE NotBefore(sim.heap, sim.now)
    <3>1. MovedOn(sim, r, sim.now, t)
      BY <1>1, <2>2, RunMovesOn
    <3>2. r.processed = sim.processed \/ r.processed > sim.processed
      BY <1>1, <3>1, SimulationParts DEF MovedOn
    <3> HIDE DEF r
    <3> QED
      BY <1>1, <3>1, <3>2 DEF MovedOn
  <2> QED
    BY <2>1, <2>2
<1>4. a = IF r.halted THEN r ELSE [r EXCEPT !.now = t]
  <2>1. Later(r.now, t) = t
    BY <1>1, <1>3 DEF Later
  <2>2. a = IF r.halted THEN r ELSE [r EXCEPT !.now = Later(r.now, t)]
    BY DEF AdvancedTo
  <2> QED
    BY <2>1, <2>2
<1>5. ASSUME NEW u \in Nat, r.halted, r.now <= u
      PROVE  Progress(Run(fresh, u)) = Progress(r)
  <2> DEFINE q == Run(sim, u)
  <2>1. q \in Simulation /\ Orderly(q) /\ q.input = sim.input /\ (q.input \in Invalid \/ Done(q, u))
    BY RunKeeps
  <2>2. Alike(q, Run(fresh, u))
    BY <1>1, <1>3, <1>5
  <2>3. Progress(q) = Progress(r)
    <3>1. CASE t <= u
      <4>1. Run(r, u) = q
        BY <3>1, RunInSlices
      <4>2. Run(r, u) = r
        BY <1>1, <1>5, RunStops DEF Done
      <4> QED
        BY <4>1, <4>2
    <3>2. CASE u < t
      <4>1. Run(q, t) = r
        BY <3>2, RunInSlices
      <4>2. CASE q.input \in Invalid
        BY <2>1, <4>1, <4>2, RunIsLoop
      <4>3. CASE q.halted
        <5>1. Done(q, t)
          BY <4>3 DEF Done
        <5> QED
          BY <2>1, <4>1, <5>1, RunStops
      <4>4. CASE q.input \notin Invalid /\ ~q.halted
        <5>1. NotBefore(q.heap, u + 1) /\ u + 1 \in Nat
          BY <2>1, <4>4, DoneIsNotBefore
        <5>2. MovedOn(q, r, u + 1, t)
          BY <2>1, <4>1, <5>1, RunMovesOn
        <5>3. ~(u + 1 <= r.now)
          BY <1>1, <1>5
        <5>4. r.processed = q.processed
          <6>1. r.processed \in Nat /\ q.processed \in Nat
            BY <1>1, <2>1, SimulationParts
          <6> HIDE DEF r, q
          <6> QED
            BY <5>2, <5>3, <6>1 DEF MovedOn
        <5> HIDE DEF r, q
        <5> QED
          BY <5>2, <5>4 DEF MovedOn
      <4> QED
        BY <4>2, <4>3, <4>4
    <3> QED
      BY <3>1, <3>2
  <2> QED
    BY <2>2, <2>3, AlikeProgress
<1> HIDE DEF r, a
<1>6. CASE r.halted
  <2>1. a = r
    BY <1>4, <1>6
  <2>2. FreshOf(r) = fresh
    BY <1>1 DEF FreshOf
  <2>3. Held(a)
    BY <1>1, <1>5, <1>6, <2>1, <2>2 DEF Held
  <2> QED
    BY <1>1, <1>3, <1>4, <1>6, <2>1, <2>3 DEF a, r
<1>7. CASE ~r.halted
  <2>1. a = [r EXCEPT !.now = t]
    BY <1>4, <1>7
  <2>2. a \in Simulation /\ Alike(a, r)
    BY <1>1, <2>1, ClockMoves
  <2>3. a.now = t
    BY <1>1, <2>1 DEF Simulation
  <2>4. a.input = sim.input /\ ~a.halted
    BY <1>1, <1>7, <2>2 DEF Alike
  <2>5. FreshOf(a) = fresh
    BY <2>4 DEF FreshOf
  <2>6. Alike(a, Run(fresh, t))
    BY <1>2, <2>2, AlikeChain DEF r
  <2>7. Orderly(a)
    BY <1>1, <2>2, AlikeKeeps
  <2>8. Held(a)
    BY <2>3, <2>4, <2>5, <2>6, <2>7 DEF Held
  <2> QED
    BY <1>4, <2>2, <2>3, <2>4, <2>8 DEF a, r
<1> QED
  BY <1>6, <1>7

\* The rebuild effect: a new simulation, taken to the store's clock.
LEMMA RebuiltIsHeld ==
  ASSUME NEW input \in Inputs, NEW t \in Nat
  PROVE  LET a == AdvancedTo(CreateKernel(input), t)
         IN /\ a \in Simulation /\ a.input = input /\ Held(a)
            /\ a.now <= t
            /\ ~a.halted => a.now = t
<1> DEFINE sim == CreateKernel(input)
<1>1. sim \in Simulation /\ sim.input = input /\ FreshOf(sim) = sim
  BY CreatedOrderly DEF CreateKernel, FreshOf
<1>2. Orderly(sim) /\ ~sim.halted /\ sim.now = 0 /\ NotBefore(sim.heap, 0)
  BY <1>1, FreshOfKeeps
<1> HIDE DEF sim
<1>3. \A u \in Nat : u >= sim.now => Alike(Run(sim, u), Run(FreshOf(sim), u))
  BY <1>1 DEF Alike
<1>4. sim.now <= t
  BY <1>2
<1> QED
  BY <1>1, <1>2, <1>3, <1>4, HeldByRun DEF sim

\* A simulation that has not halted has dispatched what was due at its clock.
LEMMA HeldIsDone ==
  ASSUME NEW sim \in Simulation, Held(sim), ~sim.halted, sim.input \notin Invalid
  PROVE  Done(sim, sim.now) /\ NotBefore(sim.heap, sim.now + 1) /\ NotBefore(sim.heap, sim.now)
<1>1. /\ Alike(sim, Run(FreshOf(sim), sim.now)) /\ Orderly(sim)
      /\ FreshOf(sim) \in Simulation /\ FreshOf(sim).input = sim.input
      /\ sim.now \in Nat
  BY FreshOfKeeps, SimulationParts DEF Held
<1>2. Done(Run(FreshOf(sim), sim.now), sim.now) /\ Run(FreshOf(sim), sim.now) \in Simulation
  BY <1>1, RunKeeps
<1>3. Done(sim, sim.now)
  BY <1>1, <1>2, AlikeKeeps
<1>4. NotBefore(sim.heap, sim.now + 1) /\ sim.now + 1 \in Nat /\ sim.now <= sim.now + 1
  BY <1>1, <1>3, DoneIsNotBefore
<1> QED
  BY <1>1, <1>3, <1>4, NotBeforeEarlier

\* The seek effect and the loop: the simulation the hook holds, taken further.
LEMMA AdvancedIsHeld ==
  ASSUME NEW sim \in Simulation, Held(sim), NEW t \in Nat
  PROVE  LET a == AdvancedTo(sim, t)
         IN /\ a \in Simulation /\ a.input = sim.input /\ Held(a)
            /\ sim.now <= t => a.now <= t /\ (~a.halted => a.now = t)
            /\ sim.now <= t /\ ~sim.halted =>
                 a = IF Run(sim, t).halted THEN Run(sim, t) ELSE [Run(sim, t) EXCEPT !.now = t]
<1>1. sim.now \in Nat /\ Orderly(sim)
  BY SimulationParts DEF Held
<1>2. CASE sim.halted
  <2>1. Run(sim, t) = sim
    BY <1>2, RunStops DEF Done
  <2>2. AdvancedTo(sim, t) = sim
    BY <1>2, <2>1 DEF AdvancedTo
  <2> QED
    BY <1>2, <2>2
<1>3. CASE ~sim.halted /\ t < sim.now
  <2>1. Run(sim, t) = sim
    <3>1. CASE sim.input \in Invalid
      BY <3>1, RunIsLoop
    <3>2. CASE sim.input \notin Invalid
      <4>1. Done(sim, t)
        BY <1>1, <1>3, <3>2, HeldIsDone, DoneEarlier
      <4> QED
        BY <4>1, RunStops
    <3> QED
      BY <3>1, <3>2
  <2> DEFINE a == [sim EXCEPT !.now = sim.now]
  <2>2. AdvancedTo(sim, t) = a
    <3>1. Later(sim.now, t) = sim.now
      BY <1>1, <1>3 DEF Later
    <3>2. AdvancedTo(sim, t) = [sim EXCEPT !.now = Later(sim.now, t)]
      BY <1>3, <2>1 DEF AdvancedTo
    <3> QED
      BY <3>1, <3>2
  <2>3. a \in Simulation /\ Alike(a, sim) /\ a.now = sim.now
    BY <1>1, ClockMoves DEF Simulation
  <2> HIDE DEF a
  <2>4. a.input = sim.input /\ ~a.halted /\ FreshOf(a) = FreshOf(sim)
    BY <1>3, <2>3 DEF Alike, FreshOf
  <2>5. Alike(a, Run(FreshOf(sim), a.now))
    BY <1>3, <2>3, AlikeChain DEF Held
  <2>6. Orderly(a)
    BY <1>1, <2>3, AlikeKeeps
  <2>7. Held(a)
    BY <2>4, <2>5, <2>6 DEF Held
  <2> QED
    BY <1>1, <1>3, <2>2, <2>3, <2>4, <2>7
<1>4. CASE ~sim.halted /\ sim.now <= t
  <2>1. FreshOf(sim) \in Simulation /\ Alike(sim, Run(FreshOf(sim), sim.now))
    BY <1>4, FreshOfKeeps DEF Held
  <2>2. ASSUME NEW u \in Nat, u >= sim.now
        PROVE  Alike(Run(sim, u), Run(FreshOf(sim), u))
    <3>1. Later(sim.now, u) = u
      BY <1>1, <2>2 DEF Later
    <3>2. Alike(Run(sim, u), Run(FreshOf(sim), Later(sim.now, u)))
      BY <1>1, <2>1, RunFromThere
    <3> QED
      BY <3>1, <3>2
  <2>3. sim.input \in Invalid \/ NotBefore(sim.heap, sim.now)
    BY <1>4, HeldIsDone
  <2> QED
    BY <1>1, <1>4, <2>2, <2>3, HeldByRun
<1> QED
  BY <1>1, <1>2, <1>3, <1>4

\* The step button on the simulation the hook holds.
LEMMA SteppedIsHeld ==
  ASSUME NEW sim \in Simulation, Held(sim)
  PROVE  LET a == SteppedOnce(sim)
         IN a \in Simulation /\ a.input = sim.input /\ Held(a)
<1> DEFINE t == sim.heap[1].at
<1>1. sim.now \in Nat /\ Orderly(sim)
  BY SimulationParts DEF Held
<1>2. CASE sim.heap = <<>>
  BY <1>2 DEF SteppedOnce
<1>3. CASE sim.heap # <<>>
  <2>1. t \in Nat /\ 1 \in DOMAIN sim.heap
    BY <1>3, SimulationParts, SimulationElements, EmptySeq
  <2>2. SteppedOnce(sim) = IF Run(sim, t).halted THEN Run(sim, t) ELSE [Run(sim, t) EXCEPT !.now = t]
    BY <1>3 DEF SteppedOnce
  <2>3. CASE sim.halted
    <3>1. Run(sim, t) = sim
      BY <2>1, <2>3, RunStops DEF Done
    <3> QED
      BY <2>2, <2>3, <3>1
  <2>4. CASE ~sim.halted /\ sim.input \notin Invalid
    <3>1. t >= sim.now
      BY <2>1, <2>4, HeldIsDone DEF NotBefore
    <3>2. sim.now <= t
      BY <1>1, <2>1, <3>1
    <3> DEFINE a == AdvancedTo(sim, t)
    <3>3. /\ a \in Simulation /\ a.input = sim.input /\ Held(a)
          /\ a = IF Run(sim, t).halted THEN Run(sim, t) ELSE [Run(sim, t) EXCEPT !.now = t]
      BY <2>1, <2>4, <3>2, AdvancedIsHeld
    <3> HIDE DEF a, t
    <3>4. SteppedOnce(sim) = a
      BY <2>2, <3>3
    <3> QED
      BY <3>3, <3>4
  <2>5. CASE ~sim.halted /\ sim.input \in Invalid
    <3> DEFINE a == [sim EXCEPT !.now = t]
    <3>1. SteppedOnce(sim) = a
      <4>1. Run(sim, t) = sim
        BY <2>5, RunIsLoop
      <4> QED
        BY <2>2, <2>5, <4>1
    <3>2. a \in Simulation /\ Alike(a, sim) /\ a.now = t
      BY <2>1, ClockMoves DEF Simulation
    <3> HIDE DEF a
    <3>3. a.input = sim.input /\ ~a.halted /\ FreshOf(a) = FreshOf(sim)
      BY <2>5, <3>2 DEF Alike, FreshOf
    <3>4. FreshOf(sim) \in Simulation /\ FreshOf(sim).input = sim.input /\ Alike(sim, Run(FreshOf(sim), sim.now))
      BY <2>5, FreshOfKeeps DEF Held
    <3>5. Run(FreshOf(sim), sim.now) = FreshOf(sim) /\ Run(FreshOf(sim), a.now) = FreshOf(sim)
      BY <2>5, <3>4, RunIsLoop
    <3>6. Alike(a, Run(FreshOf(a), a.now))
      BY <3>2, <3>3, <3>4, <3>5, AlikeChain
    <3>7. Orderly(a)
      BY <1>1, <3>2, AlikeKeeps
    <3>8. Held(a)
      BY <3>3, <3>6, <3>7 DEF Held
    <3> QED
      BY <3>1, <3>2, <3>3, <3>8
  <2> QED
    BY <2>3, <2>4, <2>5
<1> QED
  BY <1>2, <1>3

-----------------------------------------------------------------------------
(* Playback *)

\* The store's values.
Values == [input : Inputs, playing : BOOLEAN, virtualTime : Nat, replayToken : Nat]

\* Where no rebuild is due, the simulation is not ahead of the store's clock, and
\* it is at the clock, unless it has halted, is playing, or an effect is to come
\* that takes it there.
NotBehind ==
  store.input = effected.input /\ store.replayToken = effected.replayToken =>
    /\ simRef.now <= store.virtualTime
    /\ \/ store.playing # effected.playing
       \/ store.virtualTime # effected.virtualTime
       \/ store.playing
       \/ simRef.halted
       \/ simRef.now = store.virtualTime

PlaybackInv ==
  /\ {store, rendered, effected} \subseteq Values
  /\ simRef \in Simulation
  /\ Held(simRef)
  /\ simRef.input = effected.input
  /\ view = ViewOf(simRef, BrokerOf[simRef.input])
  /\ deferred \in BOOLEAN
  /\ ~deferred => (rendered = effected \/ rendered = store) /\ NotBehind

LEMMA ValuesParts ==
  ASSUME NEW s \in Values
  PROVE  s.input \in Inputs /\ s.playing \in BOOLEAN /\ s.virtualTime \in Nat /\ s.replayToken \in Nat
  BY DEF Values

LEMMA InvParts ==
  ASSUME PlaybackInv
  PROVE  /\ store \in Values /\ rendered \in Values /\ effected \in Values
         /\ simRef \in Simulation /\ Held(simRef) /\ simRef.input = effected.input
         /\ view = ViewOf(simRef, BrokerOf[simRef.input])
         /\ view.state = simRef /\ view.broker = BrokerOf[simRef.input]
         /\ deferred \in BOOLEAN
         /\ simRef.now \in Nat
  BY SimulationParts DEF PlaybackInv, ViewOf

\* Where React reacts at once, a click or a frame finds its work done.
LEMMA ReactIsDone ==
  ASSUME PlaybackInv, ~deferred, Free
  PROVE  /\ rendered = store /\ effected = store
         /\ simRef.now <= store.virtualTime
         /\ store.playing \/ simRef.halted \/ simRef.now = store.virtualTime
         /\ MayStep
<1>1. rendered = store /\ effected = store
  BY DEF Free, Settled
<1>2. NotBehind
  BY DEF PlaybackInv
<1>3. /\ simRef.now <= store.virtualTime
      /\ store.playing \/ simRef.halted \/ simRef.now = store.virtualTime
  BY <1>1, <1>2 DEF NotBehind
<1>4. MayStep
  BY <1>1, InvParts DEF MayStep
<1> QED
  BY <1>1, <1>3, <1>4

\* A click that changes the store and nothing else.
LEMMA StoreClickKeeps ==
  ASSUME PlaybackInv, Free, OnlyStore, store' \in Values, ~deferred => NotBehind'
  PROVE  PlaybackInv'
<1>1. deferred' = deferred /\ rendered' = rendered /\ effected' = effected /\ simRef' = simRef /\ view' = view
  BY DEF OnlyStore
<1>2. ~deferred => rendered' = effected'
  BY <1>1, ReactIsDone
<1>3. {store', rendered', effected'} \subseteq Values
  BY <1>1, InvParts
<1>4. Held(simRef)'
  BY <1>1, InvParts DEF Held, FreshOf
<1> QED
  BY <1>1, <1>2, <1>3, <1>4 DEF PlaybackInv

LEMMA OpenKeeps ==
  ASSUME PlaybackInv, NEW input \in Inputs, Open(input)
  PROVE  PlaybackInv'
<1>1. /\ Free /\ OnlyStore
      /\ store' = [input |-> input, playing |-> FALSE, virtualTime |-> 0, replayToken |-> store.replayToken + 1]
  BY DEF Open, Click
<1>2. store' \in Values
  BY <1>1, InvParts, ValuesParts DEF Values
<1>3. ASSUME ~deferred PROVE NotBehind'
  <2>1. effected' = store /\ store.replayToken \in Nat /\ store'.replayToken = store.replayToken + 1
    BY <1>1, <1>3, ReactIsDone, InvParts, ValuesParts DEF OnlyStore
  <2> QED
    BY <2>1 DEF NotBehind
<1> QED
  BY <1>1, <1>2, <1>3, StoreClickKeeps

LEMMA EditSandboxKeeps ==
  ASSUME PlaybackInv, NEW edited \in Sandboxes, EditSandbox(edited)
  PROVE  PlaybackInv'
<1>1. Free /\ OnlyStore /\ store' = [store EXCEPT !.input = edited] /\ edited \in Inputs
  BY BrokerAssumption DEF EditSandbox, Click
<1>2. store' \in Values
  BY <1>1, InvParts DEF Values
<1>3. ASSUME ~deferred PROVE NotBehind'
  <2>1. /\ effected' = store /\ simRef' = simRef
        /\ simRef.now <= store.virtualTime
        /\ store.playing \/ simRef.halted \/ simRef.now = store.virtualTime
    BY <1>1, <1>3, ReactIsDone DEF OnlyStore
  <2>2. store'.virtualTime = store.virtualTime /\ store'.playing = store.playing
    BY <1>1, InvParts DEF Values
  <2> QED
    BY <2>1, <2>2 DEF NotBehind
<1> QED
  BY <1>1, <1>2, <1>3, StoreClickKeeps

LEMMA PlayKeeps ==
  ASSUME PlaybackInv, Play
  PROVE  PlaybackInv'
<1>1. Free /\ OnlyStore /\ store' = [store EXCEPT !.playing = TRUE]
  BY DEF Play, Click
<1>2. store' \in Values /\ store'.playing /\ store'.virtualTime = store.virtualTime
  BY <1>1, InvParts DEF Values
<1>3. ASSUME ~deferred PROVE NotBehind'
  <2>1. simRef' = simRef /\ simRef.now <= store.virtualTime
    BY <1>1, <1>3, ReactIsDone DEF OnlyStore
  <2> QED
    BY <1>2, <2>1 DEF NotBehind
<1> QED
  BY <1>1, <1>2, <1>3, StoreClickKeeps

LEMMA PauseKeeps ==
  ASSUME PlaybackInv, Pause
  PROVE  PlaybackInv'
<1>1. Free /\ OnlyStore /\ store' = [store EXCEPT !.playing = FALSE]
  BY DEF Pause, Click
<1>2. store' \in Values /\ store'.playing = FALSE /\ store'.virtualTime = store.virtualTime
  BY <1>1, InvParts DEF Values
<1>3. ASSUME ~deferred PROVE NotBehind'
  <2>1. /\ simRef' = simRef /\ effected' = store /\ simRef.now <= store.virtualTime
        /\ store.playing \/ simRef.halted \/ simRef.now = store.virtualTime
    BY <1>1, <1>3, ReactIsDone DEF OnlyStore
  <2>2. store.playing \in BOOLEAN
    BY InvParts, ValuesParts
  <2> QED
    BY <1>2, <2>1, <2>2 DEF NotBehind
<1> QED
  BY <1>1, <1>2, <1>3, StoreClickKeeps

LEMMA SeekKeeps ==
  ASSUME PlaybackInv, NEW t \in 0 .. MaxTime, Seek(t)
  PROVE  PlaybackInv'
<1>1. /\ Free /\ OnlyStore
      /\ store' = [store EXCEPT !.virtualTime = t, !.replayToken = TokenAfterSeek(t)]
  BY DEF Seek, Click
<1>2. t \in Nat /\ store.virtualTime \in Nat /\ store.replayToken \in Nat
  BY KernelBoundsAssumption, InvParts, ValuesParts
<1>3. TokenAfterSeek(t) \in Nat
  BY <1>2 DEF TokenAfterSeek
<1>4. /\ store' \in Values /\ store'.virtualTime = t /\ store'.replayToken = TokenAfterSeek(t)
      /\ store'.playing = store.playing
  BY <1>1, <1>2, <1>3, InvParts DEF Values
<1>5. ASSUME ~deferred PROVE NotBehind'
  <2>1. /\ simRef' = simRef /\ effected' = store /\ simRef.now <= store.virtualTime /\ simRef.now \in Nat
        /\ store.playing \/ simRef.halted \/ simRef.now = store.virtualTime
    BY <1>1, <1>5, ReactIsDone, InvParts DEF OnlyStore
  <2>2. CASE t < store.virtualTime
    <3>1. store'.replayToken # effected'.replayToken
      BY <1>2, <1>4, <2>1, <2>2 DEF TokenAfterSeek
    <3> QED
      BY <3>1 DEF NotBehind
  <2>3. CASE t >= store.virtualTime
    <3>1. simRef.now <= t
      BY <1>2, <2>1, <2>3
    <3> QED
      BY <1>4, <2>1, <3>1 DEF NotBehind
  <2> QED
    BY <1>2, <2>2, <2>3
<1> QED
  BY <1>1, <1>4, <1>5, StoreClickKeeps

LEMMA StepClickKeeps ==
  ASSUME PlaybackInv, StepClick
  PROVE  PlaybackInv'
<1>1. Free /\ UNCHANGED <<deferred, rendered, effected, looping>>
  BY DEF StepClick, Click
<1>2. CASE ~MayStep
  <2>1. store' = [store EXCEPT !.playing = FALSE] /\ OnlyStore
    BY <1>2 DEF StepClick, OnlyStore
  <2>2. store' \in Values
    BY <2>1, InvParts DEF Values
  <2>3. deferred
    BY <1>1, <1>2, ReactIsDone, InvParts
  <2> QED
    BY <1>1, <2>1, <2>2, <2>3, StoreClickKeeps
<1>3. CASE MayStep
  <2> DEFINE a == SteppedOnce(simRef)
  <2>1. a \in Simulation /\ a.input = simRef.input /\ Held(a)
    BY InvParts, SteppedIsHeld
  <2>2. /\ simRef' = a
        /\ store' = [store EXCEPT !.playing = FALSE, !.virtualTime = simRef'.now]
        /\ view' = ViewOf(simRef', BrokerOf[rendered.input])
    BY <1>3 DEF StepClick
  <2> HIDE DEF a
  <2>3. store' \in Values /\ store'.virtualTime = simRef'.now
    BY <2>1, <2>2, InvParts, SimulationParts DEF Values
  <2>4. BrokerOf[rendered.input] = BrokerOf[simRef'.input]
    BY <1>3, <2>1, <2>2, InvParts DEF MayStep
  <2>5. simRef'.now \in Nat
    BY <2>1, <2>2, SimulationParts
  <2>6. NotBehind'
    BY <2>3, <2>5 DEF NotBehind
  <2>7. Held(simRef)'
    BY <2>1, <2>2 DEF Held, FreshOf
  <2>8. {store', rendered', effected'} \subseteq Values /\ deferred' \in BOOLEAN
    BY <1>1, <2>3, InvParts
  <2>9. ~deferred' => rendered' = effected'
    BY <1>1, ReactIsDone
  <2>10. simRef' \in Simulation /\ simRef'.input = effected'.input
    BY <1>1, <2>1, <2>2, InvParts
  <2>11. view' = ViewOf(simRef', BrokerOf[simRef'.input])
    BY <2>2, <2>4
  <2> QED
    BY <2>6, <2>7, <2>8, <2>9, <2>10, <2>11 DEF PlaybackInv
<1> QED
  BY <1>2, <1>3

LEMMA RenderKeeps ==
  ASSUME PlaybackInv, Render
  PROVE  PlaybackInv'
<1>1. rendered' = store /\ UNCHANGED <<deferred, store, effected, simRef, view, looping, clicks>>
  BY DEF Render
<1>2. {store', rendered', effected'} \subseteq Values /\ deferred' \in BOOLEAN /\ rendered' = store'
  BY <1>1, InvParts
<1>3. Held(simRef)'
  BY <1>1, InvParts DEF Held, FreshOf
<1>4. ~deferred' => NotBehind'
  BY <1>1 DEF PlaybackInv, NotBehind
<1>5. simRef' \in Simulation /\ simRef'.input = effected'.input /\ view' = ViewOf(simRef', BrokerOf[simRef'.input])
  BY <1>1, InvParts
<1> QED
  BY <1>2, <1>3, <1>4, <1>5 DEF PlaybackInv

\* The rebuild effect, where it is due.
LEMMA RebuiltKeeps ==
  ASSUME PlaybackInv
  PROVE  /\ Rebuilt \in Simulation /\ Rebuilt.input = rendered.input /\ Held(Rebuilt)
         /\ Rebuilt.now \in Nat
         /\ RebuildDue => /\ Rebuilt.now <= store.virtualTime
                          /\ Rebuilt.halted \/ Rebuilt.now = store.virtualTime
         /\ ~RebuildDue => Rebuilt = simRef /\ rendered.input = effected.input
                           /\ rendered.replayToken = effected.replayToken
<1>1. rendered.input \in Inputs /\ store.virtualTime \in Nat
  BY InvParts, ValuesParts
<1>2. CASE RebuildDue
  <2>1. Rebuilt = AdvancedTo(CreateKernel(rendered.input), store.virtualTime)
    BY <1>2 DEF Rebuilt
  <2>2. /\ Rebuilt \in Simulation /\ Rebuilt.input = rendered.input /\ Held(Rebuilt)
        /\ Rebuilt.now <= store.virtualTime
        /\ Rebuilt.halted \/ Rebuilt.now = store.virtualTime
    BY <1>1, <2>1, RebuiltIsHeld
  <2> QED
    BY <1>2, <2>2, SimulationParts
<1>3. CASE ~RebuildDue
  <2>1. Rebuilt = simRef /\ rendered.input = effected.input /\ rendered.replayToken = effected.replayToken
    BY <1>3 DEF Rebuilt, RebuildDue
  <2> QED
    BY <1>3, <2>1, InvParts
<1> QED
  BY <1>2, <1>3

LEMMA EffectsKeep ==
  ASSUME PlaybackInv, Effects
  PROVE  PlaybackInv'
<1> DEFINE v == rendered.virtualTime
           a == Rebuilt
<1>1. /\ rendered # effected /\ effected' = rendered
      /\ simRef' = IF SeekDue THEN AdvancedTo(a, v) ELSE a
      /\ view' = IF RebuildDue \/ SeekDue THEN ViewOf(simRef', BrokerOf[rendered.input]) ELSE view
      /\ deferred' = deferred /\ store' = store /\ rendered' = rendered
  BY DEF Effects
<1>2. /\ a \in Simulation /\ a.input = rendered.input /\ Held(a) /\ a.now \in Nat
      /\ RebuildDue => a.now <= store.virtualTime /\ (a.halted \/ a.now = store.virtualTime)
      /\ ~RebuildDue => a = simRef /\ rendered.input = effected.input
                        /\ rendered.replayToken = effected.replayToken
  BY RebuiltKeeps
<1>3. v \in Nat /\ rendered.playing \in BOOLEAN
  BY InvParts, ValuesParts
<1> HIDE DEF a, v
<1>4. /\ AdvancedTo(a, v) \in Simulation /\ AdvancedTo(a, v).input = a.input /\ Held(AdvancedTo(a, v))
      /\ a.now <= v => /\ AdvancedTo(a, v).now <= v
                       /\ AdvancedTo(a, v).halted \/ AdvancedTo(a, v).now = v
  BY <1>2, <1>3, AdvancedIsHeld
<1>5. simRef' \in Simulation /\ simRef'.input = rendered.input
  BY <1>1, <1>2, <1>4
<1>6. Held(simRef)'
  <2>1. CASE SeekDue
    <3>1. simRef' = AdvancedTo(a, v)
      BY <1>1, <2>1
    <3> QED
      BY <1>4, <3>1 DEF Held, FreshOf
  <2>2. CASE ~SeekDue
    <3>1. simRef' = a
      BY <1>1, <2>2
    <3> QED
      BY <1>2, <3>1 DEF Held, FreshOf
  <2> QED
    BY <2>1, <2>2
<1>7. view' = ViewOf(simRef', BrokerOf[simRef'.input])
  <2>1. CASE RebuildDue \/ SeekDue
    BY <1>1, <1>5, <2>1
  <2>2. CASE ~(RebuildDue \/ SeekDue)
    <3>1. view' = view /\ simRef' = simRef
      BY <1>1, <1>2, <2>2
    <3> QED
      BY <3>1, InvParts
  <2> QED
    BY <2>1, <2>2
<1>8. ASSUME ~deferred PROVE NotBehind' /\ rendered' = effected'
  <2>1. rendered = store
    BY <1>1, <1>8 DEF PlaybackInv
  <2>2. ~RebuildDue =>
          /\ simRef.now <= v
          /\ \/ rendered.playing # effected.playing \/ v # effected.virtualTime
             \/ rendered.playing \/ simRef.halted \/ simRef.now = v
    BY <1>2, <1>8, <2>1 DEF PlaybackInv, NotBehind, v
  <2>3. a.now <= v
    BY <1>2, <2>1, <2>2 DEF v
  <2>4. simRef'.now <= v /\ (rendered.playing \/ simRef'.halted \/ simRef'.now = v)
    <3>1. CASE SeekDue
      <4>1. simRef' = AdvancedTo(a, v)
        BY <1>1, <3>1
      <4> QED
        BY <1>4, <2>3, <4>1
    <3>2. CASE ~SeekDue /\ RebuildDue
      <4>1. simRef' = a
        BY <1>1, <3>2
      <4> QED
        BY <1>2, <2>1, <3>2, <4>1 DEF v
    <3>3. CASE ~SeekDue /\ ~RebuildDue
      <4>1. simRef' = simRef
        BY <1>1, <1>2, <3>3
      <4>2. rendered.playing \/ (v = effected.virtualTime /\ rendered.playing = effected.playing)
        BY <3>3 DEF SeekDue, v
      <4> QED
        BY <2>2, <3>3, <4>1, <4>2
    <3> QED
      BY <3>1, <3>2, <3>3
  <2> QED
    BY <1>1, <2>1, <2>4 DEF NotBehind, v
<1>9. {store', rendered', effected'} \subseteq Values /\ deferred' \in BOOLEAN
  BY <1>1, InvParts
<1> QED
  BY <1>1, <1>5, <1>6, <1>7, <1>8, <1>9 DEF PlaybackInv

LEMMA FrameKeeps ==
  ASSUME PlaybackInv, NEW delta \in Deltas, Frame(delta)
  PROVE  PlaybackInv'
<1> DEFINE target == store.virtualTime + delta
           a == AdvancedTo(simRef, target)
<1>1. /\ Free /\ simRef' = a
      /\ store' = [store EXCEPT !.virtualTime = target, !.playing = PlayingAfter(a, effected.input, target)]
      /\ view' = ViewOf(a, BrokerOf[effected.input])
      /\ deferred' = deferred /\ rendered' = rendered /\ effected' = effected
  BY DEF Frame
<1>2. target \in Nat /\ store.virtualTime \in Nat /\ store.virtualTime <= target
  <2>1. delta \in Nat /\ store.virtualTime \in Nat
    BY PlaybackAssumption, InvParts, ValuesParts
  <2> QED
    BY <2>1
<1> HIDE DEF a, target
<1>3. /\ a \in Simulation /\ a.input = simRef.input /\ Held(a)
      /\ simRef.now <= target => a.now <= target /\ (a.halted \/ a.now = target)
  BY <1>2, InvParts, AdvancedIsHeld DEF a
<1>4. PlayingAfter(a, effected.input, target) \in BOOLEAN
  BY InvParts, ValuesParts DEF PlayingAfter
<1>5. store' \in Values /\ store'.virtualTime = target
  BY <1>1, <1>2, <1>4, InvParts DEF Values
<1>6. Held(simRef)'
  BY <1>1, <1>3 DEF Held, FreshOf
<1>7. ASSUME ~deferred PROVE NotBehind' /\ rendered' = effected'
  <2>1. rendered' = effected' /\ simRef.now <= target
    <3>1. rendered = store /\ effected = store /\ simRef.now <= store.virtualTime /\ simRef.now \in Nat
      BY <1>1, <1>7, ReactIsDone, InvParts
    <3> QED
      BY <1>1, <1>2, <3>1
  <2> QED
    BY <1>1, <1>3, <1>5, <2>1 DEF NotBehind
<1>8. {store', rendered', effected'} \subseteq Values /\ deferred' \in BOOLEAN
  BY <1>1, <1>5, InvParts
<1>9. simRef' \in Simulation /\ simRef'.input = effected'.input /\ view' = ViewOf(simRef', BrokerOf[simRef'.input])
  BY <1>1, <1>3, InvParts
<1> QED
  BY <1>1, <1>6, <1>7, <1>8, <1>9 DEF PlaybackInv

LEMMA PlaybackInvInitially == PlaybackInit => PlaybackInv
<1> SUFFICES ASSUME PlaybackInit PROVE PlaybackInv
  OBVIOUS
<1>1. PICK input \in Inputs :
        /\ deferred \in BOOLEAN
        /\ store = [input |-> input, playing |-> FALSE, virtualTime |-> 0, replayToken |-> 0]
        /\ rendered = store /\ effected = store
        /\ simRef = AdvancedTo(CreateKernel(input), 0)
        /\ view = ViewOf(simRef, BrokerOf[input])
  BY DEF PlaybackInit
<1>2. /\ simRef \in Simulation /\ simRef.input = input /\ Held(simRef)
      /\ simRef.now <= 0 /\ (simRef.halted \/ simRef.now = 0)
  BY <1>1, RebuiltIsHeld
<1>3. store \in Values /\ store.input = input /\ store.virtualTime = 0
  BY <1>1 DEF Values
<1>4. NotBehind
  BY <1>1, <1>2, <1>3 DEF NotBehind
<1> QED
  BY <1>1, <1>2, <1>3, <1>4 DEF PlaybackInv

LEMMA PlaybackInvKept == PlaybackInv /\ [PlaybackNext]_playbackVars => PlaybackInv'
<1> SUFFICES ASSUME PlaybackInv, [PlaybackNext]_playbackVars PROVE PlaybackInv'
  OBVIOUS
<1>1. CASE PlaybackNext
  BY <1>1, OpenKeeps, EditSandboxKeeps, PlayKeeps, PauseKeeps, SeekKeeps, StepClickKeeps, RenderKeeps,
     EffectsKeep, FrameKeeps DEF PlaybackNext, Browser
<1>2. CASE UNCHANGED playbackVars
  BY <1>2 DEF playbackVars, PlaybackInv, NotBehind, Held, FreshOf
<1> QED
  BY <1>1, <1>2

\* At all times.
LEMMA PlaybackInvAlways == PlaybackSpec => []PlaybackInv
  BY PlaybackInvInitially, PlaybackInvKept, PTL DEF PlaybackSpec

\* A snapshot is drawn by the broker that made it: no click, render, effect or
\* frame hands the view another broker's snapshot, even where the effects of a
\* switch come late (the guard of stepOnce in useSimulation.ts).
THEOREM SnapshotIsCorrect == PlaybackSpec => []SnapshotMatchesBroker
<1>1. PlaybackInv => SnapshotMatchesBroker
  BY InvParts DEF SnapshotMatchesBroker
<1> QED
  BY <1>1, PlaybackInvAlways, PTL

\* Scrubbing is replay: where React reacts at once, what a paused canvas shows is
\* what a fresh simulation shows at the store's clock, after any clicks and frames
\* (store.ts and the effects of useSimulation.ts).
THEOREM PausedViewIsCorrect == PlaybackSpec => []PausedViewIsReplay
<1>1. ASSUME PlaybackInv PROVE PausedViewIsReplay
  <2> SUFFICES ASSUME Settled, ~store.playing, ~deferred
               PROVE  Progress(view.state) = Progress(Run(CreateKernel(store.input), store.virtualTime))
    BY DEF PausedViewIsReplay
  <2> DEFINE v == store.virtualTime
  <2>1. /\ effected = store /\ simRef.now <= v /\ (simRef.halted \/ simRef.now = v)
    BY <1>1, ReactIsDone DEF Free
  <2>2. /\ view.state = simRef /\ Held(simRef) /\ simRef.input = store.input
        /\ v \in Nat /\ simRef.now \in Nat
    BY <1>1, <2>1, InvParts, ValuesParts
  <2>3. FreshOf(simRef) = CreateKernel(store.input)
    BY <2>2 DEF FreshOf
  <2>4. CASE simRef.halted
    BY <2>1, <2>2, <2>3, <2>4 DEF Held
  <2>5. CASE ~simRef.halted
    <3>1. Alike(simRef, Run(FreshOf(simRef), v))
      BY <2>1, <2>2, <2>5 DEF Held
    <3> QED
      BY <2>2, <2>3, <3>1, AlikeProgress
  <2> QED
    BY <2>4, <2>5
<1> QED
  BY <1>1, PlaybackInvAlways, PTL

-----------------------------------------------------------------------------
(* The script of a draft *)

IdSet == [kind : NodeKinds \cup {"binding", "none"}, n : Nat]
LineSet == [at : Nat, exchangeId : IdSet, publisherId : IdSet]

\* The lines ahead of a line: finitely many, it is not among them, and of two
\* lines one is ahead of the other and has fewer lines ahead.
LEMMA AheadIsAnOrder ==
  ASSUME NEW lines \in Seq(LineSet)
  PROVE  /\ \A i \in DOMAIN lines : /\ IsFiniteSet(Ahead(lines, i)) /\ i \notin Ahead(lines, i)
                                    /\ Cardinality(Ahead(lines, i)) \in 0 .. Len(lines) - 1
         /\ \A i, j \in DOMAIN lines :
              /\ j \in Ahead(lines, i) => Cardinality(Ahead(lines, j)) < Cardinality(Ahead(lines, i))
              /\ i = j \/ i \in Ahead(lines, j) \/ j \in Ahead(lines, i)
<1>0. DOMAIN lines = 1 .. Len(lines) /\ Len(lines) \in Nat /\ \A i \in DOMAIN lines : lines[i].at \in Nat
  <2>1. \A x \in LineSet : x.at \in Nat
    BY DEF LineSet
  <2> QED
    BY <2>1
<1>1. IsFiniteSet(1 .. Len(lines)) /\ Cardinality(1 .. Len(lines)) = Len(lines)
  BY <1>0, FS_Interval
<1>2. ASSUME NEW i \in DOMAIN lines
      PROVE  /\ IsFiniteSet(Ahead(lines, i)) /\ i \notin Ahead(lines, i)
             /\ Cardinality(Ahead(lines, i)) \in 0 .. Len(lines) - 1
  <2>1. i \notin Ahead(lines, i)
    BY <1>0 DEF Ahead
  <2>2. Ahead(lines, i) \in SUBSET (1 .. Len(lines))
    BY <1>0 DEF Ahead
  <2>3. /\ IsFiniteSet(Ahead(lines, i)) /\ Cardinality(Ahead(lines, i)) <= Len(lines)
        /\ Cardinality(Ahead(lines, i)) # Len(lines)
    BY <1>0, <1>1, <2>1, <2>2, FS_Subset
  <2>4. Cardinality(Ahead(lines, i)) \in Nat
    BY <2>3, FS_CardinalityType
  <2> QED
    BY <1>0, <2>1, <2>3, <2>4
<1>3. ASSUME NEW i \in DOMAIN lines, NEW j \in Ahead(lines, i)
      PROVE  Cardinality(Ahead(lines, j)) < Cardinality(Ahead(lines, i))
  <2>1. j \in DOMAIN lines
    BY DEF Ahead
  <2>2. Ahead(lines, j) \subseteq Ahead(lines, i)
    BY <1>0, <2>1 DEF Ahead
  <2>3. Ahead(lines, j) # Ahead(lines, i)
    BY <1>2, <2>1
  <2>4. /\ Cardinality(Ahead(lines, j)) <= Cardinality(Ahead(lines, i))
        /\ Cardinality(Ahead(lines, j)) # Cardinality(Ahead(lines, i))
    BY <1>2, <2>1, <2>2, <2>3, FS_Subset
  <2> QED
    BY <1>0, <1>2, <2>1, <2>4
<1>4. ASSUME NEW i \in DOMAIN lines, NEW j \in DOMAIN lines
      PROVE  i = j \/ i \in Ahead(lines, j) \/ j \in Ahead(lines, i)
  BY <1>0 DEF Ahead
<1> QED
  BY <1>2, <1>3, <1>4

\* Merging sorts by time and keeps every line as often as it is there.
LEMMA MergingMerges ==
  ASSUME NEW manual \in Seq(LineSet), NEW generated \in Seq(LineSet)
  PROVE  /\ Merged(manual, generated) \in Seq(LineSet)
         /\ IsMergeOf(Merged(manual, generated), manual, generated)
<1> DEFINE all == manual \o generated
           n == Len(all)
           rank(i) == Cardinality(Ahead(all, i))
           order(k) == CHOOSE i \in DOMAIN all : rank(i) = k - 1
           script == [k \in DOMAIN all |-> all[order(k)]]
<1>1. all \in Seq(LineSet) /\ n \in Nat /\ DOMAIN all = 1 .. n /\ n = Len(manual) + Len(generated)
  OBVIOUS
<1>2. Merged(manual, generated) = script
  BY DEF Merged
<1> HIDE DEF all
<1>3. /\ \A i \in DOMAIN all : rank(i) \in 0 .. n - 1
      /\ \A i, j \in DOMAIN all : /\ j \in Ahead(all, i) => rank(j) < rank(i)
                                  /\ i = j \/ i \in Ahead(all, j) \/ j \in Ahead(all, i)
  BY <1>1, AheadIsAnOrder
<1> HIDE DEF rank
<1>4. \A i, j \in DOMAIN all : rank(i) = rank(j) => i = j
  BY <1>1, <1>3
<1>5. \A r \in 0 .. n - 1 : \E i \in DOMAIN all : rank(i) = r
  <2> DEFINE f == [i \in 1 .. n |-> rank(i)]
  <2>1. f \in Injection(1 .. n, 0 .. n - 1)
    BY <1>1, <1>3, <1>4 DEF Injection, IsInjective
  <2>2. /\ IsFiniteSet(0 .. n - 1) /\ Cardinality(0 .. n - 1) = n
        /\ IsFiniteSet(1 .. n) /\ Cardinality(1 .. n) = n
    <3>1. 0 \in Int /\ 1 \in Int /\ n \in Int /\ n - 1 \in Int /\ n >= 0
      BY <1>1
    <3> HIDE DEF n
    <3> QED
      BY <3>1, FS_Interval
  <2>3. f \in Surjection(1 .. n, 0 .. n - 1)
    BY <2>1, <2>2, FS_Injection
  <2> QED
    BY <1>1, <2>3 DEF Surjection
<1>6. \A k \in DOMAIN all : order(k) \in DOMAIN all /\ rank(order(k)) = k - 1
  <2> TAKE k \in DOMAIN all
  <2>1. k - 1 \in 0 .. n - 1
    BY <1>1
  <2> QED
    BY <1>5, <2>1
<1> HIDE DEF order
<1>7. \A k, l \in DOMAIN all : order(k) = order(l) => k = l
  BY <1>1, <1>6
<1>8. \A i \in DOMAIN all : \E k \in DOMAIN all : order(k) = i
  <2> TAKE i \in DOMAIN all
  <2>1. rank(i) + 1 \in DOMAIN all /\ rank(order(rank(i) + 1)) = rank(i)
    BY <1>1, <1>3, <1>6
  <2> QED
    BY <1>4, <1>6, <2>1
<1>9. script \in Seq(LineSet) /\ Len(script) = n /\ DOMAIN script = DOMAIN all
  BY <1>1, <1>6
<1>10. InTimeOrder(script)
  <2> SUFFICES ASSUME NEW k \in DOMAIN all, NEW l \in DOMAIN all, k < l
               PROVE  all[order(k)].at <= all[order(l)].at
    BY <1>9 DEF InTimeOrder
  <2>1. order(k) \in DOMAIN all /\ order(l) \in DOMAIN all /\ rank(order(k)) < rank(order(l))
    BY <1>1, <1>6
  <2>2. all[order(k)].at \in Nat /\ all[order(l)].at \in Nat
    <3>1. \A x \in LineSet : x.at \in Nat
      BY DEF LineSet
    <3> QED
      BY <1>1, <2>1, <3>1
  <2>3. order(l) \notin Ahead(all, order(k))
    <3>1. rank(order(k)) \in Nat /\ rank(order(l)) \in Nat
      BY <1>3, <2>1
    <3> QED
      BY <1>3, <2>1, <3>1
  <2> QED
    BY <2>1, <2>2, <2>3 DEF Ahead
<1>11. ASSUME NEW a
       PROVE  Cardinality(Occurrences(script, a)) = Cardinality(Occurrences(all, a))
  <2> DEFINE S == Occurrences(script, a)
             T == Occurrences(all, a)
             f == [k \in S |-> order(k)]
  <2>1. S \in SUBSET (1 .. n) /\ \A k \in S : k \in DOMAIN all /\ all[order(k)] = a
    BY <1>1, <1>9 DEF Occurrences
  <2>2. IsFiniteSet(S)
    <3>1. IsFiniteSet(1 .. n)
      BY <1>1, FS_Interval
    <3> HIDE DEF S
    <3> QED
      BY <2>1, <3>1, FS_Subset
  <2>3. f \in [S -> T]
    BY <1>6, <2>1 DEF Occurrences
  <2>4. \A k, l \in S : f[k] = f[l] => k = l
    BY <1>7, <2>1
  <2>5. \A i \in T : \E k \in S : f[k] = i
    BY <1>8, <1>9 DEF Occurrences
  <2>6. f \in Bijection(S, T)
    BY <2>3, <2>4, <2>5 DEF Bijection, Injection, Surjection, IsInjective
  <2> QED
    BY <2>2, <2>6, FS_Bijection DEF ExistsBijection
<1> QED
  BY <1>1, <1>2, <1>9, <1>10, <1>11 DEF IsMergeOf, all

-----------------------------------------------------------------------------
(* Lists of nodes and bindings *)

DraftKinds == NodeKinds \cup {"binding"}

IsList(list) == list \in Seq(Elements(list))

Apart(list) == \A i, j \in DOMAIN list : list[i].id = list[j].id => i = j

\* A sequence is a list of its elements.
LEMMA ListOfElements ==
  ASSUME NEW A, NEW s \in Seq(A)
  PROVE  /\ IsList(s) /\ Elements(s) \subseteq A
         /\ DOMAIN s = 1 .. Len(s) /\ Len(s) \in Nat
<1>1. \A i \in 1 .. Len(s) : s[i] \in A /\ s[i] \in Elements(s)
  BY DEF Elements
<1>2. s \in Seq(Elements(s))
  <2> HIDE DEF Elements
  <2>1. s \in [1 .. Len(s) -> Elements(s)]
    BY <1>1
  <2> QED
    BY <2>1
<1> QED
  BY <1>1, <1>2 DEF Elements, IsList

KeepStep(S, unused, kept, x) == IF x \in S THEN Append(kept, x) ELSE kept

\* After some turns: the elements so far that are in the set, told apart.
KeptSoFar(ctx, turn, kept) ==
  /\ kept \in Seq(Elements(ctx.list)) /\ Apart(kept)
  /\ Elements(kept) = {ctx.list[i] : i \in 1 .. turn} \cap ctx.set

KeepFold == INSTANCE LeftFold WITH Op <- KeepStep, Inv <- KeptSoFar

\* Appending adds one element.
LEMMA ElementsAppended ==
  ASSUME NEW A, NEW s \in Seq(A), NEW x
  PROVE  Elements(Append(s, x)) = Elements(s) \cup {x}
<1> DEFINE t == Append(s, x)
<1>1. DOMAIN t = 1 .. Len(s) + 1 /\ DOMAIN s = 1 .. Len(s) /\ Len(s) \in Nat
  OBVIOUS
<1>2. t[Len(s) + 1] = x /\ \A i \in 1 .. Len(s) : t[i] = s[i]
  OBVIOUS
<1> HIDE DEF t
<1>3. \A y \in Elements(t) : y \in Elements(s) \cup {x}
  BY <1>1, <1>2 DEF Elements
<1>4. \A y \in Elements(s) \cup {x} : y \in Elements(t)
  <2>1. Len(s) + 1 \in DOMAIN t /\ \A i \in DOMAIN s : i \in DOMAIN t
    BY <1>1
  <2> QED
    BY <1>1, <1>2, <2>1 DEF Elements
<1> QED
  BY <1>3, <1>4 DEF t

\* An element with an id of its own can be appended.
LEMMA AppendedApart ==
  ASSUME NEW A, NEW s \in Seq(A), NEW x, Apart(s), \A y \in Elements(s) : y.id # x.id
  PROVE  Apart(Append(s, x))
<1> DEFINE t == Append(s, x)
<1>1. DOMAIN t = 1 .. Len(s) + 1 /\ DOMAIN s = 1 .. Len(s) /\ Len(s) \in Nat
  OBVIOUS
<1>2. t[Len(s) + 1] = x /\ \A i \in 1 .. Len(s) : t[i] = s[i]
  OBVIOUS
<1> HIDE DEF t
<1>3. \A i \in 1 .. Len(s) : t[i].id # x.id
  BY <1>1, <1>2 DEF Elements
<1> SUFFICES ASSUME NEW i \in DOMAIN t, NEW j \in DOMAIN t, t[i].id = t[j].id
             PROVE  i = j
  BY DEF Apart, t
<1>4. i \in 1 .. Len(s) \/ i = Len(s) + 1
  BY <1>1
<1>5. j \in 1 .. Len(s) \/ j = Len(s) + 1
  BY <1>1
<1> QED
  BY <1>1, <1>2, <1>3, <1>4, <1>5 DEF Apart

\* Keeping keeps the elements of the set, and no other, told apart.
LEMMA KeepingKeeps ==
  ASSUME NEW list, IsList(list), Apart(list), NEW S
  PROVE  /\ Keeping(list, S) \in Seq(Elements(list)) /\ Apart(Keeping(list, S))
         /\ Elements(Keeping(list, S)) = Elements(list) \cap S
<1> DEFINE ctx == [list |-> list, set |-> S]
           n == Len(list)
           Prior(i) == {list[j] : j \in 1 .. i}
<1>0. n \in Nat /\ DOMAIN list = 1 .. n
  BY DEF IsList
<1>1. KeptSoFar(ctx, 0, <<>>)
  BY DEF KeptSoFar, Apart, Elements
<1>2. ASSUME NEW i \in 1 .. n, NEW kept, KeptSoFar(ctx, i - 1, kept)
      PROVE  KeptSoFar(ctx, i, KeepStep(S, 0, kept, list[i]))
  <2>0. PICK x \in Elements(list) : x = list[i]
    BY <1>0 DEF Elements
  <2>1. kept \in Seq(Elements(list)) /\ Apart(kept) /\ Elements(kept) = Prior(i - 1) \cap S
    BY <1>2 DEF KeptSoFar
  <2>2. Prior(i) = Prior(i - 1) \cup {x}
    <3>1. \A j : j \in 1 .. i <=> j \in 1 .. i - 1 \/ j = i
      OBVIOUS
    <3> QED
      BY <2>0, <3>1
  <2>3. \A y \in Prior(i - 1) : y.id # x.id
    <3> SUFFICES ASSUME NEW j \in 1 .. i - 1 PROVE list[j].id # x.id
      OBVIOUS
    <3>1. i \in DOMAIN list /\ j \in DOMAIN list /\ i # j
      BY <1>0
    <3> QED
      BY <2>0, <3>1 DEF Apart
  <2> HIDE DEF Prior
  <2>4. ASSUME x \in S
        PROVE  /\ Append(kept, x) \in Seq(Elements(list)) /\ Apart(Append(kept, x))
               /\ Elements(Append(kept, x)) = Prior(i) \cap S
    <3>1. Elements(Append(kept, x)) = Elements(kept) \cup {x}
      BY <2>1, ElementsAppended
    <3>2. \A y \in Elements(kept) : y.id # x.id
      BY <2>1, <2>3
    <3>3. Apart(Append(kept, x))
      BY <2>1, <3>2, AppendedApart
    <3> QED
      BY <2>1, <2>2, <2>4, <3>1, <3>3
  <2>5. x \notin S => Elements(kept) = Prior(i) \cap S
    BY <2>1, <2>2
  <2> QED
    BY <2>0, <2>1, <2>4, <2>5 DEF KeptSoFar, KeepStep, Prior
<1>3. KeptSoFar(ctx, n, KeepFold!Folded(S, 0, <<>>, list))
  <2> HIDE DEF ctx, n
  <2> QED
    BY <1>0, <1>1, <1>2, KeepFold!FoldKeeps
<1>4. KeepFold!Folded(S, 0, <<>>, list) = Keeping(list, S)
  BY DEF Keeping, KeepFold!Folded, KeepStep, FoldLeft, KeepFold!FoldLeft, MapThenFoldSet,
         KeepFold!MapThenFoldSet, Max, KeepFold!Max
<1>5. Prior(n) = Elements(list)
  BY <1>0 DEF Elements
<1> QED
  BY <1>3, <1>4, <1>5 DEF KeptSoFar

-----------------------------------------------------------------------------
(* The topology of a RabbitMQ draft *)

Fields(kind) ==
  IF kind = "binding" THEN {"id", "exchangeId", "destinationId", "destinationKind"}
  ELSE {"id", "ttl", "deadLetterExchange", "queueId"}

\* Nodes or bindings of one kind, with ids that the count has reached.
Minted(list, kind, count) ==
  /\ IsList(list) /\ Apart(list)
  /\ \A x \in Elements(list) : /\ x = [f \in Fields(kind) |-> x[f]]
                               /\ x.id \in [kind : {kind}, n : Nat] /\ x.id.n <= count

\* The ends of each binding are there, or it was drawn to a consumer.
Joined(t) ==
  \A b \in Elements(t["binding"]) :
    /\ b.exchangeId \in IdsIn(t["exchange"]) /\ b.destinationKind \in {"exchange", "queue"}
    /\ b.destinationId \in IdsIn(t[b.destinationKind]) \cup IdsIn(t["consumer"])

Whole(t, count) ==
  /\ t = [kind \in DraftKinds |-> t[kind]]
  /\ \A kind \in DraftKinds : Minted(t[kind], kind, count)
  /\ Joined(t)

LEMMA IdsOfElements ==
  ASSUME NEW list
  PROVE  IdsIn(list) = {x.id : x \in Elements(list)}
BY DEF IdsIn, Elements

\* Ids of a kind are ids.
LEMMA IdsOfKind ==
  ASSUME NEW list, NEW kind \in DraftKinds, NEW count, Minted(list, kind, count)
  PROVE  /\ \A id \in IdsIn(list) : id \in IdSet /\ id.kind = kind /\ id.n <= count
         /\ FirstId(list) \in IdSet
<1>1. \A id \in IdsIn(list) : id \in [kind : {kind}, n : Nat] /\ id.n <= count
  BY IdsOfElements DEF Minted
<1>2. [kind : {kind}, n : Nat] \subseteq IdSet
  BY DEF IdSet, DraftKinds
<1>3. \A id \in [kind : {kind}, n : Nat] : id.kind = kind
  OBVIOUS
<1>4. NoId \in IdSet
  BY DEF NoId, IdSet
<1>5. list # <<>> => list[1].id \in IdsIn(list)
  <2> SUFFICES ASSUME list # <<>> PROVE 1 \in DOMAIN list
    BY DEF IdsIn
  <2> QED
    BY DEF Minted, IsList
<1> QED
  BY <1>1, <1>2, <1>3, <1>4, <1>5 DEF FirstId

LEMMA EmptyIsWhole == Whole(EmptyTopology, 0)
<1>1. \A kind \in DraftKinds : EmptyTopology[kind] = <<>>
  BY DEF EmptyTopology, DraftKinds
<1>2. \A kind : Minted(<<>>, kind, 0)
  BY DEF Minted, IsList, Apart, Elements
<1>3. Elements(<<>>) = {} /\ "binding" \in DraftKinds
  BY DEF Elements, DraftKinds
<1> QED
  BY <1>1, <1>2, <1>3 DEF Whole, Joined, EmptyTopology, DraftKinds

\* A count may go on.
LEMMA CountGoesOn ==
  ASSUME NEW t, NEW count \in Nat, NEW more \in Nat, count <= more, Whole(t, count)
  PROVE  Whole(t, more)
<1>1. ASSUME NEW kind \in DraftKinds, NEW x \in Elements(t[kind])
      PROVE  x.id.n <= more
  <2>1. x.id \in [kind : {kind}, n : Nat] /\ x.id.n <= count
    BY DEF Whole, Minted
  <2>2. x.id.n \in Nat
    BY <2>1
  <2> QED
    BY <2>1, <2>2
<1> QED
  BY <1>1 DEF Whole, Minted

\* A list takes a new node or binding.
LEMMA MintedMore ==
  ASSUME NEW list, NEW kind, NEW count \in Nat, Minted(list, kind, count),
         NEW x, x = [f \in Fields(kind) |-> x[f]], x.id = [kind |-> kind, n |-> count + 1]
  PROVE  /\ Minted(Append(list, x), kind, count + 1)
         /\ Elements(Append(list, x)) = Elements(list) \cup {x}
<1>1. list \in Seq(Elements(list)) /\ Apart(list)
  BY DEF Minted, IsList
<1>2. \A y \in Elements(list) : y.id \in [kind : {kind}, n : Nat] /\ y.id.n <= count
  BY DEF Minted
<1>3. \A y \in Elements(list) : y.id.n \in Nat /\ y.id.n <= count
  BY <1>2
<1>4. x.id.n = count + 1 /\ x.id \in [kind : {kind}, n : Nat]
  OBVIOUS
<1>5. \A y \in Elements(list) : y.id # x.id
  BY <1>3, <1>4
<1>6. Elements(Append(list, x)) = Elements(list) \cup {x}
  BY <1>1, ElementsAppended
<1>7. Apart(Append(list, x))
  BY <1>1, <1>5, AppendedApart
<1>8. IsList(Append(list, x))
  <2>1. Append(list, x) \in Seq(Elements(list) \cup {x})
    BY <1>1
  <2> QED
    BY <2>1, ListOfElements
<1>9. \A y \in Elements(list) : y.id.n <= count + 1
  BY <1>3
<1> QED
  BY <1>2, <1>4, <1>6, <1>7, <1>8, <1>9 DEF Minted

\* What is left of a list is minted too.
LEMMA MintedLess ==
  ASSUME NEW list, NEW kind, NEW count, Minted(list, kind, count), NEW S
  PROVE  /\ Minted(Keeping(list, S), kind, count)
         /\ Elements(Keeping(list, S)) = Elements(list) \cap S
<1>1. IsList(list) /\ Apart(list)
  BY DEF Minted
<1>2. /\ Keeping(list, S) \in Seq(Elements(list)) /\ Apart(Keeping(list, S))
      /\ Elements(Keeping(list, S)) = Elements(list) \cap S
  BY <1>1, KeepingKeeps
<1>3. IsList(Keeping(list, S))
  BY <1>2, ListOfElements
<1> QED
  BY <1>2, <1>3 DEF Minted

\* Adding a node.
LEMMA NodeAdded ==
  ASSUME NEW t, NEW count \in Nat, Whole(t, count), NEW kind \in NodeKinds,
         NEW x, x = [f \in Fields(kind) |-> x[f]], x.id = [kind |-> kind, n |-> count + 1]
  PROVE  Whole([t EXCEPT ![kind] = Append(@, x)], count + 1)
<1> DEFINE u == [t EXCEPT ![kind] = Append(@, x)]
<1>1. kind \in DraftKinds /\ kind # "binding" /\ "binding" \in DraftKinds /\ count + 1 \in Nat
  BY DEF DraftKinds, NodeKinds
<1>2. Whole(t, count + 1)
  BY <1>1, CountGoesOn
<1>3. u = [k \in DraftKinds |-> u[k]] /\ u[kind] = Append(t[kind], x) /\ \A k \in DraftKinds : k # kind => u[k] = t[k]
  BY <1>1 DEF Whole
<1> HIDE DEF u
<1>4. Minted(u[kind], kind, count + 1) /\ Elements(t[kind]) \subseteq Elements(u[kind])
  <2>1. Minted(t[kind], kind, count)
    BY <1>1 DEF Whole
  <2>2. /\ Minted(Append(t[kind], x), kind, count + 1)
        /\ Elements(Append(t[kind], x)) = Elements(t[kind]) \cup {x}
    BY ONLY <2>1, MintedMore, count \in Nat, x = [f \in Fields(kind) |-> x[f]],
            x.id = [kind |-> kind, n |-> count + 1]
  <2> QED
    BY <1>3, <2>2
<1>5. \A k \in DraftKinds : Minted(u[k], k, count + 1)
  BY <1>2, <1>3, <1>4 DEF Whole
<1>6. \A k \in DraftKinds : IdsIn(t[k]) \subseteq IdsIn(u[k])
  BY <1>3, <1>4, IdsOfElements
<1>7. {"exchange", "queue", "consumer"} \subseteq DraftKinds
  BY DEF DraftKinds, NodeKinds
<1>8. Joined(u)
  <2>1. u["binding"] = t["binding"]
    BY <1>1, <1>3
  <2> QED
    BY <1>2, <1>6, <1>7, <2>1 DEF Joined, Whole
<1> QED
  BY <1>3, <1>5, <1>8 DEF Whole, u

\* Adding a binding whose ends are there.
LEMMA BindingAdded ==
  ASSUME NEW t, NEW count \in Nat, Whole(t, count),
         NEW x, x = [f \in Fields("binding") |-> x[f]], x.id = [kind |-> "binding", n |-> count + 1],
         x.exchangeId \in IdsIn(t["exchange"]), x.destinationKind \in {"exchange", "queue"},
         x.destinationId \in IdsIn(t[x.destinationKind]) \cup IdsIn(t["consumer"])
  PROVE  Whole([t EXCEPT !["binding"] = Append(@, x)], count + 1)
<1> DEFINE u == [t EXCEPT !["binding"] = Append(@, x)]
<1>1. "binding" \in DraftKinds /\ count + 1 \in Nat
  BY DEF DraftKinds
<1>2. Whole(t, count + 1)
  BY <1>1, CountGoesOn
<1>3. /\ u = [k \in DraftKinds |-> u[k]] /\ u["binding"] = Append(t["binding"], x)
      /\ \A k \in DraftKinds : k # "binding" => u[k] = t[k]
  BY <1>1 DEF Whole
<1> HIDE DEF u
<1>4. Minted(u["binding"], "binding", count + 1) /\ Elements(u["binding"]) = Elements(t["binding"]) \cup {x}
  <2>1. Minted(t["binding"], "binding", count)
    BY <1>1 DEF Whole
  <2>2. /\ Minted(Append(t["binding"], x), "binding", count + 1)
        /\ Elements(Append(t["binding"], x)) = Elements(t["binding"]) \cup {x}
    BY <2>1, MintedMore
  <2> QED
    BY <1>3, <2>2
<1>5. \A k \in DraftKinds : Minted(u[k], k, count + 1)
  BY <1>2, <1>3, <1>4 DEF Whole
<1>6. \A k \in {"exchange", "queue", "consumer"} : u[k] = t[k]
  BY <1>3 DEF DraftKinds, NodeKinds
<1>7. Joined(u)
  BY <1>2, <1>4, <1>6 DEF Joined, Whole
<1> QED
  BY <1>3, <1>5, <1>7 DEF Whole, u

\* Changing a field of a node other than its id.
LEMMA NodeChanged ==
  ASSUME NEW t, NEW count \in Nat, Whole(t, count), NEW id, NEW value,
         NEW field \in {"ttl", "deadLetterExchange", "queueId"}
  PROVE  Whole([kind \in DOMAIN t |->
                  IF kind \in NodeKinds THEN Patched(t[kind], id, field, value) ELSE t[kind]], count)
<1> DEFINE u == [kind \in DOMAIN t |->
                  IF kind \in NodeKinds THEN Patched(t[kind], id, field, value) ELSE t[kind]]
<1>1. /\ u = [k \in DraftKinds |-> u[k]] /\ u["binding"] = t["binding"]
      /\ \A k \in NodeKinds : u[k] = Patched(t[k], id, field, value)
  BY DEF Whole, DraftKinds, NodeKinds
<1> HIDE DEF u
<1>2. ASSUME NEW k \in NodeKinds
      PROVE  Minted(u[k], k, count) /\ IdsIn(u[k]) = IdsIn(t[k])
  <2> DEFINE s == t[k]
             p == Patched(s, id, field, value)
  <2>1. k \in DraftKinds /\ k # "binding"
    BY DEF DraftKinds, NodeKinds
  <2>2. Minted(s, k, count)
    BY <2>1 DEF Whole
  <2>3. s \in Seq(Elements(s)) /\ Apart(s)
    BY <2>2 DEF Minted, IsList
  <2> HIDE DEF s
  <2>4. DOMAIN p = DOMAIN s /\ DOMAIN s = 1 .. Len(s) /\ Len(s) \in Nat
    BY <2>3 DEF Patched
  <2>5. \A i \in DOMAIN s : p[i] = IF s[i].id = id THEN [s[i] EXCEPT ![field] = value] ELSE s[i]
    BY DEF Patched
  <2> HIDE DEF p
  <2>6. ASSUME NEW i \in DOMAIN s
        PROVE  p[i].id = s[i].id /\ p[i] = [f \in Fields(k) |-> p[i][f]]
    <3>1. s[i] = [f \in Fields(k) |-> s[i][f]]
      BY <2>2 DEF Minted, Elements
    <3>2. field \in Fields(k) /\ field # "id" /\ "id" \in Fields(k)
      BY <2>1 DEF Fields
    <3> DEFINE e == [s[i] EXCEPT ![field] = value]
    <3>3. e.id = s[i].id /\ e = [f \in Fields(k) |-> e[f]]
      BY <3>1, <3>2
    <3> QED
      BY <2>5, <3>1, <3>3
  <2>7. p = [i \in 1 .. Len(s) |-> p[i]]
    <3>1. p = [i \in DOMAIN p |-> p[i]]
      BY DEF Patched, p
    <3> QED
      BY <2>4, <3>1
  <2>8. p \in Seq(Elements(p))
    <3>1. \A i \in 1 .. Len(s) : p[i] \in Elements(p)
      BY <2>4 DEF Elements
    <3> QED
      BY <2>4, <2>7, <3>1
  <2>9. Apart(p)
    BY <2>3, <2>4, <2>6 DEF Apart
  <2>10. IdsIn(p) = IdsIn(s)
    BY <2>4, <2>6 DEF IdsIn
  <2>11. \A x \in Elements(p) : x = [f \in Fields(k) |-> x[f]] /\ x.id \in IdsIn(p)
    BY <2>4, <2>6 DEF Elements, IdsIn
  <2>12. \A y \in IdsIn(s) : y \in [kind : {k}, n : Nat] /\ y.n <= count
    BY <2>2, IdsOfElements DEF Minted
  <2>13. Minted(p, k, count)
    BY <2>8, <2>9, <2>10, <2>11, <2>12 DEF Minted, IsList
  <2> QED
    BY <1>1, <2>10, <2>13 DEF p, s
<1>3. \A k \in DraftKinds : Minted(u[k], k, count)
  BY <1>1, <1>2 DEF Whole, DraftKinds
<1>4. \A k \in {"exchange", "queue", "consumer"} : IdsIn(u[k]) = IdsIn(t[k])
  BY <1>2 DEF NodeKinds
<1>5. Joined(u)
  BY <1>1, <1>4 DEF Joined, Whole
<1> QED
  BY <1>1, <1>3, <1>5 DEF Whole, u

\* Removing a node and the bindings that end in it.
LEMMA NodeRemoved ==
  ASSUME NEW t, NEW count \in Nat, Whole(t, count), NEW id
  PROVE  Whole([kind \in DOMAIN t |-> Without(t[kind], id)], count)
<1> DEFINE u == [kind \in DOMAIN t |-> Without(t[kind], id)]
<1>1. u = [k \in DraftKinds |-> u[k]] /\ \A k \in DraftKinds : u[k] = Without(t[k], id)
  BY DEF Whole
<1> HIDE DEF u
<1>2. ASSUME NEW k \in DraftKinds
      PROVE  /\ Minted(u[k], k, count)
             /\ Elements(u[k]) = {x \in Elements(t[k]) : x.id # id /\ ~Joins(x, id)}
  <2> DEFINE S == {x \in Elements(t[k]) : x.id # id /\ ~Joins(x, id)}
  <2>1. Minted(t[k], k, count)
    BY DEF Whole
  <2>2. Minted(Keeping(t[k], S), k, count) /\ Elements(Keeping(t[k], S)) = Elements(t[k]) \cap S
    <3> HIDE DEF S
    <3> QED
      BY <2>1, MintedLess
  <2>3. u[k] = Keeping(t[k], S)
    BY <1>1 DEF Without
  <2> QED
    BY <2>2, <2>3
<1>3. ASSUME NEW k \in NodeKinds
      PROVE  IdsIn(u[k]) = IdsIn(t[k]) \ {id}
  <2>1. k \in DraftKinds /\ k # "binding"
    BY DEF DraftKinds, NodeKinds
  <2>2. \A x \in Elements(t[k]) : x = [f \in Fields(k) |-> x[f]]
    BY <2>1 DEF Whole, Minted
  <2>3. "exchangeId" \notin Fields(k)
    BY <2>1 DEF Fields
  <2>4. \A x \in Elements(t[k]) : ~Joins(x, id)
    BY <2>2, <2>3 DEF Joins
  <2> QED
    BY <1>2, <2>1, <2>4, IdsOfElements
<1>4. "binding" \in DraftKinds /\ {"exchange", "queue", "consumer"} \subseteq NodeKinds
  BY DEF DraftKinds, NodeKinds
<1>5. ASSUME NEW b \in Elements(u["binding"])
      PROVE  /\ b.exchangeId \in IdsIn(u["exchange"]) /\ b.destinationKind \in {"exchange", "queue"}
             /\ b.destinationId \in IdsIn(u[b.destinationKind]) \cup IdsIn(u["consumer"])
  <2>1. b \in Elements(t["binding"]) /\ ~Joins(b, id)
    BY <1>2, <1>4
  <2>2. b = [f \in Fields("binding") |-> b[f]]
    BY <1>4, <2>1 DEF Whole, Minted
  <2>3. "exchangeId" \in DOMAIN b
    BY <2>2 DEF Fields
  <2>4. b.exchangeId # id /\ b.destinationId # id
    BY <2>1, <2>3 DEF Joins
  <2>5. /\ b.exchangeId \in IdsIn(t["exchange"]) /\ b.destinationKind \in {"exchange", "queue"}
        /\ b.destinationId \in IdsIn(t[b.destinationKind]) \cup IdsIn(t["consumer"])
    BY <2>1 DEF Whole, Joined
  <2> QED
    BY <1>3, <1>4, <2>4, <2>5
<1> QED
  BY <1>1, <1>2, <1>5 DEF Whole, Joined, u

\* Removing a binding.
LEMMA BindingRemoved ==
  ASSUME NEW t, NEW count \in Nat, Whole(t, count), NEW S
  PROVE  Whole([t EXCEPT !["binding"] = Keeping(@, S)], count)
<1> DEFINE u == [t EXCEPT !["binding"] = Keeping(@, S)]
<1>1. /\ u = [k \in DraftKinds |-> u[k]] /\ u["binding"] = Keeping(t["binding"], S)
      /\ \A k \in DraftKinds : k # "binding" => u[k] = t[k]
  BY DEF Whole, DraftKinds
<1> HIDE DEF u
<1>2. Minted(u["binding"], "binding", count) /\ Elements(u["binding"]) \subseteq Elements(t["binding"])
  BY <1>1, MintedLess DEF Whole, DraftKinds
<1>3. \A k \in {"exchange", "queue", "consumer"} : u[k] = t[k]
  BY <1>1 DEF DraftKinds, NodeKinds
<1>4. \A k \in DraftKinds : Minted(u[k], k, count)
  BY <1>1, <1>2 DEF Whole
<1>5. Joined(u)
  BY <1>2, <1>3 DEF Whole, Joined
<1> QED
  BY <1>1, <1>4, <1>5 DEF Whole, u

-----------------------------------------------------------------------------
(* RabbitMQ drafts, in the editor and in the local storage *)

GeneratorSet == [rate : Nat, exchange : IdSet]

DraftOK(d, count) ==
  /\ d = [topology |-> d.topology, manual |-> d.manual, generated |-> d.generated,
          script |-> d.script, generator |-> d.generator]
  /\ Whole(d.topology, count)
  /\ d.manual \in Seq(LineSet) /\ d.generated \in Seq(LineSet) /\ d.generator \in GeneratorSet
  /\ d.script = Merged(d.manual, d.generated)

\* What is kept was whole when it was saved, with whatever count.
SavedOK ==
  \/ saved \in {Nothing, Broken}
  \/ /\ saved.kind = "draft"
     /\ \E count \in Nat : Whole(saved.topology, count)
     /\ saved.manual \in Seq(LineSet) /\ saved.generator \in GeneratorSet

RabbitOK == rabbitIds \in Nat /\ DraftOK(draft, rabbitIds) /\ SavedOK

LEMMA EmptyDraftOK == DraftOK(EmptyDraft, 0)
<1>1. <<>> \in Seq(LineSet) /\ EmptyDraft.generator \in GeneratorSet
  BY DEF EmptyDraft, GeneratorSet, NoId, IdSet
<1>2. Merged(<<>>, <<>>) = <<>>
  BY DEF Merged
<1> QED
  BY <1>1, <1>2, EmptyIsWhole DEF DraftOK, EmptyDraft

\* A natural number divided by another.
LEMMA Quotient ==
  ASSUME NEW p \in Nat, NEW q \in Nat, q # 0
  PROVE  p \div q \in Nat
OBVIOUS

\* A generator makes lines.
LEMMA ExpandedLines ==
  ASSUME NEW generator \in GeneratorSet, NEW t, NEW count, Whole(t, count)
  PROVE  ExpandGenerator(generator, t) \in Seq(LineSet)
<1> DEFINE rate == generator.rate
           n == HorizonSeconds * rate
           lines == ExpandGenerator(generator, t)
           at(k) == (2 * (k - 1) * Second + rate) \div (2 * rate)
<1>1. rate \in Nat /\ generator.exchange \in IdSet /\ HorizonSeconds \in Nat /\ Second \in Nat
  BY SandboxAssumption DEF GeneratorSet
<1>2. n \in Nat
  BY <1>1
<1>3. FirstId(t["publisher"]) \in IdSet
  <2>1. "publisher" \in DraftKinds
    BY DEF DraftKinds, NodeKinds
  <2> QED
    BY <2>1, IdsOfKind DEF Whole
<1>4. \A k \in 1 .. n : at(k) \in Nat
  <2> TAKE k \in 1 .. n
  <2>1. rate # 0
    BY <1>1
  <2>2. (k - 1) \in Nat
    BY <1>2
  <2> DEFINE p == 2 * (k - 1) * Second + rate
  <2>3. p \in Nat
    <3>1. \A x, y \in Nat : 2 * x * y \in Nat
      OBVIOUS
    <3>2. 2 * (k - 1) * Second \in Nat
      BY <1>1, <2>2, <3>1
    <3> QED
      BY <1>1, <3>2
  <2>4. 2 * rate \in Nat /\ 2 * rate # 0
    BY <1>1, <2>1
  <2> HIDE DEF p, rate
  <2> QED
    BY <2>3, <2>4, Quotient DEF p
<1>5. lines = [k \in 1 .. n |-> [at |-> at(k), exchangeId |-> generator.exchange,
                                 publisherId |-> FirstId(t["publisher"])]]
  BY DEF ExpandGenerator
<1> HIDE DEF at, n, lines
<1>6. \A k \in 1 .. n : [at |-> at(k), exchangeId |-> generator.exchange,
                         publisherId |-> FirstId(t["publisher"])] \in LineSet
  BY <1>1, <1>3, <1>4 DEF LineSet
<1>7. lines \in [1 .. n -> LineSet]
  BY <1>5, <1>6
<1> QED
  BY <1>2, <1>7 DEF lines

\* Restoring a draft, the count goes on above all its ids.
LEMMA SeededAbove ==
  ASSUME rabbitIds \in Nat, NEW t, NEW count \in Nat, Whole(t, count)
  PROVE  /\ SeedCounterFrom(t) \in Nat
         /\ Whole(t, SeedCounterFrom(t))
<1> DEFINE T == NumbersIn(t) \cup {rabbitIds}
           top == IF count <= rabbitIds THEN rabbitIds ELSE count
           Above == {n \in Nat : \A i \in T : i <= n}
<1>1. \A kind \in DraftKinds : \A x \in IdsIn(t[kind]) : x.n \in Nat /\ x.n <= count
  <2> TAKE kind \in DraftKinds
  <2>1. \A x \in IdsIn(t[kind]) : x \in [kind : {kind}, n : Nat] /\ x.n <= count
    BY IdsOfElements DEF Whole, Minted
  <2> QED
    BY <2>1
<1>2. NumbersIn(t) = UNION {{x.n : x \in IdsIn(t[kind])} : kind \in DraftKinds}
  BY DEF NumbersIn, Whole
<1>3. \A i \in T : i \in Nat /\ i <= top
  BY <1>1, <1>2
<1>4. top \in Above
  BY <1>3
<1> HIDE DEF T
<1>5. PICK m \in Above : \A n \in Above : m <= n
  BY <1>4, KeepFold!LeastNumber
<1>6. m \in T
  <2> SUFFICES ASSUME m \notin T PROVE FALSE
    OBVIOUS
  <2>1. \A i \in T : i <= m - 1
    BY <1>3
  <2>2. m - 1 \in Nat
    BY <1>3, <2>1 DEF T
  <2> QED
    BY <1>5, <2>1, <2>2
<1>7. SeedCounterFrom(t) \in T /\ \A n \in T : n <= SeedCounterFrom(t)
  BY <1>5, <1>6 DEF SeedCounterFrom, T
<1>8. SeedCounterFrom(t) \in Nat
  BY <1>3, <1>7
<1>9. \A kind \in DraftKinds : \A x \in Elements(t[kind]) : x.id.n <= SeedCounterFrom(t)
  <2> SUFFICES ASSUME NEW kind \in DraftKinds, NEW x \in Elements(t[kind])
               PROVE  x.id.n \in T
    BY <1>7
  <2>1. x.id \in IdsIn(t[kind])
    BY IdsOfElements
  <2> QED
    BY <1>2, <2>1 DEF T
<1> HIDE DEF T, top, Above
<1> QED
  BY <1>8, <1>9 DEF Whole, Minted

\* The script of a draft is merged anew with whatever it is made of.
LEMMA ScriptedOK ==
  ASSUME NEW d, NEW t, NEW count, Whole(t, count),
         NEW m, NEW g, NEW s, NEW r,
         d = [topology |-> t, manual |-> m, generated |-> g, script |-> s, generator |-> r],
         NEW manual \in Seq(LineSet), NEW generated \in Seq(LineSet), NEW generator \in GeneratorSet
  PROVE  DraftOK(Scripted(d, manual, generator, generated), count)
<1> DEFINE e == Scripted(d, manual, generator, generated)
           Names == {"topology", "manual", "generated", "script", "generator"}
<1>1. DOMAIN d = Names /\ d.topology = t
  OBVIOUS
<1>2. /\ e.topology = t /\ e.manual = manual /\ e.generated = generated
      /\ e.script = Merged(manual, generated) /\ e.generator = generator
  BY <1>1 DEF Scripted
<1>3. e = [f \in Names |-> e[f]]
  BY <1>1 DEF Scripted
<1> HIDE DEF e
<1>4. e = [topology |-> e.topology, manual |-> e.manual, generated |-> e.generated,
           script |-> e.script, generator |-> e.generator]
  BY <1>3
<1> QED
  BY <1>2, <1>4 DEF DraftOK, e

\* A draft with another topology.
LEMMA DrawnOK ==
  ASSUME NEW d, NEW count, DraftOK(d, count), NEW t, NEW more, Whole(t, more),
         NEW e, e = [d EXCEPT !.topology = t]
  PROVE  DraftOK(e, more)
<1> DEFINE Names == {"topology", "manual", "generated", "script", "generator"}
<1>1. d = [f \in Names |-> d[f]]
  BY DEF DraftOK
<1>2. e = [f \in Names |-> e[f]] /\ e.topology = t
  BY <1>1
<1>3. e.manual = d.manual /\ e.generated = d.generated /\ e.script = d.script /\ e.generator = d.generator
  BY <1>1
<1>4. e = [topology |-> e.topology, manual |-> e.manual, generated |-> e.generated,
           script |-> e.script, generator |-> e.generator]
  BY <1>2
<1> QED
  BY <1>2, <1>3, <1>4 DEF DraftOK

\* A change within the topology.
LEMMA DrawnWithin ==
  ASSUME NEW d, NEW count, DraftOK(d, count), NEW kind \in DraftKinds, NEW list
  PROVE  [d EXCEPT !.topology[kind] = list] = [d EXCEPT !.topology = [@ EXCEPT ![kind] = list]]
BY DEF DraftOK

LEMMA AddNodeOK ==
  ASSUME RabbitOK, NEW kind \in NodeKinds, AddNode(kind)
  PROVE  rabbitIds' \in Nat /\ DraftOK(draft', rabbitIds')
<1> DEFINE t == draft.topology
           x == NewNode(kind)
<1>1. rabbitIds \in Nat /\ DraftOK(draft, rabbitIds) /\ Whole(t, rabbitIds)
  BY DEF RabbitOK, DraftOK
<1>2. kind \in DraftKinds /\ kind # "binding"
  BY DEF DraftKinds, NodeKinds
<1>3. x = [f \in Fields(kind) |-> x[f]] /\ x.id = [kind |-> kind, n |-> rabbitIds + 1]
  BY <1>2 DEF NewNode, Fields, Id
<1> HIDE DEF x, t
<1>4. Whole([t EXCEPT ![kind] = Append(@, x)], rabbitIds + 1)
  BY <1>1, <1>3, NodeAdded
<1>5. draft' = [draft EXCEPT !.topology = [@ EXCEPT ![kind] = Append(t[kind], x)]] /\ rabbitIds' = rabbitIds + 1
  BY <1>1, <1>2, DrawnWithin DEF AddNode, t, x
<1>6. draft' = [draft EXCEPT !.topology = [t EXCEPT ![kind] = Append(@, x)]]
  BY <1>5 DEF t
<1> QED
  BY <1>1, <1>4, <1>5, <1>6, DrawnOK

LEMMA AddBindingOK ==
  ASSUME RabbitOK, NEW source \in Exchanges, NEW target \in Nodes, target.kind # "publisher",
         AddBinding(source, target)
  PROVE  rabbitIds' \in Nat /\ DraftOK(draft', rabbitIds')
<1> DEFINE t == draft.topology
           x == NewBinding(source, target)
<1>1. rabbitIds \in Nat /\ DraftOK(draft, rabbitIds) /\ Whole(t, rabbitIds)
  BY DEF RabbitOK, DraftOK
<1>2. "binding" \in DraftKinds /\ NodeKinds \subseteq DraftKinds
  BY DEF DraftKinds
<1>3. x = [f \in Fields("binding") |-> x[f]] /\ x.id = [kind |-> "binding", n |-> rabbitIds + 1]
  BY DEF NewBinding, Fields, Id
<1>4. PICK kind \in NodeKinds : target \in IdsIn(t[kind])
  BY DEF Nodes
<1>5. kind # "publisher"
  BY <1>1, <1>2, <1>4, IdsOfKind DEF Whole
<1>6. /\ x.exchangeId \in IdsIn(t["exchange"]) /\ x.destinationKind \in {"exchange", "queue"}
      /\ x.destinationId \in IdsIn(t[x.destinationKind]) \cup IdsIn(t["consumer"])
  BY <1>4, <1>5 DEF NewBinding, Exchanges, NodeKinds
<1> HIDE DEF x, t
<1>7. Whole([t EXCEPT !["binding"] = Append(@, x)], rabbitIds + 1)
  BY <1>1, <1>3, <1>6, BindingAdded
<1>8. draft' = [draft EXCEPT !.topology = [@ EXCEPT !["binding"] = Append(t["binding"], x)]] /\ rabbitIds' = rabbitIds + 1
  BY <1>1, <1>2, DrawnWithin DEF AddBinding, t, x
<1>9. draft' = [draft EXCEPT !.topology = [t EXCEPT !["binding"] = Append(@, x)]]
  BY <1>8 DEF t
<1> QED
  BY <1>1, <1>7, <1>8, <1>9, DrawnOK

LEMMA UpdateNodeOK ==
  ASSUME RabbitOK, NEW id, NEW value, NEW field \in {"ttl", "deadLetterExchange", "queueId"},
         UpdateNode(id, field, value)
  PROVE  rabbitIds' \in Nat /\ DraftOK(draft', rabbitIds')
<1> DEFINE t == draft.topology
           u == [kind \in DOMAIN t |->
                   IF kind \in NodeKinds THEN Patched(t[kind], id, field, value) ELSE t[kind]]
<1>1. rabbitIds \in Nat /\ DraftOK(draft, rabbitIds) /\ Whole(t, rabbitIds)
  BY DEF RabbitOK, DraftOK
<1>2. draft' = [draft EXCEPT !.topology = u] /\ rabbitIds' = rabbitIds
  BY DEF UpdateNode
<1> HIDE DEF t
<1>3. Whole(u, rabbitIds)
  BY <1>1, NodeChanged
<1> HIDE DEF u
<1> QED
  BY <1>1, <1>2, <1>3, DrawnOK

LEMMA RemoveNodeOK ==
  ASSUME RabbitOK, NEW id, RemoveNode(id)
  PROVE  rabbitIds' \in Nat /\ DraftOK(draft', rabbitIds')
<1> DEFINE t == draft.topology
           u == [kind \in DOMAIN t |-> Without(t[kind], id)]
<1>1. rabbitIds \in Nat /\ DraftOK(draft, rabbitIds) /\ Whole(t, rabbitIds)
  BY DEF RabbitOK, DraftOK
<1>2. draft' = [draft EXCEPT !.topology = u] /\ rabbitIds' = rabbitIds
  BY DEF RemoveNode
<1> HIDE DEF t
<1>3. Whole(u, rabbitIds)
  BY <1>1, NodeRemoved
<1> HIDE DEF u
<1> QED
  BY <1>1, <1>2, <1>3, DrawnOK

LEMMA RemoveBindingOK ==
  ASSUME RabbitOK, NEW id, RemoveBinding(id)
  PROVE  rabbitIds' \in Nat /\ DraftOK(draft', rabbitIds')
<1> DEFINE t == draft.topology
           S == {b \in Elements(t["binding"]) : b.id # id}
<1>1. rabbitIds \in Nat /\ DraftOK(draft, rabbitIds) /\ Whole(t, rabbitIds) /\ "binding" \in DraftKinds
  BY DEF RabbitOK, DraftOK, DraftKinds
<1>2. draft' = [draft EXCEPT !.topology["binding"] = Keeping(t["binding"], S)] /\ rabbitIds' = rabbitIds
  BY DEF RemoveBinding
<1> HIDE DEF S
<1>3. draft' = [draft EXCEPT !.topology = [t EXCEPT !["binding"] = Keeping(@, S)]]
  BY <1>1, <1>2, DrawnWithin
<1> HIDE DEF t
<1>4. Whole([t EXCEPT !["binding"] = Keeping(@, S)], rabbitIds)
  BY <1>1, BindingRemoved
<1> QED
  BY <1>1, <1>2, <1>3, <1>4, DrawnOK

\* The parts of a draft, named.
LEMMA PartsOfDraft ==
  ASSUME NEW d, NEW count, DraftOK(d, count)
  PROVE  \E m, g, s, r : /\ d = [topology |-> d.topology, manual |-> m, generated |-> g,
                                 script |-> s, generator |-> r]
                         /\ Whole(d.topology, count)
BY DEF DraftOK

\* What the panel lets one publish to, and in whose name.
LEMMA MayPublishTo ==
  ASSUME RabbitOK, NEW exchange, MayPublish(exchange)
  PROVE  exchange \in IdSet /\ FirstId(draft.topology["publisher"]) \in IdSet
<1>1. {"exchange", "publisher"} \subseteq DraftKinds
  BY DEF DraftKinds, NodeKinds
<1>2. \A kind \in DraftKinds : Minted(draft.topology[kind], kind, rabbitIds)
  BY DEF RabbitOK, DraftOK, Whole
<1> QED
  BY <1>1, <1>2, IdsOfKind DEF MayPublish

LEMMA PublishOK ==
  ASSUME RabbitOK, NEW exchange, NEW at \in Times, Publish(exchange, at)
  PROVE  rabbitIds' \in Nat /\ DraftOK(draft', rabbitIds')
<1> DEFINE line == [at |-> at, exchangeId |-> exchange, publisherId |-> FirstId(draft.topology["publisher"])]
           manual == Append(draft.manual, line)
<1>1. rabbitIds \in Nat /\ DraftOK(draft, rabbitIds)
  BY DEF RabbitOK
<1>2. draft.manual \in Seq(LineSet) /\ draft.generated \in Seq(LineSet) /\ draft.generator \in GeneratorSet
  BY <1>1 DEF DraftOK
<1>3. line \in LineSet
  <2>1. at \in Nat
    BY SandboxAssumption
  <2>2. exchange \in IdSet /\ FirstId(draft.topology["publisher"]) \in IdSet
    BY MayPublishTo DEF Publish
  <2> QED
    BY <2>1, <2>2 DEF LineSet
<1>4. manual \in Seq(LineSet)
  BY <1>2, <1>3
<1>5. draft' = Scripted(draft, manual, draft.generator, draft.generated) /\ rabbitIds' = rabbitIds
  BY DEF Publish
<1> HIDE DEF manual
<1>6. DraftOK(Scripted(draft, manual, draft.generator, draft.generated), rabbitIds)
  BY <1>1, <1>2, <1>4, PartsOfDraft, ScriptedOK
<1> QED
  BY <1>1, <1>5, <1>6

LEMMA SetGeneratorOK ==
  ASSUME RabbitOK, NEW exchange, NEW rate \in Rates, SetGenerator(exchange, rate)
  PROVE  rabbitIds' \in Nat /\ DraftOK(draft', rabbitIds')
<1> DEFINE generator == [rate |-> rate, exchange |-> exchange]
           lines == ExpandGenerator(generator, draft.topology)
<1>1. rabbitIds \in Nat /\ DraftOK(draft, rabbitIds)
  BY DEF RabbitOK
<1>2. draft.manual \in Seq(LineSet) /\ Whole(draft.topology, rabbitIds)
  BY <1>1 DEF DraftOK
<1>3. generator \in GeneratorSet
  BY MayPublishTo, SandboxAssumption DEF SetGenerator, GeneratorSet
<1>4. draft' = Scripted(draft, draft.manual, generator, lines) /\ rabbitIds' = rabbitIds
  BY DEF SetGenerator
<1> HIDE DEF generator
<1>5. lines \in Seq(LineSet)
  BY <1>2, <1>3, ExpandedLines
<1> HIDE DEF lines
<1>6. DraftOK(Scripted(draft, draft.manual, generator, lines), rabbitIds)
  BY <1>1, <1>2, <1>3, <1>5, PartsOfDraft, ScriptedOK
<1> QED
  BY <1>1, <1>4, <1>6

\* Restoring: what was kept is whole, and what is minted from then on is new.
LEMMA LoadOK ==
  ASSUME RabbitOK, Load
  PROVE  rabbitIds' \in Nat /\ DraftOK(draft', rabbitIds')
<1>1. rabbitIds \in Nat /\ DraftOK(draft, rabbitIds)
  BY DEF RabbitOK
<1>2. DraftOK(EmptyDraft, rabbitIds)
  <2>1. Whole(EmptyTopology, rabbitIds)
    BY <1>1, EmptyIsWhole, CountGoesOn
  <2> QED
    BY <2>1, EmptyDraftOK DEF DraftOK, EmptyDraft
<1>3. CASE saved = Nothing
  BY <1>1, <1>3 DEF Load, Nothing
<1>4. CASE saved = Broken
  BY <1>1, <1>2, <1>4 DEF Load, Broken
<1>5. CASE saved \notin {Nothing, Broken}
  <2> DEFINE t == saved.topology
             d == [draft EXCEPT !.topology = t]
             lines == ExpandGenerator(saved.generator, t)
  <2>1. PICK count \in Nat : Whole(t, count)
    BY <1>5 DEF RabbitOK, SavedOK
  <2>2. saved.kind = "draft" /\ saved.manual \in Seq(LineSet) /\ saved.generator \in GeneratorSet
    BY <1>5 DEF RabbitOK, SavedOK
  <2>3. draft' = Scripted(d, saved.manual, saved.generator, lines) /\ rabbitIds' = SeedCounterFrom(t)
    BY <2>2 DEF Load
  <2> HIDE DEF t
  <2>4. SeedCounterFrom(t) \in Nat /\ Whole(t, SeedCounterFrom(t))
    BY <1>1, <2>1, SeededAbove
  <2>5. DraftOK(d, SeedCounterFrom(t)) /\ d.topology = t
    <3>1. d.topology = t
      BY <1>1 DEF DraftOK
    <3> QED
      BY <1>1, <2>4, <3>1, DrawnOK
  <2>6. lines \in Seq(LineSet)
    BY <2>1, <2>2, ExpandedLines
  <2> HIDE DEF d, lines
  <2>7. DraftOK(Scripted(d, saved.manual, saved.generator, lines), SeedCounterFrom(t))
    BY <2>2, <2>5, <2>6, PartsOfDraft, ScriptedOK
  <2> QED
    BY <2>3, <2>4, <2>7
<1> QED
  BY <1>3, <1>4, <1>5

\* Every edit.
LEMMA EditsOK ==
  ASSUME RabbitOK, Edits
  PROVE  rabbitIds' \in Nat /\ DraftOK(draft', rabbitIds')
<1>1. ASSUME NEW kind \in NodeKinds, AddNode(kind) PROVE rabbitIds' \in Nat /\ DraftOK(draft', rabbitIds')
  BY <1>1, AddNodeOK
<1>2. ASSUME NEW source, NEW target \in Nodes, target.kind # "publisher", Connect(source, target)
      PROVE  rabbitIds' \in Nat /\ DraftOK(draft', rabbitIds')
  <2>1. CASE source \in Exchanges /\ AddBinding(source, target)
    BY <1>2, <2>1, AddBindingOK
  <2>2. CASE UpdateNode(target, "queueId", source)
    BY <2>2, UpdateNodeOK
  <2> QED
    BY <1>2, <2>1, <2>2 DEF Connect, Exchanges
<1>3. ASSUME NEW id, NEW value, NEW field \in {"ttl", "deadLetterExchange", "queueId"},
             UpdateNode(id, field, value)
      PROVE  rabbitIds' \in Nat /\ DraftOK(draft', rabbitIds')
  BY <1>3, UpdateNodeOK
<1>4. ASSUME NEW id, RemoveNode(id) \/ RemoveBinding(id)
      PROVE  rabbitIds' \in Nat /\ DraftOK(draft', rabbitIds')
  BY <1>4, RemoveNodeOK, RemoveBindingOK
<1>5. ASSUME NEW x, NEW at \in Times, Publish(x, at) PROVE rabbitIds' \in Nat /\ DraftOK(draft', rabbitIds')
  BY <1>5, PublishOK
<1>6. ASSUME NEW x, NEW rate \in Rates, SetGenerator(x, rate)
      PROVE  rabbitIds' \in Nat /\ DraftOK(draft', rabbitIds')
  BY <1>6, SetGeneratorOK
<1>7. ASSUME ResetDraft PROVE rabbitIds' \in Nat /\ DraftOK(draft', rabbitIds')
  <2>1. rabbitIds \in Nat
    BY DEF RabbitOK
  <2>2. Whole(EmptyTopology, rabbitIds)
    BY <2>1, EmptyIsWhole, CountGoesOn
  <2>3. DraftOK(EmptyDraft, rabbitIds)
    BY <2>2, EmptyDraftOK DEF DraftOK, EmptyDraft
  <2> QED
    BY <1>7, <2>1, <2>3 DEF ResetDraft
<1>8. CASE Mints
  BY <1>1, <1>2, <1>8 DEF Mints
<1>9. CASE Configures
  BY <1>2, <1>3, <1>9 DEF Configures
<1> QED
  BY <1>4, <1>5, <1>6, <1>7, <1>8, <1>9 DEF Edits

\* Every step in the sandbox of RabbitMQ.
LEMMA RabbitKept ==
  ASSUME RabbitOK, RabbitNext
  PROVE  RabbitOK'
<1>1. CASE Edits /\ UNCHANGED <<saved, open>>
  BY <1>1, EditsOK DEF RabbitOK, SavedOK
<1>2. CASE Save
  <2>1. draft' = draft /\ rabbitIds' = rabbitIds
    BY <1>2 DEF Save
  <2>2. saved' = [kind |-> "draft", topology |-> draft.topology, manual |-> draft.manual,
                  generator |-> draft.generator]
    BY <1>2 DEF Save
  <2>3. SavedOK'
    BY <2>2 DEF RabbitOK, DraftOK, SavedOK
  <2> QED
    BY <2>1, <2>3 DEF RabbitOK
<1>3. CASE OpenPanel
  <2>1. rabbitIds' \in Nat /\ DraftOK(draft', rabbitIds')
    BY <1>3, LoadOK DEF OpenPanel, RabbitOK
  <2> QED
    BY <1>3, <2>1 DEF RabbitOK, SavedOK, OpenPanel
<1>4. CASE ClosePanel
  <2>1. rabbitIds' \in Nat /\ DraftOK(draft', rabbitIds')
    BY <1>4, EmptyDraftOK DEF ClosePanel, RabbitOK
  <2> QED
    BY <1>4, <2>1 DEF RabbitOK, SavedOK, ClosePanel
<1> QED
  BY <1>1, <1>2, <1>3, <1>4 DEF RabbitNext

\* What the invariant says of a draft is what its property asks.
LEMMA DraftIsWhole ==
  ASSUME NEW count, DraftOK(draft, count)
  PROVE  /\ ToldApart(draft.topology) /\ RabbitErrorsAreOpenEnds
         /\ IsMergeOf(draft.script, draft.manual, draft.generated)
<1> DEFINE t == draft.topology
<1>1. Whole(t, count) /\ IsMergeOf(draft.script, draft.manual, draft.generated)
  BY MergingMerges DEF DraftOK
<1> HIDE DEF t
<1>2. ToldApart(t)
  <2>1. DOMAIN t = DraftKinds
    BY <1>1 DEF Whole
  <2> SUFFICES ASSUME NEW k \in DraftKinds, NEW l \in DraftKinds,
                      NEW i \in DOMAIN t[k], NEW j \in DOMAIN t[l], t[k][i].id = t[l][j].id
               PROVE  k = l /\ i = j
    BY <2>1 DEF ToldApart
  <2>2. t[k][i].id \in IdsIn(t[k]) /\ t[l][j].id \in IdsIn(t[l])
    BY DEF IdsIn
  <2>3. k = l
    BY <1>1, <2>2, IdsOfKind DEF Whole
  <2> QED
    BY <1>1, <2>3 DEF Whole, Minted, Apart
<1>3. ASSUME NEW e \in Errors(ValidateTopology(t))
      PROVE  \/ e.code \in {"consumer-missing-queue", "dead-letter-exchange-missing"}
             \/ e.code = "binding-missing-destination" /\ e.node \in IdsIn(t["consumer"])
  <2>1. e \in ValidateTopology(t) /\ e.severity = "error"
    BY DEF Errors
  <2>2. CASE e \in BindingIssues(t)
    <3>1. \A b \in Elements(t["binding"]) :
            /\ b.exchangeId \in IdsIn(t["exchange"])
            /\ b.destinationId \in Known(t, b) \cup IdsIn(t["consumer"])
      BY <1>1 DEF Whole, Joined, Known
    <3>2. PICK b \in Elements(t["binding"]) :
            b.destinationId \notin Known(t, b) /\ e = Error("binding-missing-destination", b.destinationId)
      BY <2>2, <3>1 DEF BindingIssues
    <3> QED
      BY <3>1, <3>2 DEF Error
  <2>3. CASE e \in QueueIssues(t)
    BY <2>1, <2>3 DEF QueueIssues, Error, Warning
  <2>4. CASE e \in ConsumerIssues(t)
    BY <2>4 DEF ConsumerIssues, Error
  <2> QED
    BY <2>1, <2>2, <2>3, <2>4 DEF ValidateTopology
<1> QED
  BY <1>1, <1>2, <1>3 DEF RabbitErrorsAreOpenEnds, t

-----------------------------------------------------------------------------
(* Kafka drafts *)

\* Nodes of one kind, with ids that the count has reached.
Counted(list, kind, count) ==
  /\ IsList(list) /\ Apart(list)
  /\ \A x \in Elements(list) : x.id \in [kind : {kind}, n : Nat] /\ x.id.n <= count

\* Lines of clicks, each later than the one before.
Clicked(script, producers, names) ==
  /\ script \in Seq([at : Nat, producerId : producers, topic : names])
  /\ \A i, j \in DOMAIN script : i < j => script[i].at < script[j].at

\* What each consumer is subscribed to is there.
SubscribedTo(consumers, names) ==
  \A x \in Elements(consumers) :
    /\ x = [id |-> x.id, subscriptions |-> x.subscriptions]
    /\ IsList(x.subscriptions) /\ Elements(x.subscriptions) \subseteq names

NamesOf(topics) == {t.name : t \in Elements(topics)}

ClusterFields ==
  {"brokers", "topics", "producers", "consumers", "controllerBrokerId", "script", "producerTopics"}

ClusterOK ==
  /\ kafkaIds \in Nat
  /\ cluster = [f \in ClusterFields |-> cluster[f]]
  /\ Counted(cluster.brokers, "broker", kafkaIds)
  /\ Counted(cluster.producers, "producer", kafkaIds)
  /\ Counted(cluster.consumers, "consumer", kafkaIds)
  /\ cluster.brokers # <<>> => cluster.controllerBrokerId \in IdsIn(cluster.brokers)
  /\ cluster.brokers = <<>> => cluster.controllerBrokerId = NoId
  /\ IsList(cluster.topics)
  /\ SubscribedTo(cluster.consumers, NamesOf(cluster.topics))
  /\ Clicked(cluster.script, IdsIn(cluster.producers), NamesOf(cluster.topics))

LEMMA NamesAreDrawn == TopicsDrawn = NamesOf(cluster.topics)
BY DEF TopicsDrawn, NamesOf, Elements

\* A list takes a node with the next id.
LEMMA CountedMore ==
  ASSUME NEW list, NEW kind, NEW count \in Nat, Counted(list, kind, count),
         NEW x, x.id = [kind |-> kind, n |-> count + 1]
  PROVE  /\ Counted(Append(list, x), kind, count + 1)
         /\ Elements(Append(list, x)) = Elements(list) \cup {x}
         /\ Append(list, x) # <<>>
<1>1. list \in Seq(Elements(list)) /\ Apart(list)
  BY DEF Counted, IsList
<1>2. \A y \in Elements(list) : y.id \in [kind : {kind}, n : Nat] /\ y.id.n <= count
  BY DEF Counted
<1>3. \A y \in Elements(list) : y.id.n \in Nat /\ y.id.n <= count
  BY <1>2
<1>4. x.id.n = count + 1 /\ x.id \in [kind : {kind}, n : Nat]
  OBVIOUS
<1>5. \A y \in Elements(list) : y.id # x.id
  BY <1>3, <1>4
<1>6. Elements(Append(list, x)) = Elements(list) \cup {x}
  BY <1>1, ElementsAppended
<1>7. Apart(Append(list, x))
  BY <1>1, <1>5, AppendedApart
<1>8. IsList(Append(list, x)) /\ Append(list, x) # <<>>
  <2>1. Append(list, x) \in Seq(Elements(list) \cup {x})
    BY <1>1
  <2>2. Append(list, x) # <<>>
    BY <1>6 DEF Elements
  <2> QED
    BY <2>1, <2>2, ListOfElements
<1>9. \A y \in Elements(list) : y.id.n <= count + 1
  BY <1>3
<1> QED
  BY <1>2, <1>4, <1>6, <1>7, <1>8, <1>9 DEF Counted

LEMMA CountedOn ==
  ASSUME NEW list, NEW kind, NEW count \in Nat, NEW more \in Nat, count <= more, Counted(list, kind, count)
  PROVE  Counted(list, kind, more)
<1>1. ASSUME NEW x \in Elements(list) PROVE x.id.n <= more
  <2>1. x.id \in [kind : {kind}, n : Nat] /\ x.id.n <= count
    BY DEF Counted
  <2>2. x.id.n \in Nat
    BY <2>1
  <2> QED
    BY <2>1, <2>2
<1> QED
  BY <1>1 DEF Counted

\* More producers and more topics take nothing away from a script.
LEMMA ClickedAmongMore ==
  ASSUME NEW script, NEW producers, NEW names, Clicked(script, producers, names),
         NEW others, NEW more, producers \subseteq others, names \subseteq more
  PROVE  Clicked(script, others, more)
<1> DEFINE A == [at : Nat, producerId : producers, topic : names]
           B == [at : Nat, producerId : others, topic : more]
<1>1. A \subseteq B /\ script \in Seq(A)
  BY DEF Clicked
<1>2. script \in Seq(B)
  <2> HIDE DEF A, B
  <2> QED
    BY <1>1
<1> QED
  BY <1>2 DEF Clicked

\* Two lists with different ids, one behind the other.
LEMMA ApartTogether ==
  ASSUME NEW s, NEW r, IsList(s), IsList(r), Apart(s), Apart(r), IdsIn(s) \cap IdsIn(r) = {}
  PROVE  /\ IsList(s \o r) /\ Apart(s \o r) /\ IdsIn(s \o r) = IdsIn(s) \cup IdsIn(r)
<1> DEFINE t == s \o r
           m == Len(s)
           n == Len(r)
<1>1. m \in Nat /\ n \in Nat /\ DOMAIN s = 1 .. m /\ DOMAIN r = 1 .. n
  BY DEF IsList
<1>2. t \in Seq(Elements(s) \cup Elements(r)) /\ DOMAIN t = 1 .. m + n
  BY DEF IsList
<1>3. \A i \in 1 .. m + n : t[i] = IF i <= m THEN s[i] ELSE r[i - m]
  BY DEF IsList
<1> HIDE DEF t, m, n
<1>4. IsList(t)
  BY <1>2, ListOfElements
<1>5. \A i \in 1 .. m : i \in 1 .. m + n /\ t[i] = s[i]
  BY <1>1, <1>3
<1>6. \A j \in 1 .. n : j + m \in 1 .. m + n /\ t[j + m] = r[j]
  BY <1>1, <1>3
<1>7. \A i \in 1 .. m + n : i \in 1 .. m \/ (i - m \in 1 .. n /\ t[i] = r[i - m])
  BY <1>1, <1>3
<1>8. IdsIn(t) = IdsIn(s) \cup IdsIn(r)
  <2>1. \A id \in IdsIn(t) : id \in IdsIn(s) \cup IdsIn(r)
    <3> SUFFICES ASSUME NEW i \in 1 .. m + n PROVE t[i].id \in IdsIn(s) \cup IdsIn(r)
      BY <1>2 DEF IdsIn
    <3> QED
      BY <1>1, <1>5, <1>7 DEF IdsIn
  <2>2. \A id \in IdsIn(s) : id \in IdsIn(t)
    BY <1>1, <1>2, <1>5 DEF IdsIn
  <2>3. \A id \in IdsIn(r) : id \in IdsIn(t)
    BY <1>1, <1>2, <1>6 DEF IdsIn
  <2> QED
    BY <2>1, <2>2, <2>3
<1>9. Apart(t)
  <2> SUFFICES ASSUME NEW i \in 1 .. m + n, NEW j \in 1 .. m + n, t[i].id = t[j].id
               PROVE  i = j
    BY <1>2 DEF Apart
  <2>1. CASE i \in 1 .. m /\ j \in 1 .. m
    BY <1>1, <1>5, <2>1 DEF Apart
  <2>2. CASE i - m \in 1 .. n /\ j - m \in 1 .. n
    <3>1. r[i - m].id = r[j - m].id
      BY <1>1, <1>3, <2>2
    <3>2. i - m = j - m
      BY <1>1, <2>2, <3>1 DEF Apart
    <3> QED
      BY <1>1, <3>2
  <2>3. ASSUME NEW k \in 1 .. m, NEW l \in 1 .. n, s[k].id = r[l].id PROVE FALSE
    <3>1. s[k].id \in IdsIn(s) /\ r[l].id \in IdsIn(r)
      BY <1>1 DEF IdsIn
    <3> QED
      BY <2>3, <3>1
  <2>4. CASE i \in 1 .. m /\ j - m \in 1 .. n
    <3>1. t[i] = s[i] /\ t[j] = r[j - m]
      BY <1>1, <1>3, <2>4
    <3> QED
      BY <2>3, <2>4, <3>1
  <2>5. CASE i - m \in 1 .. n /\ j \in 1 .. m
    <3>1. t[i] = r[i - m] /\ t[j] = s[j]
      BY <1>1, <1>3, <2>5
    <3> QED
      BY <2>3, <2>5, <3>1
  <2> QED
    BY <1>7, <2>1, <2>2, <2>4, <2>5
<1> QED
  BY <1>4, <1>8, <1>9 DEF t

\* Lists without an element have whatever their elements ought to have.
LEMMA EmptyLists ==
  ASSUME NEW count \in Nat
  PROVE  /\ \A kind : Counted(<<>>, kind, count)
         /\ IsList(<<>>) /\ \A names : SubscribedTo(<<>>, names)
         /\ \A producers, names : Clicked(<<>>, producers, names)
         /\ EmptyCluster = [f \in ClusterFields |-> EmptyCluster[f]]
<1>1. \A kind : Counted(<<>>, kind, count)
  BY DEF Counted, IsList, Apart, Elements
<1>2. IsList(<<>>) /\ \A names : SubscribedTo(<<>>, names)
  BY DEF IsList, SubscribedTo, Elements
<1>3. \A producers, names : Clicked(<<>>, producers, names)
  BY DEF Clicked
<1>4. EmptyCluster = [f \in ClusterFields |-> EmptyCluster[f]]
  BY DEF EmptyCluster, ClusterFields
<1> QED
  BY <1>1, <1>2, <1>3, <1>4

\* A new store, and one that is emptied.
LEMMA EmptyClusterOK ==
  /\ cluster = EmptyCluster /\ kafkaIds \in Nat => ClusterOK
  /\ cluster' = EmptyCluster /\ kafkaIds' \in Nat => ClusterOK'
<1>1. /\ EmptyCluster.brokers = <<>> /\ EmptyCluster.producers = <<>> /\ EmptyCluster.consumers = <<>>
      /\ EmptyCluster.topics = <<>> /\ EmptyCluster.script = <<>>
      /\ EmptyCluster.controllerBrokerId = NoId
  BY DEF EmptyCluster
<1>2. cluster = EmptyCluster /\ kafkaIds \in Nat => ClusterOK
  BY <1>1, EmptyLists DEF ClusterOK
<1>3. cluster' = EmptyCluster /\ kafkaIds' \in Nat => ClusterOK'
  BY <1>1, EmptyLists DEF ClusterOK
<1> QED
  BY <1>2, <1>3

\* A new node, of whichever kind.
LEMMA NodeOfClusterOK ==
  ASSUME ClusterOK, kafkaIds' = kafkaIds + 1, AddBroker \/ AddProducer \/ AddConsumer
  PROVE  ClusterOK'
<1>1. /\ kafkaIds \in Nat /\ kafkaIds' \in Nat /\ kafkaIds <= kafkaIds'
      /\ cluster = [f \in ClusterFields |-> cluster[f]]
      /\ Counted(cluster.brokers, "broker", kafkaIds)
      /\ Counted(cluster.producers, "producer", kafkaIds)
      /\ Counted(cluster.consumers, "consumer", kafkaIds)
  BY DEF ClusterOK
<1>2. /\ Counted(cluster.brokers, "broker", kafkaIds') /\ Counted(cluster.producers, "producer", kafkaIds')
      /\ Counted(cluster.consumers, "consumer", kafkaIds')
  BY <1>1, CountedOn
<1>3. CASE AddBroker
  <2> DEFINE x == [id |-> KafkaId("broker")]
             list == Append(cluster.brokers, x)
  <2>1. x.id = [kind |-> "broker", n |-> kafkaIds + 1]
    BY DEF KafkaId
  <2>2. cluster' = [cluster EXCEPT !.brokers = list, !.controllerBrokerId = Controller]
    BY <1>3 DEF AddBroker
  <2> HIDE DEF x
  <2>3. /\ Counted(list, "broker", kafkaIds + 1) /\ Elements(list) = Elements(cluster.brokers) \cup {x}
        /\ list # <<>>
    BY <1>1, <2>1, CountedMore
  <2> HIDE DEF list
  <2>4. /\ cluster' = [f \in ClusterFields |-> cluster'[f]]
        /\ cluster'.brokers = list /\ cluster'.controllerBrokerId = Controller
        /\ \A f \in ClusterFields \ {"brokers", "controllerBrokerId"} : cluster'[f] = cluster[f]
    BY <1>1, <2>2 DEF ClusterFields
  <2>5. {"topics", "producers", "consumers", "script"} \subseteq ClusterFields \ {"brokers", "controllerBrokerId"}
    BY DEF ClusterFields
  <2>6. Controller \in IdsIn(list)
    <3>1. IdsIn(list) = IdsIn(cluster.brokers) \cup {x.id} /\ x.id = KafkaId("broker")
      BY <2>3, IdsOfElements DEF x
    <3>2. cluster.brokers = <<>> => cluster.controllerBrokerId = NoId
      BY DEF ClusterOK
    <3>3. cluster.brokers # <<>> => cluster.controllerBrokerId \in IdsIn(cluster.brokers)
      BY DEF ClusterOK
    <3> QED
      BY <3>1, <3>2, <3>3 DEF Controller
  <2> QED
    BY <1>1, <1>2, <2>3, <2>4, <2>5, <2>6 DEF ClusterOK
<1>4. CASE AddProducer
  <2> DEFINE x == [id |-> KafkaId("producer")]
             list == Append(cluster.producers, x)
  <2>1. x.id = [kind |-> "producer", n |-> kafkaIds + 1]
    BY DEF KafkaId
  <2>2. cluster' = [cluster EXCEPT !.producers = list]
    BY <1>4 DEF AddProducer
  <2> HIDE DEF x
  <2>3. Counted(list, "producer", kafkaIds + 1) /\ Elements(list) = Elements(cluster.producers) \cup {x}
    BY <1>1, <2>1, CountedMore
  <2> HIDE DEF list
  <2>4. /\ cluster' = [f \in ClusterFields |-> cluster'[f]] /\ cluster'.producers = list
        /\ \A f \in ClusterFields \ {"producers"} : cluster'[f] = cluster[f]
    BY <1>1, <2>2 DEF ClusterFields
  <2>5. {"brokers", "controllerBrokerId", "topics", "consumers", "script"} \subseteq ClusterFields \ {"producers"}
    BY DEF ClusterFields
  <2>6. IdsIn(cluster.producers) \subseteq IdsIn(list)
    BY <2>3, IdsOfElements
  <2>7. Clicked(cluster.script, IdsIn(list), NamesOf(cluster.topics))
    BY <2>6, ClickedAmongMore DEF ClusterOK
  <2> QED
    BY <1>1, <1>2, <2>3, <2>4, <2>5, <2>7 DEF ClusterOK
<1>5. CASE AddConsumer
  <2> DEFINE x == [id |-> KafkaId("consumer"), subscriptions |-> <<>>]
             list == Append(cluster.consumers, x)
  <2>1. x.id = [kind |-> "consumer", n |-> kafkaIds + 1]
    BY DEF KafkaId
  <2>2. cluster' = [cluster EXCEPT !.consumers = list]
    BY <1>5 DEF AddConsumer
  <2>3. x = [id |-> x.id, subscriptions |-> x.subscriptions] /\ x.subscriptions = <<>>
    OBVIOUS
  <2> HIDE DEF x
  <2>4. Counted(list, "consumer", kafkaIds + 1) /\ Elements(list) = Elements(cluster.consumers) \cup {x}
    BY <1>1, <2>1, CountedMore
  <2> HIDE DEF list
  <2>5. /\ cluster' = [f \in ClusterFields |-> cluster'[f]] /\ cluster'.consumers = list
        /\ \A f \in ClusterFields \ {"consumers"} : cluster'[f] = cluster[f]
    BY <1>1, <2>2 DEF ClusterFields
  <2>6. {"brokers", "controllerBrokerId", "topics", "producers", "script"} \subseteq ClusterFields \ {"consumers"}
    BY DEF ClusterFields
  <2>7. SubscribedTo(list, NamesOf(cluster.topics))
    <3>1. IsList(<<>>) /\ Elements(<<>>) = {}
      BY DEF IsList, Elements
    <3> QED
      BY <2>3, <2>4, <3>1 DEF SubscribedTo, ClusterOK
  <2> QED
    BY <1>1, <1>2, <2>4, <2>5, <2>6, <2>7 DEF ClusterOK
<1> QED
  BY <1>3, <1>4, <1>5

\* Topics that have no fewer names.
LEMMA TopicsOK ==
  ASSUME ClusterOK, kafkaIds' = kafkaIds, NEW list, IsList(list),
         NamesOf(cluster.topics) \subseteq NamesOf(list), cluster' = [cluster EXCEPT !.topics = list]
  PROVE  ClusterOK'
<1>1. cluster = [f \in ClusterFields |-> cluster[f]]
  BY DEF ClusterOK
<1>2. /\ cluster' = [f \in ClusterFields |-> cluster'[f]] /\ cluster'.topics = list
      /\ \A f \in ClusterFields \ {"topics"} : cluster'[f] = cluster[f]
  BY <1>1 DEF ClusterFields
<1>3. {"brokers", "controllerBrokerId", "producers", "consumers", "script"} \subseteq ClusterFields \ {"topics"}
  BY DEF ClusterFields
<1>4. Clicked(cluster.script, IdsIn(cluster.producers), NamesOf(list))
  BY ClickedAmongMore DEF ClusterOK
<1>5. SubscribedTo(cluster.consumers, NamesOf(list))
  BY DEF ClusterOK, SubscribedTo
<1> QED
  BY <1>2, <1>3, <1>4, <1>5 DEF ClusterOK

LEMMA AddTopicOK ==
  ASSUME ClusterOK, kafkaIds' = kafkaIds, NEW name, NEW p, NEW r, AddTopic(name, p, r)
  PROVE  ClusterOK'
<1> DEFINE x == [name |-> name, partitions |-> p, replicationFactor |-> r]
           list == Append(cluster.topics, x)
<1>1. cluster' = [cluster EXCEPT !.topics = list]
  BY DEF AddTopic
<1>2. cluster.topics \in Seq(Elements(cluster.topics))
  BY DEF ClusterOK, IsList
<1> HIDE DEF x
<1>3. Elements(list) = Elements(cluster.topics) \cup {x}
  BY <1>2, ElementsAppended
<1>4. list \in Seq(Elements(cluster.topics) \cup {x})
  BY <1>2
<1>5. IsList(list)
  BY <1>4, ListOfElements
<1> HIDE DEF list
<1>6. NamesOf(cluster.topics) \subseteq NamesOf(list)
  BY <1>3 DEF NamesOf
<1> QED
  BY <1>1, <1>5, <1>6, TopicsOK

LEMMA SetCountOK ==
  ASSUME ClusterOK, kafkaIds' = kafkaIds, NEW name, NEW field \in {"partitions", "replicationFactor"},
         NEW count, SetCount(name, field, count)
  PROVE  ClusterOK'
<1> DEFINE s == cluster.topics
           p == [i \in DOMAIN s |-> IF s[i].name = name THEN [s[i] EXCEPT ![field] = count] ELSE s[i]]
<1>1. cluster' = [cluster EXCEPT !.topics = p]
  BY DEF SetCount
<1>2. s \in Seq(Elements(s))
  BY DEF ClusterOK, IsList
<1> HIDE DEF s
<1>3. DOMAIN p = 1 .. Len(s) /\ Len(s) \in Nat /\ DOMAIN s = 1 .. Len(s)
  BY <1>2
<1>4. \A i \in 1 .. Len(s) : p[i].name = s[i].name
  BY <1>3
<1>5. p = [i \in 1 .. Len(s) |-> p[i]]
  BY <1>3
<1> HIDE DEF p
<1>6. IsList(p)
  <2>1. \A i \in 1 .. Len(s) : p[i] \in Elements(p)
    BY <1>3 DEF Elements
  <2>2. p \in Seq(Elements(p))
    BY <1>3, <1>5, <2>1
  <2> QED
    BY <2>2 DEF IsList
<1>7. NamesOf(s) \subseteq NamesOf(p)
  BY <1>3, <1>4 DEF NamesOf, Elements
<1> QED
  BY <1>1, <1>6, <1>7, TopicsOK DEF s

LEMMA AddProducerTopicOK ==
  ASSUME ClusterOK, kafkaIds' = kafkaIds, NEW producer, NEW name, AddProducerTopic(producer, name)
  PROVE  ClusterOK'
<1>1. cluster = [f \in ClusterFields |-> cluster[f]]
  BY DEF ClusterOK
<1>2. /\ cluster' = [f \in ClusterFields |-> cluster'[f]]
      /\ \A f \in ClusterFields \ {"producerTopics"} : cluster'[f] = cluster[f]
  BY <1>1 DEF ClusterFields, AddProducerTopic
<1>3. {"brokers", "controllerBrokerId", "topics", "producers", "consumers", "script"}
        \subseteq ClusterFields \ {"producerTopics"}
  BY DEF ClusterFields
<1> QED
  BY <1>2, <1>3 DEF ClusterOK

LEMMA AddConsumerSubscriptionOK ==
  ASSUME ClusterOK, kafkaIds' = kafkaIds, NEW consumer, NEW name \in NamesOf(cluster.topics),
         AddConsumerSubscription(consumer, name)
  PROVE  ClusterOK'
<1> DEFINE s == cluster.consumers
           more(x) == [x EXCEPT !.subscriptions = Append(@, name)]
           p == WithSubscription(s, consumer, name)
           names == NamesOf(cluster.topics)
<1>1. cluster = [f \in ClusterFields |-> cluster[f]] /\ cluster' = [cluster EXCEPT !.consumers = p]
  <2>1. cluster = [f \in ClusterFields |-> cluster[f]]
    BY DEF ClusterOK
  <2>2. cluster' = [cluster EXCEPT !.consumers = p]
    BY DEF AddConsumerSubscription
  <2> QED
    BY <2>1, <2>2
<1>2. Counted(s, "consumer", kafkaIds) /\ SubscribedTo(s, names) /\ name \in names
  BY DEF ClusterOK
<1>3. s \in Seq(Elements(s)) /\ Apart(s)
  BY <1>2 DEF Counted, IsList
<1> HIDE DEF s, names
<1>4. ASSUME NEW x, x = [id |-> x.id, subscriptions |-> x.subscriptions],
             IsList(x.subscriptions), Elements(x.subscriptions) \subseteq names
      PROVE  /\ more(x) = [id |-> x.id, subscriptions |-> Append(x.subscriptions, name)]
             /\ IsList(Append(x.subscriptions, name))
             /\ Elements(Append(x.subscriptions, name)) \subseteq names
  <2>1. x.subscriptions \in Seq(Elements(x.subscriptions))
    BY <1>4 DEF IsList
  <2> DEFINE l == x.subscriptions
             k == x.id
  <2>2. x = [id |-> k, subscriptions |-> l]
    BY <1>4
  <2> HIDE DEF l, k
  <2>3. more(x) = [id |-> k, subscriptions |-> Append(l, name)]
    BY <2>2
  <2>4. Elements(Append(l, name)) = Elements(l) \cup {name}
    BY <2>1, ElementsAppended DEF l
  <2>5. Append(l, name) \in Seq(Elements(l) \cup {name})
    BY <2>1 DEF l
  <2>6. IsList(Append(l, name))
    BY <2>5, ListOfElements
  <2> QED
    BY <1>2, <1>4, <2>3, <2>4, <2>6 DEF l, k
<1>5. ASSUME NEW i \in DOMAIN s
      PROVE  /\ p[i].id = s[i].id /\ p[i] = [id |-> p[i].id, subscriptions |-> p[i].subscriptions]
             /\ IsList(p[i].subscriptions) /\ Elements(p[i].subscriptions) \subseteq names
  <2>1. /\ s[i] = [id |-> s[i].id, subscriptions |-> s[i].subscriptions]
        /\ IsList(s[i].subscriptions) /\ Elements(s[i].subscriptions) \subseteq names
    BY <1>2 DEF SubscribedTo, Elements
  <2>2. p[i] \in {s[i], more(s[i])}
    BY DEF WithSubscription
  <2>3. CASE p[i] = s[i]
    BY <2>1, <2>3
  <2>4. CASE p[i] = more(s[i])
    <3>1. /\ p[i] = [id |-> s[i].id, subscriptions |-> Append(s[i].subscriptions, name)]
          /\ IsList(Append(s[i].subscriptions, name)) /\ Elements(Append(s[i].subscriptions, name)) \subseteq names
      BY <1>4, <2>1, <2>4
    <3> HIDE DEF p
    <3>2. p[i].id = s[i].id /\ p[i].subscriptions = Append(s[i].subscriptions, name)
      BY <3>1
    <3> QED
      BY <3>1, <3>2
  <2> QED
    BY <2>2, <2>3, <2>4
<1>6. p = [i \in 1 .. Len(s) |-> p[i]] /\ DOMAIN p = 1 .. Len(s) /\ DOMAIN s = 1 .. Len(s) /\ Len(s) \in Nat
  BY <1>3 DEF WithSubscription
<1> HIDE DEF p, more
<1>7. IsList(p)
  <2>1. \A i \in 1 .. Len(s) : p[i] \in Elements(p)
    BY <1>6 DEF Elements
  <2>2. p \in Seq(Elements(p))
    BY <1>6, <2>1
  <2> QED
    BY <2>2 DEF IsList
<1>8. Apart(p)
  BY <1>3, <1>5, <1>6 DEF Apart
<1>9. \A x \in Elements(p) : x.id \in [kind : {"consumer"}, n : Nat] /\ x.id.n <= kafkaIds
  <2> SUFFICES ASSUME NEW i \in DOMAIN s
               PROVE  s[i].id \in [kind : {"consumer"}, n : Nat] /\ s[i].id.n <= kafkaIds
    BY <1>5, <1>6 DEF Elements
  <2>1. s[i] \in Elements(s)
    BY DEF Elements
  <2> QED
    BY <1>2, <2>1 DEF Counted
<1>10. SubscribedTo(p, names)
  <2>1. \A x \in Elements(p) : \E i \in DOMAIN s : x = p[i]
    BY <1>6 DEF Elements
  <2> QED
    BY <1>5, <2>1 DEF SubscribedTo
<1>11. /\ cluster' = [f \in ClusterFields |-> cluster'[f]] /\ cluster'.consumers = p
       /\ \A f \in ClusterFields \ {"consumers"} : cluster'[f] = cluster[f]
  BY <1>1 DEF ClusterFields
<1>12. {"brokers", "controllerBrokerId", "topics", "producers", "script"} \subseteq ClusterFields \ {"consumers"}
  BY DEF ClusterFields
<1> QED
  BY <1>7, <1>8, <1>9, <1>10, <1>11, <1>12 DEF ClusterOK, Counted, names

\* A click comes after every click so far.
LEMMA NextClickIsLater ==
  ASSUME NEW producers, NEW names, Clicked(cluster.script, producers, names)
  PROVE  /\ NextClick \in Nat
         /\ \A i \in DOMAIN cluster.script : cluster.script[i].at < NextClick
<1> DEFINE s == cluster.script
           A == {c.at : c \in Elements(s)}
           B == [at : Nat, producerId : producers, topic : names]
<1>1. s \in Seq(B)
  BY DEF Clicked
<1>2. \A i, j \in DOMAIN s : i < j => s[i].at < s[j].at
  BY DEF Clicked
<1> HIDE DEF s
<1>3. DOMAIN s = 1 .. Len(s) /\ Len(s) \in Nat
  BY <1>1
<1>4. \A i \in DOMAIN s : s[i].at \in Nat /\ s[i].at \in A
  <2> TAKE i \in DOMAIN s
  <2>1. s[i] \in B
    <3> HIDE DEF B
    <3> QED
      BY <1>1, <1>3
  <2> QED
    BY <2>1 DEF Elements
<1>5. CASE s = <<>>
  BY <1>5 DEF NextClick, s
<1>6. CASE s # <<>>
  <2>1. Len(s) \in DOMAIN s /\ \A i \in DOMAIN s : i = Len(s) \/ i < Len(s)
    BY <1>1, <1>3, <1>6
  <2>2. \A i \in DOMAIN s : s[i].at <= s[Len(s)].at
    BY <1>2, <1>4, <2>1
  <2>3. s[Len(s)].at \in A /\ \A c \in Elements(s) : c.at <= s[Len(s)].at
    BY <1>4, <2>1, <2>2 DEF Elements
  <2> DEFINE last == CHOOSE at \in A : \A c \in Elements(s) : c.at <= at
  <2>4. last \in A /\ \A c \in Elements(s) : c.at <= last
    BY <2>3
  <2>5. NextClick = 100 + last
    BY <1>6 DEF NextClick, s
  <2> HIDE DEF last
  <2>6. last \in Nat
    BY <1>4, <2>4 DEF Elements
  <2>7. \A i \in DOMAIN s : s[i].at <= last
    BY <2>4 DEF Elements
  <2> QED
    BY <1>4, <2>5, <2>6, <2>7 DEF s
<1> QED
  BY <1>5, <1>6

LEMMA ProduceManuallyOK ==
  ASSUME ClusterOK, kafkaIds' = kafkaIds, NEW producer \in IdsIn(cluster.producers),
         NEW name \in NamesOf(cluster.topics), ProduceManually(producer, name)
  PROVE  ClusterOK'
<1> DEFINE s == cluster.script
           x == [at |-> NextClick, producerId |-> producer, topic |-> name]
           list == Append(s, x)
           A == [at : Nat, producerId : IdsIn(cluster.producers), topic : NamesOf(cluster.topics)]
<1>1. cluster = [f \in ClusterFields |-> cluster[f]] /\ cluster' = [cluster EXCEPT !.script = list]
  BY DEF ClusterOK, ProduceManually
<1>2. s \in Seq(A) /\ \A i, j \in DOMAIN s : i < j => s[i].at < s[j].at
  BY DEF ClusterOK, Clicked
<1>3. NextClick \in Nat /\ \A i \in DOMAIN s : s[i].at < NextClick
  BY NextClickIsLater DEF ClusterOK
<1>4. x \in A /\ x.at = NextClick
  BY <1>3
<1> HIDE DEF A, x, s
<1>5. list \in Seq(A) /\ DOMAIN list = 1 .. Len(s) + 1 /\ DOMAIN s = 1 .. Len(s) /\ Len(s) \in Nat
  BY <1>2, <1>4
<1>6. list[Len(s) + 1] = x /\ \A i \in 1 .. Len(s) : list[i] = s[i]
  BY <1>2
<1> HIDE DEF list
<1>7. ASSUME NEW i \in DOMAIN list, NEW j \in DOMAIN list, i < j
      PROVE  list[i].at < list[j].at
  <2>1. i \in 1 .. Len(s)
    BY <1>5, <1>7
  <2>2. j \in 1 .. Len(s) \/ j = Len(s) + 1
    BY <1>5
  <2> QED
    BY <1>2, <1>3, <1>4, <1>5, <1>6, <1>7, <2>1, <2>2
<1>8. /\ cluster' = [f \in ClusterFields |-> cluster'[f]] /\ cluster'.script = list
      /\ \A f \in ClusterFields \ {"script"} : cluster'[f] = cluster[f]
  BY <1>1 DEF ClusterFields
<1>9. {"brokers", "controllerBrokerId", "topics", "producers", "consumers"} \subseteq ClusterFields \ {"script"}
  BY DEF ClusterFields
<1>10. Clicked(list, IdsIn(cluster.producers), NamesOf(cluster.topics))
  BY <1>5, <1>7 DEF Clicked, A
<1> QED
  BY <1>8, <1>9, <1>10 DEF ClusterOK

\* Every step in the sandbox of Kafka.
LEMMA KafkaKept ==
  ASSUME ClusterOK, KafkaNext
  PROVE  ClusterOK'
<1>0. kafkaIds \in Nat
  BY DEF ClusterOK
<1>1. CASE kafkaIds' = kafkaIds + 1 /\ (AddBroker \/ AddProducer \/ AddConsumer)
  BY <1>1, NodeOfClusterOK
<1>2. CASE \E name \in TopicNames, p, r \in Counts : kafkaIds' = kafkaIds /\ AddTopic(name, p, r)
  BY <1>2, AddTopicOK
<1>3. CASE \E name \in TopicsDrawn, field \in {"partitions", "replicationFactor"}, count \in Counts :
             kafkaIds' = kafkaIds /\ SetCount(name, field, count)
  BY <1>3, SetCountOK
<1>4. CASE \E name \in TopicsDrawn, producer \in IdsIn(cluster.producers) :
             kafkaIds' = kafkaIds /\ ProduceManually(producer, name)
  BY <1>4, NamesAreDrawn, ProduceManuallyOK
<1>5. CASE \E name \in Shown, producer \in IdsIn(cluster.producers) :
             kafkaIds' = kafkaIds /\ AddProducerTopic(producer, name)
  BY <1>5, AddProducerTopicOK
<1>6. CASE \E name \in Shown, consumer \in IdsIn(cluster.consumers) :
             kafkaIds' = kafkaIds /\ AddConsumerSubscription(consumer, name)
  <2>1. Shown \subseteq NamesOf(cluster.topics)
    BY DEF Shown, NamesOf
  <2> QED
    BY <1>6, <2>1, AddConsumerSubscriptionOK
<1>7. CASE Emptied /\ kafkaIds' \in {kafkaIds, 0}
  BY <1>0, <1>7, EmptyClusterOK DEF Emptied
<1> QED
  BY <1>1, <1>2, <1>3, <1>4, <1>5, <1>6, <1>7 DEF KafkaNext

\* What the invariant says of a cluster is what its property asks.
LEMMA ClusterIsWhole ==
  ASSUME ClusterOK
  PROVE  /\ KafkaErrorsAreSizes
         /\ \A i, j \in DOMAIN cluster.script : i < j => cluster.script[i].at < cluster.script[j].at
<1> DEFINE brokers == cluster.brokers
           producers == cluster.producers
           consumers == cluster.consumers
<1>1. Duplicates(KafkaNodes) = {}
  <2>1. \A list, kind : Counted(list, kind, kafkaIds) =>
          /\ IsList(list) /\ Apart(list)
          /\ \A id \in IdsIn(list) : id.kind = kind
    <3> SUFFICES ASSUME NEW list, NEW kind, Counted(list, kind, kafkaIds), NEW id \in IdsIn(list)
                 PROVE  id.kind = kind
      BY DEF Counted
    <3>1. id \in [kind : {kind}, n : Nat]
      BY IdsOfElements DEF Counted
    <3> QED
      BY <3>1
  <2>2. /\ Counted(brokers, "broker", kafkaIds) /\ Counted(producers, "producer", kafkaIds)
        /\ Counted(consumers, "consumer", kafkaIds)
    BY DEF ClusterOK
  <2>3. /\ \A id \in IdsIn(brokers) : id.kind = "broker"
        /\ \A id \in IdsIn(producers) : id.kind = "producer"
        /\ \A id \in IdsIn(consumers) : id.kind = "consumer"
        /\ IsList(brokers) /\ IsList(producers) /\ IsList(consumers)
        /\ Apart(brokers) /\ Apart(producers) /\ Apart(consumers)
    BY <2>1, <2>2
  <2> HIDE DEF brokers, producers, consumers
  <2>4. IdsIn(brokers) \cap IdsIn(producers) = {}
    BY <2>3
  <2>5. /\ IsList(brokers \o producers) /\ Apart(brokers \o producers)
        /\ IdsIn(brokers \o producers) = IdsIn(brokers) \cup IdsIn(producers)
    BY <2>3, <2>4, ApartTogether
  <2>6. IdsIn(brokers \o producers) \cap IdsIn(consumers) = {}
    BY <2>3, <2>5
  <2>7. IsList((brokers \o producers) \o consumers) /\ Apart((brokers \o producers) \o consumers)
    BY <2>3, <2>5, <2>6, ApartTogether
  <2> DEFINE nodes == (brokers \o producers) \o consumers
  <2>8. KafkaNodes = nodes
    BY DEF KafkaNodes, brokers, producers, consumers
  <2> HIDE DEF nodes
  <2>9. IsList(nodes) /\ Apart(nodes)
    BY <2>7 DEF nodes
  <2>10. DOMAIN nodes = 1 .. Len(nodes) /\ Len(nodes) \in Nat
    BY <2>9 DEF IsList
  <2>11. \A k \in DOMAIN nodes : \A i \in 1 .. k - 1 : i \in DOMAIN nodes /\ i # k
    BY <2>10
  <2> QED
    BY <2>8, <2>9, <2>11 DEF Duplicates, Apart
<1>2. \A c \in Elements(cluster.script) : c.producerId \in IdsIn(producers) /\ c.topic \in TopicsDrawn
  <2> DEFINE A == [at : Nat, producerId : IdsIn(producers), topic : NamesOf(cluster.topics)]
             s == cluster.script
  <2>1. s \in Seq(A)
    BY DEF ClusterOK, Clicked
  <2>2. \A c \in A : c.producerId \in IdsIn(producers) /\ c.topic \in NamesOf(cluster.topics)
    OBVIOUS
  <2> HIDE DEF A, s
  <2>3. \A c \in Elements(s) : c \in A
    BY <2>1, ListOfElements
  <2> QED
    BY <2>2, <2>3, NamesAreDrawn DEF s
<1>3. (ProducedTopics \cup Subscribed) \ TopicsDrawn = {}
  <2>1. ProducedTopics \subseteq TopicsDrawn
    BY <1>2 DEF ProducedTopics
  <2>2. Subscribed \subseteq TopicsDrawn
    BY NamesAreDrawn DEF Subscribed, ClusterOK, SubscribedTo
  <2> QED
    BY <2>1, <2>2
<1>4. ASSUME NEW e \in Errors(ValidateKafkaTopology)
      PROVE  \/ e.code = "replication-factor-too-high"
             \/ e.code = "unknown-controller" /\ cluster.brokers = <<>>
  <2>1. e \in ValidateKafkaTopology /\ e.severity = "error"
    BY DEF Errors
  <2>2. CASE e \in NodeIssues
    <3>1. {x \in Elements(cluster.script) : x.producerId \notin IdsIn(cluster.producers)} = {}
      BY <1>2
    <3>2. cluster.brokers # <<>> => cluster.controllerBrokerId \in IdsIn(cluster.brokers)
      BY DEF ClusterOK
    <3>3. e = Error("unknown-controller", cluster.controllerBrokerId) /\ cluster.brokers = <<>>
      BY <1>1, <2>2, <3>1, <3>2 DEF NodeIssues
    <3> QED
      BY <3>3 DEF Error
  <2>3. CASE e \in TopicIssues
    <3> DEFINE unknown == (ProducedTopics \cup Subscribed) \ TopicsDrawn
    <3>1. unknown = {}
      BY <1>3
    <3>2. \/ \E n : e = Error("replication-factor-too-high", n)
          \/ \E name \in unknown : e = Error("unknown-topic", name)
          \/ \E code, n : e = Warning(code, n)
      BY <2>3 DEF TopicIssues
    <3> HIDE DEF unknown
    <3> QED
      BY <2>1, <3>1, <3>2 DEF Error, Warning
  <2>4. CASE e \in GroupIssues
    BY <2>1, <2>4 DEF GroupIssues, Warning
  <2> QED
    BY <2>1, <2>2, <2>3, <2>4 DEF ValidateKafkaTopology
<1>5. KafkaErrorsAreSizes
  BY <1>4 DEF KafkaErrorsAreSizes
<1> QED
  BY <1>5 DEF ClusterOK, Clicked

\* The invariant of the sandboxes: drafts in the editor and in the local storage
\* are well formed, and no id is above the count.
SandboxInv == RabbitOK /\ ClusterOK

\* Whatever the user draws, publishes, removes, saves, restores or resets, in
\* however many sessions: the nodes of a draft can be told apart, no line of it
\* ends in a node that was removed, its script is what was published by hand
\* merged with what the generator makes, and validation finds no errors in it but
\* those that the user can see and repair (sandboxStore.ts, kafkaStore.ts).
THEOREM DraftsAreWhole == SandboxSpec => []DraftsStayWhole
<1>1. SandboxInit => SandboxInv
  <2> SUFFICES ASSUME SandboxInit PROVE SandboxInv
    OBVIOUS
  <2>1. rabbitIds = 0 /\ draft = EmptyDraft /\ saved \in {Nothing, Broken}
    BY DEF SandboxInit, EmptySandboxes
  <2>2. RabbitOK
    BY <2>1, EmptyDraftOK DEF RabbitOK, SavedOK
  <2>3. ClusterOK
    <3>1. cluster = EmptyCluster /\ kafkaIds = 0
      BY DEF SandboxInit, EmptySandboxes
    <3> QED
      BY <3>1, EmptyClusterOK
  <2> QED
    BY <2>2, <2>3 DEF SandboxInv
<1>2. SandboxInv /\ [SandboxNext]_sandboxVars => SandboxInv'
  <2> SUFFICES ASSUME SandboxInv, [SandboxNext]_sandboxVars PROVE SandboxInv'
    OBVIOUS
  <2>1. CASE RabbitNext /\ UNCHANGED kafkaVars
    <3>1. RabbitOK'
      BY <2>1, RabbitKept DEF SandboxInv
    <3>2. ClusterOK'
      BY <2>1 DEF SandboxInv, ClusterOK, kafkaVars
    <3> QED
      BY <3>1, <3>2 DEF SandboxInv
  <2>2. CASE KafkaNext /\ UNCHANGED rabbitVars
    <3>1. ClusterOK'
      BY <2>2, KafkaKept DEF SandboxInv
    <3>2. RabbitOK'
      BY <2>2 DEF SandboxInv, RabbitOK, SavedOK, rabbitVars
    <3> QED
      BY <3>1, <3>2 DEF SandboxInv
  <2>3. CASE UNCHANGED sandboxVars
    <3>1. RabbitOK'
      BY <2>3 DEF SandboxInv, RabbitOK, SavedOK, sandboxVars, rabbitVars
    <3>2. ClusterOK'
      BY <2>3 DEF SandboxInv, ClusterOK, sandboxVars, kafkaVars
    <3> QED
      BY <3>1, <3>2 DEF SandboxInv
  <2> QED
    BY <2>1, <2>2, <2>3 DEF SandboxNext
<1>3. SandboxInv => DraftsStayWhole
  BY DraftIsWhole, ClusterIsWhole DEF SandboxInv, RabbitOK, DraftsStayWhole
<1> QED
  BY <1>1, <1>2, <1>3, PTL DEF SandboxSpec
=============================================================================
