------------------------------ MODULE KernelClock ------------------------------
(***************************************************************************)
(* The scheduler of src/src/shell/kernel/clock.ts: a binary min-heap of    *)
(* events ordered by (at, seq).  A heap is a sequence; the children of     *)
(* position i are 2i and 2i + 1.                                           *)
(***************************************************************************)
EXTENDS Integers, SequencesExt

CONSTANT Kinds    \* the event types of a broker

Event == [at : Nat, seq : Nat, kind : Kinds]

Before(a, b) == a.at < b.at \/ (a.at = b.at /\ a.seq < b.seq)

Swapped(heap, i, j) == [heap EXCEPT ![i] = heap[j], ![j] = heap[i]]

\* A loop of the source: turns from start until one of States ends it, which
\* happens within so many turns.
Loop(Ends(_), Turn(_), turns, States, start) ==
  LET after[n \in 0 .. turns] ==
        [s \in States |-> IF n = 0 \/ Ends(s) THEN s ELSE after[n - 1][Turn(s)]]
  IN after[turns][start]

\* What a loop over an array and a place in it goes through.
Places(heap) == [heap : Seq(Range(heap)), i : Nat]

\* siftUp: the event at i changes places with its parent while it comes before it.
Risen(s) == s.i = 1 \/ ~Before(s.heap[s.i], s.heap[s.i \div 2])

Rise(s) == [heap |-> Swapped(s.heap, s.i, s.i \div 2), i |-> s.i \div 2]

SiftUp(heap, start) ==
  Loop(Risen, Rise, start, Places(heap), [heap |-> heap, i |-> start]).heap

Smaller(heap, i, child) ==
  IF child \in DOMAIN heap /\ Before(heap[child], heap[i]) THEN child ELSE i

\* Mutant: only the left child is looked at.
SmallestLeftOnly(heap, i) == Smaller(heap, i, 2 * i)

\* Where siftDown goes from i: the least of i and its children, i among equals
\* first, then the left child.
Smallest(heap, i) == Smaller(heap, Smaller(heap, i, 2 * i), 2 * i + 1)

Sunk(s) == Smallest(s.heap, s.i) = s.i

Sink(s) == [heap |-> Swapped(s.heap, s.i, Smallest(s.heap, s.i)), i |-> Smallest(s.heap, s.i)]

SiftDown(heap, start) ==
  Loop(Sunk, Sink, Len(heap), Places(heap), [heap |-> heap, i |-> start]).heap

Push(heap, event) == SiftUp(Append(heap, event), Len(heap) + 1)

PushAll(heap, events) == FoldLeft(Push, heap, events)

\* pop: the last event of the array takes the place of the first.
WithoutTop(heap) ==
  IF Len(heap) = 1 THEN <<>>
  ELSE SiftDown([SubSeq(heap, 1, Len(heap) - 1) EXCEPT ![1] = heap[Len(heap)]], 1)

\* popDue: the events at or before upTo in the order they are popped, and the
\* heap that is left.
Drained(s, upTo) == s.rest = <<>> \/ s.rest[1].at > upTo

Pop(s) == [due |-> Append(s.due, s.rest[1]), rest |-> WithoutTop(s.rest)]

PopDue(heap, upTo) ==
  Loop(LAMBDA s : Drained(s, upTo), Pop, Len(heap),
       [due : Seq(Range(heap)), rest : Seq(Range(heap))],
       [due |-> <<>>, rest |-> heap])
=============================================================================
