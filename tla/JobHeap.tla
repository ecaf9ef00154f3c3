------------------------------- MODULE JobHeap -------------------------------
(***************************************************************************)
(* The binary heap behind priorityQueue (internal/queue, part_013): the    *)
(* jobHeap slice driven by Go's container/heap.  A heap is a sequence of   *)
(* job ids; Go index i is position i+1 of the sequence.  The order is a    *)
(* parameter lt, the set of pairs <<a, b>> with Less(a, b), because        *)
(* jobHeap.Less reads the job's CURRENT fields:                            *)
(* a field changed while the job sits in the heap is not re-sifted, which  *)
(* is exactly what the queue manager model needs to be able to express.   *)
(***************************************************************************)
EXTENDS Naturals, Sequences

\* jobHeap.Swap: exchange Go indices i and k.
Swap(h, i, k) == [h EXCEPT ![i + 1] = h[k + 1], ![k + 1] = h[i + 1]]

\* container/heap up(h, j): move element j towards the root while it is
\* Less than its parent.
RECURSIVE Up(_, _, _)
Up(h, j, lt) ==
    IF j = 0 THEN h
    ELSE LET i == (j - 1) \div 2
         IN  IF <<h[j + 1], h[i + 1]>> \in lt THEN Up(Swap(h, i, j), i, lt) ELSE h

\* container/heap down(h, i, n): move element i towards the leaves of the
\* first n elements while a child is Less than it (the right child wins
\* only when it is strictly Less than the left one).
RECURSIVE Down(_, _, _, _)
Down(h, i, n, lt) ==
    LET j1 == 2 * i + 1
        j  == IF j1 + 1 < n /\ <<h[j1 + 2], h[j1 + 1]>> \in lt THEN j1 + 1 ELSE j1
    IN  IF j1 >= n THEN h
        ELSE IF <<h[j + 1], h[i + 1]>> \in lt THEN Down(Swap(h, i, j), j, n, lt)
        ELSE h

\* priorityQueue.Push -> heap.Push: append, then sift the new element up.
HeapPush(h, x, lt) == Up(Append(h, x), Len(h), lt)

HeapPop(h, lt) ==
    LET n == Len(h) - 1
    IN  SubSeq(Down(Swap(h, 0, n), 0, n, lt), 1, n)

\* Variant of heap.Remove that never sifts the moved element up.
HeapRemoveDownOnly(h, i, lt) ==
    LET n == Len(h) - 1
    IN  SubSeq(IF n = i THEN h ELSE Down(Swap(h, i, n), i, n, lt), 1, n)

\* priorityQueue.Remove -> heap.Remove(h, i) at Go index i (the item's
\* index, kept equal to its position by Swap and Push): move the last
\* element to i, sift it down, and if it did not move sift it up; drop the
\* last element.
HeapRemove(h, i, lt) ==
    LET n == Len(h) - 1
        s == Swap(h, i, n)
        d == Down(s, i, n, lt)
    IN  SubSeq(IF n = i THEN h ELSE IF d # s THEN d ELSE Up(s, i, lt), 1, n)

\* The heap invariant container/heap maintains: no element is Less than its
\* parent.
IsHeap(h, lt) ==
    \A k \in 2..Len(h) : ~<<h[k], h[k \div 2]>> \in lt
==============================================================================
