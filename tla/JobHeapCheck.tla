---------------------------- MODULE JobHeapCheck ----------------------------
(***************************************************************************)
(* Checks the heap of JobHeap against the order it is meant to keep.  The *)
(* elements get fixed keys (rank) chosen in Init, ties included, as jobs   *)
(* with equal priority, ETA and EnqueuedAt have; priorityQueue.Push, Pop   *)
(* and Remove are applied in every order.  The reference is the set of    *)
(* elements pushed and not yet taken out, and the order on their keys.    *)
(***************************************************************************)
EXTENDS Naturals, Sequences, FiniteSets, SequencesExt, JobHeap

CONSTANTS Elems, Ranks

VARIABLES h, rank, content

vars == <<h, rank, content>>

\* jobHeap.Less on the fixed keys: strictly better key.
Lt == {<<a, b>> \in Elems \X Elems : rank[a] < rank[b]}

\* Go index of element x in the heap (jobHeapItem.index).
IndexOf(x) == CHOOSE i \in 0..(Len(h) - 1) : h[i + 1] = x

Init ==
    /\ h = <<>>
    /\ rank \in [Elems -> Ranks]
    /\ content = {}

\* priorityQueue.Push: an element already queued (items map) is ignored.
Push(x) ==
    /\ x \notin ToSet(h)
    /\ h' = HeapPush(h, x, Lt)
    /\ content' = content \cup {x}
    /\ UNCHANGED rank

\* priorityQueue.Pop on a non-empty heap returns the top.
Pop ==
    /\ h # <<>>
    /\ h' = HeapPop(h, Lt)
    /\ content' = content \ {h[1]}
    /\ UNCHANGED rank

\* priorityQueue.Remove of a queued element.
PQRemove(x) ==
    /\ x \in ToSet(h)
    /\ h' = HeapRemove(h, IndexOf(x), Lt)
    /\ content' = content \ {x}
    /\ UNCHANGED rank

Next == Pop \/ \E x \in Elems : Push(x) \/ PQRemove(x)

Spec == Init /\ [][Next]_vars

TypeOK ==
    /\ h \in Seq(Elems) /\ rank \in [Elems -> Ranks]
    /\ content \subseteq Elems

\* After any sequence of Push, Pop and Remove the slice holds exactly the
\* queued elements, each once, in heap order (container/heap's invariant),
\* so the top that Pop, PopReady and Lease take is a best queued element.
HeapShape ==
    /\ IsHeap(h, Lt)
    /\ ToSet(h) = content
    /\ Len(h) = Cardinality(content)
==============================================================================
