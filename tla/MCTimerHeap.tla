---------------------------- MODULE MCTimerHeap ----------------------------
(* Instances of TimerHeap for TLC. *)
EXTENDS TimerHeap, TLC

EntrySymmetry == Permutations(Entries)

\* What the code can still read: the used part of the array, and of an entry
\* that is not in it nothing.
LiveView ==
    <<size, [i \in Used |-> heap[i]], inHeap, [e \in inHeap |-> <<deadline[e], heapIndex[e]>>],
      pc, at>>
=============================================================================
