----------------------------- MODULE TimerHeap -----------------------------
(***************************************************************************)
(* The binary heap of the Time Manager (TimeManagerCore.c): an array of    *)
(* entries ordered by deadline, in which every entry knows its own place.  *)
(* TimeManager sees it as a set with an earliest member; this module shows *)
(* that the array is one.                                                  *)
(*                                                                         *)
(* Interrupts are off while the heap changes, so one operation runs at a   *)
(* time. Its sifting loop is a step for each turn. Core_PrimeTask of a     *)
(* pending task is HeapRemove and HeapPush, Core_ExpireDue of a periodic   *)
(* one HeapPop and HeapPush. Deadlines are 64-bit microseconds: within the *)
(* life of a machine their differences never leave 63 bits.                *)
(***************************************************************************)
EXTENDS Integers

CONSTANTS
    Entries,    \* &gEntries[0] .. &gEntries[TM_MAX_TASKS - 1]
    NoEntry,    \* the null pointer
    TMMaxTasks, \* TM_MAX_TASKS
    Deadlines   \* the deadlines that tasks are given

ASSUME HeapAssumption ==
    /\ TMMaxTasks \in Nat \ {0}
    /\ Deadlines \subseteq Nat
    /\ NoEntry \notin Entries

VARIABLES
    heap,      \* gHeap
    size,      \* gHeapSize
    heapIndex, \* heapIndex of each entry
    inHeap,    \* the entries with inHeap set
    deadline,  \* absDeadlineUS of each entry
    pc,        \* whether a loop is sifting up, sifting down, or none is
    at         \* the index the loop has reached

vars == <<heap, size, heapIndex, inHeap, deadline, pc, at>>

Indices == 0 .. TMMaxTasks - 1
Used == 0 .. size - 1

TypeOK ==
    /\ heap \in [Indices -> Entries \cup {NoEntry}]
    /\ size \in 0 .. TMMaxTasks
    /\ heapIndex \in [Entries -> Indices]
    /\ inHeap \subseteq Entries
    /\ deadline \in [Entries -> Nat]
    /\ pc \in {"idle", "up", "down"}
    /\ at \in Indices

-----------------------------------------------------------------------------

Due(i) == deadline[heap[i]]
Parent(i) == (i - 1) \div 2

\* Mutant of Swap: the entry that was at j is not told.
SwapForgets(i, j) ==
    /\ heap' = [heap EXCEPT ![i] = heap[j], ![j] = heap[i]]
    /\ heapIndex' = [heapIndex EXCEPT ![heap[i]] = j]

\* Two entries change places.
Swap(i, j) ==
    /\ heap' = [heap EXCEPT ![i] = heap[j], ![j] = heap[i]]
    /\ heapIndex' = [heapIndex EXCEPT ![heap[i]] = j, ![heap[j]] = i]

\* The smallest of an entry and its children.
Smallest(i) ==
    LET left  == 2 * i + 1
        right == 2 * i + 2
        s     == IF left < size /\ Due(left) < Due(i) THEN left ELSE i
    IN  IF right < size /\ Due(right) < Due(s) THEN right ELSE s

\* HeapSiftUp, a turn of its loop.
SiftUpSwaps ==
    /\ pc = "up"
    /\ at > 0
    /\ Due(at) < Due(Parent(at))
    /\ Swap(Parent(at), at)
    /\ at' = Parent(at)
    /\ UNCHANGED <<size, inHeap, deadline, pc>>

SiftUpStops ==
    /\ pc = "up"
    /\ at > 0 => Due(Parent(at)) <= Due(at)
    /\ pc' = "idle"
    /\ at' = 0
    /\ UNCHANGED <<heap, size, heapIndex, inHeap, deadline>>

\* HeapSiftDown, a turn of its loop.
SiftDownSwaps ==
    /\ pc = "down"
    /\ Smallest(at) # at
    /\ Swap(at, Smallest(at))
    /\ at' = Smallest(at)
    /\ UNCHANGED <<size, inHeap, deadline, pc>>

SiftDownStops ==
    /\ pc = "down"
    /\ Smallest(at) = at
    /\ pc' = "idle"
    /\ at' = 0
    /\ UNCHANGED <<heap, size, heapIndex, inHeap, deadline>>

-----------------------------------------------------------------------------

\* HeapPush of an entry that was given the deadline d.
HeapPush(e, d) ==
    /\ pc = "idle"
    /\ e \notin inHeap
    /\ size < TMMaxTasks
    /\ deadline' = [deadline EXCEPT ![e] = d]
    /\ heap' = [heap EXCEPT ![size] = e]
    /\ heapIndex' = [heapIndex EXCEPT ![e] = size]
    /\ inHeap' = inHeap \cup {e}
    /\ size' = size + 1
    /\ pc' = "up"
    /\ at' = size

\* Mutant of NotEmpty.
PerhapsEmpty == size >= 0

NotEmpty == size > 0

\* The last entry of the heap moves into the place i that was left.
LastMovesTo(i) ==
    /\ heap' = [heap EXCEPT ![i] = heap[size - 1]]
    /\ heapIndex' = [heapIndex EXCEPT ![heap[size - 1]] = i]

\* HeapPop.
HeapPop ==
    /\ pc = "idle"
    /\ NotEmpty
    /\ inHeap' = inHeap \ {heap[0]}
    /\ size' = size - 1
    /\ IF size > 1 THEN LastMovesTo(0) /\ pc' = "down"
                   ELSE UNCHANGED <<heap, heapIndex, pc>>
    /\ at' = 0
    /\ UNCHANGED deadline

\* Mutant of GoesUp: the entry that fills a gap only ever sinks.
NeverGoesUp(i) == FALSE

\* The test that HeapRemove makes of the entry it has moved to i.
GoesUp(i) == i > 0 /\ deadline[heap[size - 1]] < Due(Parent(i))

\* HeapRemove.
HeapRemove(e) ==
    /\ pc = "idle"
    /\ e \in inHeap
    /\ inHeap' = inHeap \ {e}
    /\ size' = size - 1
    /\ LET i == heapIndex[e]
       IN  IF i < size - 1
           THEN /\ LastMovesTo(i)
                /\ pc' = IF GoesUp(i) THEN "up" ELSE "down"
                /\ at' = i
           ELSE UNCHANGED <<heap, heapIndex, pc, at>>
    /\ UNCHANGED deadline

-----------------------------------------------------------------------------

\* Core_Initialize.
Init ==
    /\ heap = [i \in Indices |-> NoEntry]
    /\ size = 0
    /\ heapIndex = [e \in Entries |-> 0]
    /\ inHeap = {}
    /\ deadline = [e \in Entries |-> 0]
    /\ pc = "idle"
    /\ at = 0

Next ==
    \/ \E e \in Entries, d \in Deadlines : HeapPush(e, d)
    \/ HeapPop
    \/ \E e \in Entries : HeapRemove(e)
    \/ SiftUpSwaps
    \/ SiftUpStops
    \/ SiftDownSwaps
    \/ SiftDownStops

Spec == Init /\ [][Next]_vars

-----------------------------------------------------------------------------
(* Properties.                                                             *)

\* inHeap and heapIndex, by which HeapRemove finds its entry, tell the truth
\* about the array in every step of every loop: no entry is lost, doubled, or
\* looked for in another's place.
IndexAgrees ==
    /\ \A i \in Used : heap[i] \in inHeap /\ heapIndex[heap[i]] = i
    /\ \A e \in inHeap : heapIndex[e] \in Used /\ heap[heapIndex[e]] = e

\* Between operations gHeap[0], for which the interrupt is programmed and which
\* Core_ExpireDue looks at, is the earliest of all pending entries, whatever was
\* pushed and removed from the middle before.
RootIsEarliest ==
    pc = "idle" => \A e \in inHeap : Due(0) <= deadline[e]
=============================================================================
