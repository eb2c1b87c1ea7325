-------------------------- MODULE TimerHeapProofs --------------------------
(***************************************************************************)
(* Theorems about TimerHeap, for every size of the table and every         *)
(* assignment of deadlines.                                                *)
(***************************************************************************)
EXTENDS TimerHeap, WellFoundedInduction, TLAPS

\* Between the turns of a sifting loop one place may be out of order: the one
\* the loop has reached, against its parent while it rises and against its
\* children while it sinks.  Its children are in order against its parent, so
\* that the next turn can put either of them there.
OutOfOrder(i) ==
    \/ pc = "up" /\ i = at
    \/ pc = "down" /\ Parent(i) = at

HeapOrder ==
    /\ \A i \in Used \ {0} : OutOfOrder(i) \/ Due(Parent(i)) <= Due(i)
    /\ pc # "idle" /\ at > 0 =>
          \A i \in Used \ {0} : Parent(i) = at => Due(Parent(at)) <= Due(i)

HeapInv ==
    /\ TypeOK
    /\ IndexAgrees
    /\ pc # "idle" => at \in Used
    /\ HeapOrder

-----------------------------------------------------------------------------
(* Indices.                                                                *)

\* The parent of a place is a place in front of it.
LEMMA ParentBefore ==
    ASSUME NEW i \in Nat \ {0}
    PROVE  Parent(i) \in 0 .. i - 1
BY SMT DEF Parent

\* The children of a place.
LEMMA Children ==
    ASSUME NEW i \in Nat \ {0}, NEW k \in Nat
    PROVE  Parent(i) = k <=> i = 2 * k + 1 \/ i = 2 * k + 2
BY SMT DEF Parent

-----------------------------------------------------------------------------
(* Entries that change places.                                             *)

\* The used places hold entries.
LEMMA UsedEntries ==
    ASSUME TypeOK, IndexAgrees, NEW i \in Used
    PROVE  /\ i \in Indices /\ heap[i] \in Entries /\ Due(i) \in Nat
           /\ \A j \in Used : heap[i] = heap[j] => i = j
BY HeapAssumption DEF TypeOK, IndexAgrees, Used, Indices, Due

\* A swap of two used places keeps the indices true and changes no deadline.
LEMMA SwapKeepsIndex ==
    ASSUME TypeOK, IndexAgrees,
           NEW i \in Used, NEW j \in Used, i # j,
           Swap(i, j), UNCHANGED <<size, inHeap, deadline>>
    PROVE  /\ heap' \in [Indices -> Entries \cup {NoEntry}]
           /\ heapIndex' \in [Entries -> Indices]
           /\ IndexAgrees'
           /\ Due(i)' = Due(j) /\ Due(j)' = Due(i)
           /\ \A k \in Used : k # i /\ k # j => Due(k)' = Due(k)
<1>1. /\ i \in Indices /\ j \in Indices
      /\ heap[i] \in Entries /\ heap[j] \in Entries /\ heap[i] # heap[j]
  BY UsedEntries
<1>2. /\ heap' \in [Indices -> Entries \cup {NoEntry}]
      /\ heapIndex' \in [Entries -> Indices]
  BY <1>1 DEF Swap, TypeOK
<1>3. /\ heap'[i] = heap[j] /\ heap'[j] = heap[i]
      /\ \A k \in Used : k # i /\ k # j => heap'[k] = heap[k]
      /\ heapIndex'[heap[i]] = j /\ heapIndex'[heap[j]] = i
      /\ \A e \in Entries : e # heap[i] /\ e # heap[j] => heapIndex'[e] = heapIndex[e]
  BY <1>1, UsedEntries DEF Swap, TypeOK
<1>4. \A k \in Used : heap'[k] \in inHeap /\ heapIndex'[heap'[k]] = k
  BY <1>1, <1>3, UsedEntries DEF IndexAgrees
<1>5. \A e \in inHeap : heapIndex'[e] \in Used /\ heap'[heapIndex'[e]] = e
  BY <1>1, <1>3, UsedEntries DEF IndexAgrees, TypeOK
<1>6. IndexAgrees'
  BY <1>4, <1>5 DEF IndexAgrees, Used
<1> QED
  BY <1>2, <1>3, <1>6 DEF Due

\* The last entry fills the place i, whose entry leaves.
LEMMA FillKeepsIndex ==
    ASSUME TypeOK, IndexAgrees,
           NEW i \in Used, i < size - 1,
           LastMovesTo(i), size' = size - 1, inHeap' = inHeap \ {heap[i]},
           UNCHANGED deadline
    PROVE  /\ heap' \in [Indices -> Entries \cup {NoEntry}]
           /\ heapIndex' \in [Entries -> Indices]
           /\ IndexAgrees'
           /\ Due(i)' = Due(size - 1)
           /\ \A k \in Used' : k # i => Due(k)' = Due(k)
<1>1. /\ i \in Indices /\ size - 1 \in Used /\ size - 1 \in Indices
      /\ heap[i] \in Entries /\ heap[size - 1] \in Entries
      /\ heap[i] # heap[size - 1]
      /\ Used' = Used \ {size - 1}
  <2>1. size - 1 \in Used /\ Used' = Used \ {size - 1}
    BY DEF Used, TypeOK
  <2> QED
    BY <2>1, UsedEntries
<1>2. /\ heap' \in [Indices -> Entries \cup {NoEntry}]
      /\ heapIndex' \in [Entries -> Indices]
  BY <1>1 DEF LastMovesTo, TypeOK
<1>3. /\ heap'[i] = heap[size - 1]
      /\ \A k \in Used : k # i => heap'[k] = heap[k]
      /\ heapIndex'[heap[size - 1]] = i
      /\ \A e \in Entries : e # heap[size - 1] => heapIndex'[e] = heapIndex[e]
  BY <1>1, UsedEntries DEF LastMovesTo, TypeOK
<1>4. \A k \in Used' : heap'[k] \in inHeap' /\ heapIndex'[heap'[k]] = k
  BY <1>1, <1>3, UsedEntries DEF IndexAgrees
<1>5. \A e \in inHeap' : heapIndex'[e] \in Used' /\ heap'[heapIndex'[e]] = e
  BY <1>1, <1>3, UsedEntries DEF IndexAgrees, TypeOK
<1>6. IndexAgrees'
  BY <1>4, <1>5 DEF IndexAgrees
<1> QED
  BY <1>1, <1>2, <1>3, <1>6 DEF Due

\* The last entry leaves.
LEMMA DropKeepsIndex ==
    ASSUME TypeOK, IndexAgrees, size > 0,
           size' = size - 1, inHeap' = inHeap \ {heap[size - 1]},
           UNCHANGED <<heap, heapIndex, deadline>>
    PROVE  IndexAgrees' /\ Used' = Used \ {size - 1}
<1>1. size - 1 \in Used /\ Used' = Used \ {size - 1}
  BY DEF Used, TypeOK
<1> QED
  BY <1>1, UsedEntries DEF IndexAgrees

-----------------------------------------------------------------------------
(* The sifting loops.                                                      *)

\* What HeapSiftDown compares.
LEMMA SmallestIsLeast ==
    ASSUME TypeOK, IndexAgrees, NEW i \in Used
    PROVE  /\ Smallest(i) # i =>
                 /\ Smallest(i) \in Used \ {0}
                 /\ Parent(Smallest(i)) = i
                 /\ Due(Smallest(i)) < Due(i)
           /\ \A k \in Used \ {0} : Parent(k) = i => Due(Smallest(i)) <= Due(k)
<1>1. \A k \in Used : Due(k) \in Nat
  BY UsedEntries
<1>2. size \in Nat /\ i \in Nat /\ i < size
  BY DEF TypeOK, Used
<1>3. \A k \in Used \ {0} : Parent(k) = i <=> k = 2 * i + 1 \/ k = 2 * i + 2
  BY <1>2, Children DEF Used
<1>4. /\ 2 * i + 1 < size => 2 * i + 1 \in Used \ {0}
      /\ 2 * i + 2 < size => 2 * i + 2 \in Used \ {0}
      /\ \A k \in Used : k < size
  BY <1>2 DEF Used
<1> QED
  BY <1>1, <1>2, <1>3, <1>4 DEF Smallest

\* HeapSiftUp keeps the invariant.
LEMMA SiftUpStep == HeapInv /\ SiftUpSwaps => HeapInv'
<1> SUFFICES ASSUME HeapInv, SiftUpSwaps
             PROVE  HeapInv'
  OBVIOUS
<1> USE DEF HeapInv
<1>1. PICK a \in Used \ {0}, p \in Used :
         /\ a = at /\ p = Parent(a) /\ p < a /\ at' = p
         /\ Due(a) < Due(p)
         /\ Swap(p, a)
  <2>1. at \in Used \ {0} /\ Parent(at) \in Used /\ Parent(at) < at
    BY ParentBefore DEF SiftUpSwaps, Used, TypeOK
  <2> QED
    BY <2>1 DEF SiftUpSwaps
<1>2. Used' = Used /\ UNCHANGED <<size, inHeap, deadline, pc>> /\ pc = "up"
  BY DEF SiftUpSwaps, Used
<1>3. /\ heap' \in [Indices -> Entries \cup {NoEntry}]
      /\ heapIndex' \in [Entries -> Indices]
      /\ IndexAgrees'
      /\ Due(p)' = Due(a) /\ Due(a)' = Due(p)
      /\ \A k \in Used : k # p /\ k # a => Due(k)' = Due(k)
  <2>1. p # a
    BY <1>1 DEF Used, TypeOK
  <2> QED
    BY <1>1, <1>2, <2>1, SwapKeepsIndex
<1>4. \A i \in Used \ {0} : /\ i \in Nat /\ Parent(i) \in Used /\ Parent(i) < i
                           /\ Due(i) \in Nat /\ Due(Parent(i)) \in Nat
  BY ParentBefore, UsedEntries DEF Used, TypeOK
<1>5. \A i \in Used \ {0} : i # a => Due(Parent(i)) <= Due(i)
  BY <1>1, <1>2 DEF HeapOrder, OutOfOrder
<1>6. \A i \in Used \ {0} : Parent(i) = a => Due(p) <= Due(i)
  BY <1>1, <1>2, <1>4 DEF HeapOrder
<1>7. ASSUME NEW i \in Used \ {0}, i # p, NEW k \in Used, k = Parent(i)
      PROVE  Due(k)' <= Due(i)'
  <2>1. CASE i = a
    BY <1>1, <1>3, <1>4, <1>7, <2>1
  <2>2. CASE i # a /\ k = a
    BY <1>1, <1>3, <1>4, <1>6, <1>7, <2>2
  <2>3. CASE i # a /\ k = p
    <3>1. Due(k)' = Due(a) /\ Due(i)' = Due(i)
      BY <1>3, <1>7, <2>3
    <3>2. Due(a) < Due(p) /\ Due(p) <= Due(i)
      BY <1>1, <1>5, <1>7, <2>3
    <3>3. Due(a) \in Nat /\ Due(p) \in Nat /\ Due(i) \in Nat
      BY UsedEntries
    <3> QED
      BY <3>1, <3>2, <3>3
  <2>4. CASE i # a /\ k # a /\ k # p
    BY <1>1, <1>3, <1>4, <1>5, <1>7, <2>4
  <2> QED
    BY <2>1, <2>2, <2>3, <2>4
<1>8. ASSUME NEW i \in Used \ {0}, Parent(i) = p, p > 0, NEW g \in Used, g = Parent(p)
      PROVE  Due(g)' <= Due(i)'
  <2>1. /\ p \in Used \ {0} /\ g < p
        /\ Due(g)' = Due(g) /\ Due(g) <= Due(p)
    BY <1>1, <1>3, <1>4, <1>5, <1>8
  <2>2. CASE i = a
    BY <1>3, <2>1, <2>2
  <2>3. CASE i # a
    BY <1>1, <1>3, <1>4, <1>5, <1>8, <2>1, <2>3
  <2> QED
    BY <2>2, <2>3
<1>9. HeapOrder'
  <2>1. \A i \in Used \ {0} : i = p \/ Due(Parent(i))' <= Due(i)'
    BY <1>4, <1>7
  <2>2. p > 0 => \A i \in Used \ {0} : Parent(i) = p => Due(Parent(p))' <= Due(i)'
    BY <1>4, <1>8
  <2> QED
    BY <1>1, <1>2, <2>1, <2>2 DEF HeapOrder, OutOfOrder, Due
<1> QED
  BY <1>1, <1>2, <1>3, <1>9, UsedEntries DEF TypeOK

\* HeapSiftUp ends with the heap in order.
LEMMA SiftUpEnds == HeapInv /\ SiftUpStops => HeapInv'
<1> SUFFICES ASSUME HeapInv, SiftUpStops
             PROVE  HeapInv'
  OBVIOUS
<1> USE DEF HeapInv
<1>1. \A i \in Used \ {0} : Due(Parent(i)) <= Due(i)
  BY DEF HeapOrder, OutOfOrder, SiftUpStops, Used, TypeOK
<1>2. HeapOrder'
  BY <1>1 DEF HeapOrder, OutOfOrder, SiftUpStops, Used, Due
<1> QED
  BY <1>2, HeapAssumption DEF SiftUpStops, TypeOK, IndexAgrees, Indices, Used

\* HeapSiftDown keeps the invariant.
LEMMA SiftDownStep == HeapInv /\ SiftDownSwaps => HeapInv'
<1> SUFFICES ASSUME HeapInv, SiftDownSwaps
             PROVE  HeapInv'
  OBVIOUS
<1> USE DEF HeapInv
<1>1. PICK a \in Used, c \in Used \ {0} :
         /\ a = at /\ a = Parent(c) /\ a < c /\ at' = c
         /\ Due(c) < Due(a)
         /\ \A k \in Used \ {0} : Parent(k) = a => Due(c) <= Due(k)
         /\ Swap(a, c)
  <2>1. at \in Used /\ Smallest(at) # at
    BY DEF SiftDownSwaps
  <2>2. Smallest(at) \in Used \ {0} /\ at < Smallest(at)
    BY <2>1, SmallestIsLeast, ParentBefore DEF Used, TypeOK
  <2> QED
    BY <2>1, <2>2, SmallestIsLeast DEF SiftDownSwaps
<1>2. Used' = Used /\ UNCHANGED <<size, inHeap, deadline, pc>> /\ pc = "down"
  BY DEF SiftDownSwaps, Used
<1>3. /\ heap' \in [Indices -> Entries \cup {NoEntry}]
      /\ heapIndex' \in [Entries -> Indices]
      /\ IndexAgrees'
      /\ Due(a)' = Due(c) /\ Due(c)' = Due(a)
      /\ \A k \in Used : k # a /\ k # c => Due(k)' = Due(k)
  <2>1. a # c
    BY <1>1 DEF Used, TypeOK
  <2> QED
    BY <1>1, <1>2, <2>1, SwapKeepsIndex
<1>4. \A i \in Used \ {0} : /\ i \in Nat /\ Parent(i) \in Used /\ Parent(i) < i
                           /\ Due(i) \in Nat /\ Due(Parent(i)) \in Nat
  BY ParentBefore, UsedEntries DEF Used, TypeOK
<1>5. \A i \in Used \ {0} : Parent(i) # a => Due(Parent(i)) <= Due(i)
  BY <1>1, <1>2 DEF HeapOrder, OutOfOrder
<1>6. ASSUME NEW i \in Used \ {0}, NEW k \in Used, k = Parent(i), k # c
      PROVE  Due(k)' <= Due(i)'
  <2>1. Due(a) \in Nat /\ Due(c) \in Nat /\ Due(i) \in Nat /\ Due(k) \in Nat
    BY UsedEntries
  <2>2. CASE i = c
    BY <1>1, <1>3, <1>6, <2>1, <2>2
  <2>3. CASE i # c /\ k = a
    <3>1. i # a
      <4>1. i \in Nat /\ k < i
        BY <1>4, <1>6
      <4> QED
        BY <2>3, <4>1
    <3>2. Due(k)' = Due(c) /\ Due(i)' = Due(i)
      BY <1>3, <2>3, <3>1
    <3>3. Due(c) <= Due(i)
      BY <1>1, <1>6, <2>3
    <3> QED
      BY <3>2, <3>3
  <2>4. CASE i = a
    <3>1. Due(k) <= Due(c)
      BY <1>1, <1>2, <1>6, <2>4 DEF HeapOrder, Used, TypeOK
    <3>2. Due(k)' = Due(k) /\ Due(i)' = Due(c)
      BY <1>1, <1>3, <1>4, <1>6, <2>4
    <3> QED
      BY <3>1, <3>2
  <2>5. CASE i # a /\ i # c /\ k # a
    <3>1. Due(k)' = Due(k) /\ Due(i)' = Due(i) /\ Due(k) <= Due(i)
      BY <1>3, <1>5, <1>6, <2>5
    <3> QED
      BY <3>1
  <2> QED
    BY <2>2, <2>3, <2>4, <2>5
<1>7. ASSUME NEW i \in Used \ {0}, Parent(i) = c
      PROVE  Due(a)' <= Due(i)'
  <2>1. /\ i # a /\ i # c /\ c # a
    BY <1>1, <1>4, <1>7 DEF Used, TypeOK
  <2>2. Due(a)' = Due(c) /\ Due(i)' = Due(i) /\ Due(c) <= Due(i)
    BY <1>3, <1>5, <1>7, <2>1
  <2> QED
    BY <2>2
<1>8. HeapOrder'
  <2>1. \A i \in Used \ {0} : Parent(i) = c \/ Due(Parent(i))' <= Due(i)'
    BY <1>4, <1>6
  <2>2. \A i \in Used \ {0} : Parent(i) = c => Due(Parent(c))' <= Due(i)'
    BY <1>1, <1>7
  <2> QED
    BY <1>1, <1>2, <2>1, <2>2 DEF HeapOrder, OutOfOrder, Due
<1> QED
  BY <1>1, <1>2, <1>3, <1>8, UsedEntries DEF TypeOK

\* HeapSiftDown ends with the heap in order.
LEMMA SiftDownEnds == HeapInv /\ SiftDownStops => HeapInv'
<1> SUFFICES ASSUME HeapInv, SiftDownStops
             PROVE  HeapInv'
  OBVIOUS
<1> USE DEF HeapInv
<1>1. \A i \in Used \ {0} : Parent(i) = at => Due(at) <= Due(i)
  BY SmallestIsLeast DEF SiftDownStops
<1>2. \A i \in Used \ {0} : Due(Parent(i)) <= Due(i)
  BY <1>1 DEF HeapOrder, OutOfOrder, SiftDownStops
<1>3. HeapOrder'
  BY <1>2 DEF HeapOrder, OutOfOrder, SiftDownStops, Used, Due
<1> QED
  BY <1>3, HeapAssumption DEF SiftDownStops, TypeOK, IndexAgrees, Indices, Used

-----------------------------------------------------------------------------
(* The operations.                                                         *)

\* HeapPush keeps the invariant.
LEMMA PushStep ==
    ASSUME HeapInv, NEW e \in Entries, NEW d \in Deadlines, HeapPush(e, d)
    PROVE  HeapInv'
<1> USE DEF HeapInv
<1>1. /\ size \in Indices /\ Used' = Used \cup {size} /\ size \notin Used
      /\ pc = "idle" /\ pc' = "up" /\ at' = size
      /\ d \in Nat
  BY HeapAssumption DEF HeapPush, TypeOK, Indices, Used
<1>2. TypeOK'
  BY <1>1, HeapAssumption DEF HeapPush, TypeOK, Indices
<1>3. /\ heap'[size] = e /\ heapIndex'[e] = size
      /\ \A k \in Used : heap'[k] = heap[k] /\ heap[k] # e
      /\ \A f \in Entries : f # e => heapIndex'[f] = heapIndex[f] /\ deadline'[f] = deadline[f]
  BY <1>1, UsedEntries DEF HeapPush, TypeOK, IndexAgrees
<1>4. IndexAgrees'
  <2>1. \A i \in Used' : heap'[i] \in inHeap' /\ heapIndex'[heap'[i]] = i
    BY <1>1, <1>3, UsedEntries DEF IndexAgrees, HeapPush
  <2>2. \A f \in inHeap' : heapIndex'[f] \in Used' /\ heap'[heapIndex'[f]] = f
    BY <1>1, <1>3 DEF IndexAgrees, HeapPush, TypeOK
  <2> QED
    BY <2>1, <2>2 DEF IndexAgrees
<1>5. \A k \in Used : Due(k)' = Due(k)
  BY <1>3, UsedEntries DEF Due
<1>6. \A i \in Used \ {0} : Parent(i) \in Used /\ Due(Parent(i)) <= Due(i)
  BY <1>1, ParentBefore DEF HeapOrder, OutOfOrder, Used, TypeOK
<1>7. \A i \in Used' \ {0} : i = size \/ Due(Parent(i))' <= Due(i)'
  BY <1>1, <1>5, <1>6
<1>8. \A i \in Used' \ {0} : Parent(i) # size
  BY <1>1, ParentBefore DEF Used, TypeOK
<1>9. HeapOrder'
  BY <1>1, <1>7, <1>8 DEF HeapOrder, OutOfOrder
<1> QED
  BY <1>1, <1>2, <1>4, <1>9

\* When the last entry fills the place i, that place alone may be out of order,
\* and the entries under it are in order against the one above it.
LEMMA FillOrder ==
    ASSUME HeapInv, pc = "idle", NEW i \in Used, i < size - 1,
           LastMovesTo(i), size' = size - 1, inHeap' = inHeap \ {heap[i]},
           UNCHANGED deadline
    PROVE  /\ i \in Used' /\ Used' \subseteq Used
           /\ Due(i)' = Due(size - 1)
           /\ \A k \in Used' \ {0} : k # i /\ Parent(k) # i => Due(Parent(k))' <= Due(k)'
           /\ \A k \in Used' \ {0} : Parent(k) = i => /\ Due(k)' = Due(k)
                                                    /\ Due(i) <= Due(k)
           /\ i > 0 => /\ Due(Parent(i))' = Due(Parent(i))
                       /\ Due(Parent(i)) <= Due(i)
<1>1. /\ i \in Used' /\ Used' \subseteq Used
      /\ \A k \in Used' \ {0} : Parent(k) \in Used' /\ Parent(k) < k /\ k \in Nat
  BY ParentBefore DEF Used, HeapInv, TypeOK
<1>2. Due(i)' = Due(size - 1) /\ \A k \in Used' : k # i => Due(k)' = Due(k)
  BY FillKeepsIndex DEF HeapInv
<1>3. \A k \in Used \ {0} : Due(Parent(k)) <= Due(k)
  BY DEF HeapInv, HeapOrder, OutOfOrder
<1> QED
  BY <1>1, <1>2, <1>3

\* HeapRemove keeps the invariant.
LEMMA RemoveStep ==
    ASSUME HeapInv, NEW e \in Entries, HeapRemove(e)
    PROVE  HeapInv'
<1> USE DEF HeapInv
<1>1. PICK i \in Used : i = heapIndex[e] /\ heap[i] = e
  BY DEF IndexAgrees, HeapRemove
<1>2. /\ pc = "idle" /\ size' = size - 1 /\ size > 0 /\ size \in Nat /\ i \in Nat
      /\ inHeap' = inHeap \ {heap[i]} /\ UNCHANGED deadline
  BY <1>1 DEF HeapRemove, Used, TypeOK
<1>3. CASE i < size - 1
  <2>1. LastMovesTo(i) /\ at' = i /\ pc' = IF GoesUp(i) THEN "up" ELSE "down"
    BY <1>1, <1>3 DEF HeapRemove
  <2>2. TypeOK' /\ IndexAgrees'
    <3>1. /\ heap' \in [Indices -> Entries \cup {NoEntry}]
          /\ heapIndex' \in [Entries -> Indices]
          /\ IndexAgrees'
      BY <1>2, <1>3, <2>1, FillKeepsIndex
    <3>2. size' \in 0 .. TMMaxTasks /\ i \in Indices
      BY <1>2, UsedEntries, HeapAssumption DEF TypeOK
    <3>3. pc' \in {"idle", "up", "down"}
      BY <2>1
    <3> QED
      BY <1>2, <2>1, <3>1, <3>2, <3>3 DEF TypeOK
  <2>3. /\ i \in Used' /\ Used' \subseteq Used
        /\ Due(i)' = Due(size - 1)
        /\ \A k \in Used' \ {0} : k # i /\ Parent(k) # i => Due(Parent(k))' <= Due(k)'
        /\ \A k \in Used' \ {0} : Parent(k) = i => Due(k)' = Due(k) /\ Due(i) <= Due(k)
        /\ i > 0 => Due(Parent(i))' = Due(Parent(i)) /\ Due(Parent(i)) <= Due(i)
    BY <1>2, <1>3, <2>1, FillOrder
  <2>4. /\ \A k \in Used : Due(k) \in Nat
        /\ size - 1 \in Used
        /\ i > 0 => Parent(i) \in Used
    BY <1>2, UsedEntries, ParentBefore DEF Used
  <2>5. ASSUME i > 0, NEW k \in Used' \ {0}, Parent(k) = i
        PROVE  Due(Parent(i))' <= Due(k)'
    BY <2>3, <2>4, <2>5
  <2>6. CASE GoesUp(i)
    <3>1. i > 0 /\ Due(size - 1) < Due(Parent(i))
      BY <2>6 DEF GoesUp, Due
    <3>2. ASSUME NEW k \in Used' \ {0}, Parent(k) = i
          PROVE  Due(i)' <= Due(k)'
      BY <2>3, <2>4, <3>1, <3>2
    <3>3. \A k \in Used' \ {0} : k = i \/ Due(Parent(k))' <= Due(k)'
      BY <2>3, <3>2
    <3>4. HeapOrder'
      BY <2>1, <2>5, <2>6, <3>3 DEF HeapOrder, OutOfOrder, Due
    <3> QED
      BY <2>1, <2>2, <2>3, <3>4
  <2>7. CASE ~GoesUp(i)
    <3>1. i > 0 => Due(Parent(i)) <= Due(size - 1)
      BY <2>4, <2>7 DEF GoesUp, Due
    <3>2. \A k \in Used' \ {0} : Parent(k) = i \/ Due(Parent(k))' <= Due(k)'
      BY <1>2, <2>3, <3>1
    <3>3. HeapOrder'
      BY <2>1, <2>5, <2>7, <3>2 DEF HeapOrder, OutOfOrder, Due
    <3> QED
      BY <2>1, <2>2, <2>3, <3>3
  <2> QED
    BY <2>6, <2>7
<1>4. CASE ~(i < size - 1)
  <2>1. i = size - 1 /\ UNCHANGED <<heap, heapIndex, pc, at>>
    BY <1>1, <1>2, <1>4 DEF HeapRemove, Used
  <2>2. IndexAgrees' /\ Used' = Used \ {size - 1}
    BY <1>2, <2>1, DropKeepsIndex
  <2>3. TypeOK'
    <3>1. size' \in 0 .. TMMaxTasks
      BY <1>2, HeapAssumption DEF TypeOK
    <3> QED
      BY <1>2, <2>1, <3>1 DEF TypeOK
  <2>4. HeapOrder'
    BY <1>2, <2>1, <2>2 DEF HeapOrder, OutOfOrder, Due
  <2> QED
    BY <1>2, <2>1, <2>2, <2>3, <2>4
<1> QED
  BY <1>3, <1>4

\* HeapPop keeps the invariant.
LEMMA PopStep == HeapInv /\ HeapPop => HeapInv'
<1> SUFFICES ASSUME HeapInv, HeapPop
             PROVE  HeapInv'
  OBVIOUS
<1> USE DEF HeapInv
<1>1. /\ pc = "idle" /\ size' = size - 1 /\ size > 0 /\ size \in Nat /\ 0 \in Used
      /\ inHeap' = inHeap \ {heap[0]} /\ UNCHANGED deadline /\ at' = 0
      /\ 0 \in Indices
  BY HeapAssumption DEF HeapPop, NotEmpty, Used, TypeOK, Indices
<1>2. CASE size > 1
  <2>1. LastMovesTo(0) /\ pc' = "down" /\ 0 < size - 1
    BY <1>1, <1>2 DEF HeapPop
  <2>2. TypeOK' /\ IndexAgrees'
    <3>1. /\ heap' \in [Indices -> Entries \cup {NoEntry}]
          /\ heapIndex' \in [Entries -> Indices]
          /\ IndexAgrees'
      BY <1>1, <2>1, FillKeepsIndex
    <3>2. size' \in 0 .. TMMaxTasks
      BY <1>1, HeapAssumption DEF TypeOK
    <3> QED
      BY <1>1, <2>1, <3>1, <3>2 DEF TypeOK
  <2>3. /\ 0 \in Used'
        /\ \A k \in Used' \ {0} : Parent(k) = 0 \/ Due(Parent(k))' <= Due(k)'
    BY <1>1, <2>1, FillOrder
  <2>4. HeapOrder'
    BY <1>1, <2>1, <2>3 DEF HeapOrder, OutOfOrder
  <2> QED
    BY <1>1, <2>1, <2>2, <2>3, <2>4
<1>3. CASE ~(size > 1)
  <2>1. size - 1 = 0 /\ UNCHANGED <<heap, heapIndex, pc>>
    BY <1>1, <1>3 DEF HeapPop
  <2>2. IndexAgrees' /\ Used' = Used \ {0}
    BY <1>1, <2>1, DropKeepsIndex
  <2>3. TypeOK'
    <3>1. size' \in 0 .. TMMaxTasks
      BY <1>1, HeapAssumption DEF TypeOK
    <3> QED
      BY <1>1, <2>1, <3>1 DEF TypeOK
  <2>4. HeapOrder'
    BY <1>1, <2>1, <2>2 DEF HeapOrder, OutOfOrder, Due
  <2> QED
    BY <1>1, <2>1, <2>2, <2>3, <2>4
<1> QED
  BY <1>2, <1>3

-----------------------------------------------------------------------------
(* The theorems.                                                           *)

\* The heap starts empty.
LEMMA HeapInit == Init => HeapInv
BY HeapAssumption DEF Init, HeapInv, TypeOK, IndexAgrees, HeapOrder, OutOfOrder, Used, Indices

\* Every step keeps the invariant.
LEMMA HeapStep == HeapInv /\ [Next]_vars => HeapInv'
<1>1. HeapInv /\ UNCHANGED vars => HeapInv'
  BY DEF vars, HeapInv, TypeOK, IndexAgrees, HeapOrder, OutOfOrder, Used, Due
<1> QED
  BY <1>1, PushStep, PopStep, RemoveStep, SiftUpStep, SiftUpEnds, SiftDownStep, SiftDownEnds
     DEF Next

\* The array is a heap whenever no loop is at work on it.
THEOREM HeapCorrect == Spec => []HeapInv
BY HeapInit, HeapStep, PTL DEF Spec

\* Every variable of the heap keeps its type.
THEOREM HeapTypeCorrect == Spec => []TypeOK
<1>1. HeapInv => TypeOK
  BY DEF HeapInv
<1> QED
  BY HeapCorrect, <1>1, PTL

\* HeapRemove finds the entry it is asked for: inHeap and heapIndex agree with
\* the array.
THEOREM HeapIndexCorrect == Spec => []IndexAgrees
<1>1. HeapInv => IndexAgrees
  BY DEF HeapInv
<1> QED
  BY HeapCorrect, <1>1, PTL

\* No used place of a heap in order holds an earlier deadline than the root: the
\* first one that did would have such a parent.
LEMMA RootIsLeast ==
    ASSUME HeapInv, pc = "idle", NEW i \in Used
    PROVE  Due(0) <= Due(i)
<1> DEFINE Earlier == {j \in Used : Due(j) < Due(0)}
<1>1. /\ 0 \in Used /\ Used \subseteq Nat
      /\ \A j \in Used : Due(j) \in Nat
  BY UsedEntries DEF HeapInv, Used, TypeOK
<1>2. CASE Earlier # {}
  <2>1. PICK j \in Earlier : \A k \in Earlier : ~(<<k, j>> \in OpToRel(<, Nat))
    <3>1. Earlier \subseteq Nat
      BY <1>1
    <3> QED
      BY <1>2, <3>1, NatLessThanWellFounded, WFMin
  <2>2. \A k \in Earlier : ~(k < j)
    BY <1>1, <2>1 DEF OpToRel
  <2>3. j \in Used \ {0} /\ Parent(j) \in Used /\ Parent(j) < j
    BY <1>1, ParentBefore DEF HeapInv, Used, TypeOK
  <2>4. Due(Parent(j)) <= Due(j)
    BY <2>3 DEF HeapInv, HeapOrder, OutOfOrder
  <2>5. Due(Parent(j)) < Due(0)
    <3>1. Due(j) < Due(0)
      BY <2>1
    <3>2. Due(Parent(j)) \in Nat /\ Due(j) \in Nat /\ Due(0) \in Nat
      BY <1>1, <2>3
    <3> QED
      BY <2>4, <3>1, <3>2
  <2>6. Parent(j) \in Earlier
    BY <2>3, <2>5
  <2> QED
    BY <2>2, <2>3, <2>6
<1>3. CASE Earlier = {}
  BY <1>1, <1>3
<1> QED
  BY <1>2, <1>3

\* gHeap[0] is the earliest pending entry whenever the Time Manager reads it.
THEOREM HeapRootCorrect == Spec => []RootIsEarliest
<1>1. HeapInv => RootIsEarliest
  <2> SUFFICES ASSUME HeapInv, pc = "idle", NEW e \in inHeap
               PROVE  Due(0) <= deadline[e]
    BY DEF RootIsEarliest
  <2>1. heapIndex[e] \in Used /\ Due(heapIndex[e]) = deadline[e]
    BY DEF HeapInv, IndexAgrees, Due
  <2> QED
    BY <2>1, RootIsLeast
<1> QED
  BY HeapCorrect, <1>1, PTL
=============================================================================
