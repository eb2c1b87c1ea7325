-------------------------- MODULE EventQueueProofs --------------------------
(***************************************************************************)
(* Theorems about EventQueue, for every size of the ring and every set of  *)
(* kinds and masks.  They speak of a ring that no interrupt posts to and   *)
(* that is flushed without a stop mask: with either the code breaks them.  *)
(***************************************************************************)
EXTENDS EventQueue, FiniteSetTheorems, TLAPS

Undisturbed ==
    /\ IrqKinds = {}
    /\ \A f \in Flushes : f[2] = {}

\* What each step of a call knows of the counters.
Bounds ==
    /\ pc \in {"store", "tail", "count"} => count < QueueSize /\ posting \in Events
    /\ pc \in {"takeHead", "takeCount"} => count > 0
    /\ pc = "scan" => rotations <= count
    /\ pc \in {"rotHead", "rotTail"} => rotations < count
    /\ pc = "flush" =>
          /\ stopMask = {}
          /\ left <= count
          /\ writeIdx = Wrap(head + (count - left))
          /\ \E gap \in 0 .. QueueSize - left : readIdx = Wrap(writeIdx + gap)

RingInv == TypeOK /\ RingAgrees /\ Bounds

-----------------------------------------------------------------------------
(* Indices.                                                                *)

LEMMA WrapType ==
    ASSUME NEW i \in 0 .. 2 * QueueSize - 1
    PROVE  Wrap(i) \in Indices
BY QueueAssumption DEF Wrap, Indices

LEMMA SuccType ==
    ASSUME NEW i \in Indices
    PROVE  Succ(i) \in Indices
BY QueueAssumption DEF Succ, Wrap, Indices

\* A step of an index is a step of its distance.
LEMMA SuccWrap ==
    ASSUME NEW i \in Indices, NEW d \in 0 .. QueueSize
    PROVE  /\ d < QueueSize => Succ(Wrap(i + d)) = Wrap(i + (d + 1))
           /\ d > 0 => Wrap(Succ(i) + (d - 1)) = Wrap(i + d)
BY QueueAssumption DEF Succ, Wrap, Indices

LEMMA SuccOfWrap ==
    ASSUME NEW i \in Indices, NEW d \in 0 .. QueueSize
    PROVE  Succ(Wrap(i + d)) = Wrap(Succ(i) + d)
BY QueueAssumption DEF Succ, Wrap, Indices

\* Distances add up.
LEMMA WrapOfWrap ==
    ASSUME NEW i \in Indices, NEW c \in Nat, NEW d \in Nat, c + d <= QueueSize
    PROVE  Wrap(Wrap(i + c) + d) = Wrap(i + (c + d))
BY QueueAssumption DEF Wrap, Indices

\* Two distances below the size of the ring from one index are two places.
LEMMA WrapInjective ==
    ASSUME NEW i \in Indices, NEW c \in 0 .. QueueSize - 1, NEW d \in 0 .. QueueSize - 1,
           Wrap(i + c) = Wrap(i + d)
    PROVE  c = d
BY QueueAssumption DEF Wrap, Indices

-----------------------------------------------------------------------------
(* Head, tail and count.                                                   *)

LEMMA RingInvInit == Init => RingInv
<1> SUFFICES ASSUME Init PROVE RingInv
  OBVIOUS
<1> USE QueueAssumption DEF Init
<1>1. 0 \in Indices /\ Wrap(0) = 0
  BY DEF Indices, Wrap
<1>2. TypeOK
  <2>1. slots \in [Indices -> Events \cup {NoEvent}]
    OBVIOUS
  <2>2. offered \in [mask : SUBSET Kinds, event : Events \cup {NoEvent}]
    BY DEF NoOffer
  <2>3. turned \in BOOLEAN /\ owed \subseteq Events /\ wanted \subseteq Kinds
    OBVIOUS
  <2>4. 0 \in 0 .. MaxPosts /\ 0 \in 0 .. QueueSize
    OBVIOUS
  <2> HIDE DEF Events, NoEvent
  <2> QED
    BY <1>1, <2>1, <2>2, <2>3, <2>4, Zenon DEF TypeOK
<1>3. RingAgrees /\ Bounds
  BY <1>1 DEF RingAgrees, Bounds
<1> QED
  BY <1>2, <1>3 DEF RingInv

LEMMA PostKeepsRing ==
    ASSUME RingInv, (\E k \in Kinds : PostBegin(k)) \/ PostStore \/ PostTail \/ PostCount
    PROVE  RingInv'
<1> USE QueueAssumption DEF RingInv, TypeOK, RingAgrees, Bounds, ringVars, searchVars,
        flushVars, ghostVars
<1>1. ASSUME NEW k \in Kinds, PostBegin(k) PROVE RingInv'
  BY <1>1 DEF PostBegin, HasRoom, Events
<1>2. CASE PostStore
  BY <1>2 DEF PostStore
<1>3. CASE PostTail
  <2>1. tail' \in Indices
    BY <1>3, SuccType DEF PostTail
  <2>2. tail' = Wrap(head + (count + 1))
    BY <1>3, SuccWrap DEF PostTail
  <2> QED
    BY <1>3, <2>1, <2>2 DEF PostTail
<1>4. CASE PostCount
  BY <1>4 DEF PostCount
<1> QED
  BY <1>1, <1>2, <1>3, <1>4

LEMMA GetKeepsRing ==
    ASSUME RingInv,
           \/ \E mask \in Masks : GetBegin(mask) \/ EventAvail(mask)
           \/ GetFinds \/ TakeHead \/ TakeCount
           \/ Rotate \/ RotateHead \/ RotateTail \/ GetNothing
    PROVE  RingInv'
<1> USE QueueAssumption DEF RingInv, TypeOK, RingAgrees, Bounds, ringVars, searchVars,
        flushVars, ghostVars
<1>1. ASSUME NEW mask \in Masks, GetBegin(mask) PROVE RingInv'
  BY <1>1 DEF GetBegin
<1>2. ASSUME NEW mask \in Masks, EventAvail(mask) PROVE RingInv'
  <2>1. PICK i \in 1 .. count : offered' = [mask |-> mask, event |-> Contents[i]]
    BY <1>2 DEF EventAvail, Held
  <2>2. Contents[i] = slots[Wrap(head + (i - 1))]
    BY <1>2 DEF EventAvail, Contents, Place, Held
  <2>3. Wrap(head + (i - 1)) \in Indices
    <3>1. head + (i - 1) \in 0 .. 2 * QueueSize - 1
      BY DEF Indices
    <3> QED
      BY <3>1, WrapType
  <2>4. Contents[i] \in Events \cup {NoEvent} /\ mask \in SUBSET Kinds
    BY <2>2, <2>3
  <2>5. offered' \in [mask : SUBSET Kinds, event : Events \cup {NoEvent}]
    BY <2>1, <2>4
  <2>6. UNCHANGED <<ringVars, ticks, pc, posting, wanted, rotations, flushVars, ghostVars>>
    BY <1>2 DEF EventAvail
  <2>7. TypeOK'
    BY <2>5, <2>6
  <2>8. RingAgrees' /\ Bounds'
    BY <2>6
  <2> QED
    BY <2>7, <2>8
<1>3. CASE GetFinds
  BY <1>3 DEF GetFinds, Searching
<1>4. CASE TakeHead
  <2>1. head' \in Indices
    BY <1>4, SuccType DEF TakeHead
  <2>2. tail' = Wrap(head' + (count - 1))
    BY <1>4, SuccWrap DEF TakeHead
  <2> QED
    BY <1>4, <2>1, <2>2 DEF TakeHead
<1>5. CASE TakeCount
  BY <1>5 DEF TakeCount, NoOffer
<1>6. CASE Rotate
  BY <1>6 DEF Rotate, Searching
<1>7. CASE RotateHead
  <2>1. head' \in Indices
    BY <1>7, SuccType DEF RotateHead
  <2>2. tail' = Wrap(head' + (count - 1))
    BY <1>7, SuccWrap DEF RotateHead
  <2> QED
    BY <1>7, <2>1, <2>2 DEF RotateHead
<1>8. CASE RotateTail
  <2>1. tail' \in Indices
    BY <1>8, SuccType DEF RotateTail
  <2>2. tail' = Wrap(head + count)
    BY <1>8, SuccWrap DEF RotateTail
  <2> QED
    BY <1>8, <2>1, <2>2 DEF RotateTail
<1>9. CASE GetNothing
  BY <1>9 DEF GetNothing, NoOffer
<1> QED
  BY <1>1, <1>2, <1>3, <1>4, <1>5, <1>6, <1>7, <1>8, <1>9

LEMMA FlushKeepsRing ==
    ASSUME Undisturbed, RingInv,
           \/ \E f \in Flushes : FlushBegin(f[1], f[2])
           \/ FlushKeeps \/ FlushDrops \/ FlushEnds
    PROVE  RingInv'
<1> USE QueueAssumption DEF RingInv, TypeOK, RingAgrees, Bounds, ringVars, searchVars,
        flushVars, ghostVars
<1>1. ASSUME NEW f \in Flushes, FlushBegin(f[1], f[2]) PROVE RingInv'
  <2>1. f[1] \in SUBSET Kinds /\ f[2] = {}
    BY DEF Undisturbed
  <2>2. writeIdx' = Wrap(head + 0) /\ readIdx' = Wrap(writeIdx' + 0)
    BY <1>1 DEF FlushBegin, Wrap, Indices
  <2>3. 0 \in 0 .. QueueSize - count
    OBVIOUS
  <2>4. TypeOK'
    BY <1>1, <2>1 DEF FlushBegin, NoOffer
  <2> QED
    BY <1>1, <2>1, <2>2, <2>3, <2>4 DEF FlushBegin
<1>2. CASE FlushKeeps \/ FlushDrops
  <2>1. /\ left > 0 /\ left' = left - 1 /\ pc = "flush" /\ pc' = pc
        /\ readIdx' = Succ(readIdx) /\ readIdx' \in Indices
        /\ stopMask' = {} /\ head' = head /\ tail' = tail
    BY <1>2, SuccType DEF FlushKeeps, FlushDrops, Flushing
  <2>2. tail' = Wrap(readIdx' + left')
    BY <2>1, SuccWrap
  <2>3. PICK gap \in 0 .. QueueSize - left : readIdx = Wrap(writeIdx + gap)
    BY <2>1
  <2>4. CASE FlushKeeps
    <3>1. /\ writeIdx' = Succ(writeIdx) /\ writeIdx' \in Indices /\ count' = count
      BY <2>4, SuccType DEF FlushKeeps
    <3>2. writeIdx' = Wrap(head + ((count - left) + 1))
      BY <2>1, <3>1, SuccWrap
    <3>3. readIdx' = Wrap(writeIdx' + gap)
      BY <2>1, <2>3, <3>1, SuccOfWrap
    <3>4. TypeOK'
      BY <2>4, <2>1, <3>1 DEF FlushKeeps
    <3>5. Wrap(writeIdx' + left') = Wrap(head' + count')
      BY <2>1, <3>1, SuccWrap
    <3>6. gap \in 0 .. QueueSize - left'
      BY <2>1
    <3> QED
      BY <2>1, <2>2, <3>1, <3>2, <3>3, <3>4, <3>5, <3>6
  <2>5. CASE FlushDrops
    <3>1. writeIdx' = writeIdx /\ count' = count - 1
      BY <2>5 DEF FlushDrops
    <3>2. writeIdx' = Wrap(head + (count' - left'))
      BY <2>1, <3>1
    <3>3. readIdx' = Wrap(writeIdx + (gap + 1))
      BY <2>1, <2>3, SuccWrap
    <3>4. TypeOK'
      BY <2>5, <2>1, <3>1 DEF FlushDrops
    <3>5. Wrap(writeIdx' + left') = Wrap(head' + count')
      BY <2>1, <3>1, <3>2, WrapOfWrap
    <3>6. gap + 1 \in 0 .. QueueSize - left'
      BY <2>1
    <3> QED
      BY <2>1, <2>2, <3>1, <3>2, <3>3, <3>4, <3>5, <3>6
  <2> QED
    BY <1>2, <2>4, <2>5
<1>3. CASE FlushEnds
  <2>1. left = 0
    BY <1>3 DEF FlushEnds, Flushing
  <2>2. tail = readIdx /\ writeIdx = Wrap(head + count)
    BY <1>3, <2>1 DEF FlushEnds, Wrap, Indices
  <2>3. tail' = Wrap(head + count) /\ tail' \in Indices
    BY <1>3, <2>2 DEF FlushEnds, FlushedTail
  <2> QED
    BY <1>3, <2>3 DEF FlushEnds, Indices
<1> QED
  BY <1>1, <1>2, <1>3

LEMMA RingInvStep == ASSUME Undisturbed PROVE RingInv /\ [Next]_vars => RingInv'
<1> SUFFICES ASSUME RingInv, [Next]_vars PROVE RingInv'
  OBVIOUS
<1>1. CASE UNCHANGED vars
  BY <1>1 DEF vars, ringVars, callVars, searchVars, flushVars, ghostVars,
              RingInv, TypeOK, RingAgrees, Bounds
<1> QED
  BY <1>1, PostKeepsRing, GetKeepsRing, FlushKeepsRing DEF Next, Undisturbed

\* Head, tail and count agree in every step of PostEvent, GetNextEvent and
\* FlushEvents.
THEOREM RingCorrect == ASSUME Undisturbed PROVE Spec => [](TypeOK /\ RingAgrees)
<1>1. RingInv => TypeOK /\ RingAgrees
  BY DEF RingInv
<1> QED
  BY <1>1, RingInvInit, RingInvStep, PTL DEF Spec

\* By itself, that every variable of the event queue keeps its type.
THEOREM RingTypeCorrect == ASSUME Undisturbed PROVE Spec => []TypeOK
BY RingCorrect, PTL

-----------------------------------------------------------------------------
(* Lists without repetition.                                               *)

\* The first n places of C hold the members of W, each once.
Lists(C, n, W) ==
    /\ \A i \in 1 .. n : C[i] \in W
    /\ \A e \in W : \E i \in 1 .. n : C[i] = e
    /\ \A i, j \in 1 .. n : C[i] = C[j] => i = j

LEMMA ListsSame ==
    ASSUME NEW C, NEW D, NEW n \in Nat, NEW W,
           Lists(C, n, W), \A i \in 1 .. n : D[i] = C[i]
    PROVE  Lists(D, n, W)
BY DEF Lists

LEMMA ListsAppend ==
    ASSUME NEW C, NEW D, NEW n \in Nat, NEW W, NEW e, e \notin W,
           Lists(C, n, W), \A i \in 1 .. n : D[i] = C[i], D[n + 1] = e
    PROVE  Lists(D, n + 1, W \cup {e})
<1>1. \A i \in 1 .. n + 1 : i \in 1 .. n \/ i = n + 1
  OBVIOUS
<1>2. \A i \in 1 .. n + 1 : D[i] \in W \cup {e}
  BY <1>1 DEF Lists
<1>3. \A x \in W \cup {e} : \E i \in 1 .. n + 1 : D[i] = x
  BY DEF Lists
<1>4. \A i, j \in 1 .. n + 1 : D[i] = D[j] => i = j
  BY <1>1 DEF Lists
<1> QED
  BY <1>2, <1>3, <1>4 DEF Lists

\* Taking the member at place k away moves up those behind it.
LEMMA ListsRemove ==
    ASSUME NEW C, NEW D, NEW n \in Nat, NEW W, NEW k \in 1 .. n,
           Lists(C, n, W),
           \A i \in 1 .. k - 1 : D[i] = C[i],
           \A i \in k .. n - 1 : D[i] = C[i + 1]
    PROVE  Lists(D, n - 1, W \ {C[k]})
<1> DEFINE From(i) == IF i < k THEN i ELSE i + 1
<1>1. \A i \in 1 .. n - 1 : From(i) \in 1 .. n /\ From(i) # k /\ D[i] = C[From(i)]
  OBVIOUS
<1>2. \A i \in 1 .. n - 1 : D[i] \in W \ {C[k]}
  BY <1>1 DEF Lists
<1>3. \A x \in W \ {C[k]} : \E i \in 1 .. n - 1 : D[i] = x
  <2> SUFFICES ASSUME NEW x \in W \ {C[k]} PROVE \E i \in 1 .. n - 1 : D[i] = x
    OBVIOUS
  <2>1. PICK j \in 1 .. n : C[j] = x
    BY DEF Lists
  <2>2. CASE j < k
    BY <2>1, <2>2
  <2>3. CASE j > k
    <3>1. j - 1 \in k .. n - 1 /\ (j - 1) + 1 = j
      BY <2>3
    <3> QED
      BY <2>1, <3>1
  <2> QED
    BY <2>1, <2>2, <2>3
<1>4. \A i, j \in 1 .. n - 1 : D[i] = D[j] => i = j
  BY <1>1 DEF Lists
<1> QED
  BY <1>2, <1>3, <1>4 DEF Lists

\* Moving the first member behind the last changes the list only.
LEMMA ListsRotate ==
    ASSUME NEW C, NEW D, NEW n \in Nat \ {0}, NEW W,
           Lists(C, n, W),
           \A i \in 1 .. n - 1 : D[i] = C[i + 1],
           D[n] = C[1]
    PROVE  Lists(D, n, W)
<1> DEFINE From(i) == IF i < n THEN i + 1 ELSE 1
<1>1. \A i \in 1 .. n : From(i) \in 1 .. n /\ D[i] = C[From(i)]
  OBVIOUS
<1>2. \A i \in 1 .. n : D[i] \in W
  BY <1>1 DEF Lists
<1>3. \A x \in W : \E i \in 1 .. n : D[i] = x
  <2> SUFFICES ASSUME NEW x \in W PROVE \E i \in 1 .. n : D[i] = x
    OBVIOUS
  <2>1. PICK j \in 1 .. n : C[j] = x
    BY DEF Lists
  <2>2. CASE j = 1
    BY <2>1, <2>2
  <2>3. CASE j > 1
    <3>1. j - 1 \in 1 .. n - 1 /\ (j - 1) + 1 = j
      BY <2>3
    <3> QED
      BY <2>1, <3>1
  <2> QED
    BY <2>1, <2>2, <2>3
<1>4. \A i, j \in 1 .. n : D[i] = D[j] => i = j
  BY <1>1 DEF Lists
<1> QED
  BY <1>2, <1>3, <1>4 DEF Lists

-----------------------------------------------------------------------------
(* What is in the queue.                                                   *)

\* The events that are in the queue while a call runs: GetNextEvent has promised
\* its caller the one at the head before it moves the head past it.
Waiting == IF pc = "takeHead" THEN owed \cup {slots[head]} ELSE owed

\* Nobody has yet been given an event as late as the one that is posted, and the
\* copies of PostEvent and of a rotation are where the next step will look.
Fresh ==
    /\ \A e \in owed : e.when <= ticks
    /\ pc \in {"store", "tail", "count"} =>
          /\ posting.when = ticks
          /\ \A e \in owed : e.when < ticks
    /\ pc = "tail" => slots[tail] = posting
    /\ pc = "count" => slots[Wrap(head + count)] = posting
    /\ pc = "rotHead" => slots[tail] = slots[head]
    /\ pc = "takeHead" => slots[head] \notin owed

OnceInv ==
    /\ RingInv
    /\ Fresh
    /\ Lists(Contents, Held, Waiting)

\* How many events of the ring the search has turned round.
Turned ==
    IF pc \in {"scan", "rotHead"} THEN rotations
    ELSE IF pc = "rotTail" THEN rotations + 1
    ELSE 0

\* The first n places of C are in the order of the posts, but for the last r,
\* which belong in front of the others.
InOrder(C, n, r) ==
    \A i, j \in 1 .. n :
        i < j => IF i <= n - r /\ n - r < j THEN C[j].when < C[i].when
                                           ELSE C[i].when < C[j].when

OrderInv ==
    /\ OnceInv
    /\ turned \in BOOLEAN
    /\ ~turned => /\ InOrder(Contents, Held, Turned)
                  /\ pc = "takeHead" => rotations = 0

-----------------------------------------------------------------------------
(* How a step changes the list of what is in the queue.                    *)

LEMMA HeldType == RingInv => Held \in 0 .. QueueSize
BY QueueAssumption DEF RingInv, TypeOK, Bounds, Held

\* Most steps leave it alone: they move the tail or the counters of the call, or
\* write to the slot of the tail, where no event waits that would be lost.
LEMMA StepKeepsContents ==
    ASSUME RingInv,
           \/ \E k \in Kinds : PostBegin(k)
           \/ PostTail
           \/ \E mask \in Masks : GetBegin(mask) \/ EventAvail(mask)
           \/ GetFinds \/ TakeCount \/ RotateTail \/ GetNothing
           \/ \E f \in Flushes : FlushBegin(f[1], f[2])
    PROVE  Held' = Held /\ \A i \in 1 .. Held : Contents'[i] = Contents[i]
<1> USE DEF Contents, Place, Held
<1>1. CASE \E k \in Kinds : PostBegin(k)
  BY <1>1 DEF PostBegin, ringVars
<1>2. CASE PostTail
  BY <1>2 DEF PostTail
<1>3. CASE \E mask \in Masks : GetBegin(mask) \/ EventAvail(mask)
  <2>1. /\ pc = "idle" /\ pc' \in {"idle", "scan"}
        /\ slots' = slots /\ head' = head /\ count' = count
    BY <1>3 DEF GetBegin, EventAvail, ringVars
  <2> QED
    BY <2>1
<1>4. CASE GetFinds
  BY <1>4 DEF GetFinds, ringVars
<1>5. CASE TakeCount
  BY <1>5 DEF TakeCount
<1>6. CASE RotateTail
  BY <1>6 DEF RotateTail
<1>7. CASE GetNothing
  BY <1>7 DEF GetNothing, ringVars
<1>8. ASSUME NEW f \in Flushes, FlushBegin(f[1], f[2])
      PROVE  Held' = Held /\ \A i \in 1 .. Held : Contents'[i] = Contents[i]
  <2>1. /\ pc = "idle" /\ pc' = "flush"
        /\ slots' = slots /\ head' = head /\ count' = count /\ left' = count
        /\ readIdx' = head
    BY <1>8 DEF FlushBegin, ringVars
  <2>2. count \in Nat
    BY QueueAssumption DEF RingInv, TypeOK
  <2>3. \A i \in 1 .. count : Wrap(readIdx' + i - 1 - (count' - left')) = Wrap(head + i - 1)
    BY <2>1, <2>2 DEF RingInv, TypeOK, Indices
  <2> QED
    BY <2>1, <2>2, <2>3
<1> QED
  BY <1>1, <1>2, <1>3, <1>4, <1>5, <1>6, <1>7, <1>8

LEMMA CopyKeepsContents ==
    ASSUME RingInv, PostStore \/ Rotate
    PROVE  Held' = Held /\ \A i \in 1 .. Held : Contents'[i] = Contents[i]
<1> USE QueueAssumption
<1>1. /\ head \in Indices /\ head' = head
      /\ count \in 0 .. QueueSize /\ Held = count /\ Held' = count
      /\ tail = Wrap(head + count) /\ tail \in Indices
      /\ pc \notin {"flush", "takeCount"} /\ pc' \notin {"flush", "takeCount"}
  BY DEF PostStore, Rotate, RingInv, TypeOK, RingAgrees, Held
<1>2. \A i \in 1 .. count : /\ Contents[i] = slots[Wrap(head + (i - 1))]
                            /\ Contents'[i] = slots'[Wrap(head + (i - 1))]
  BY <1>1 DEF Contents, Place, Indices
<1>3. SUFFICES ASSUME NEW i \in 1 .. count PROVE Contents'[i] = Contents[i]
  BY <1>1
<1>4. i - 1 \in 0 .. QueueSize - 1 /\ Wrap(head + (i - 1)) \in Indices
  BY <1>1 DEF Wrap, Indices
<1>5. slots \in [Indices -> Events \cup {NoEvent}]
  BY DEF RingInv, TypeOK
<1>6. CASE count < QueueSize
  <2>1. Wrap(head + (i - 1)) # tail
    BY <1>1, <1>4, <1>6, WrapInjective
  <2> QED
    BY <1>2, <1>4, <1>5, <2>1 DEF PostStore, Rotate
<1>7. CASE count = QueueSize
  <2>1. tail = head /\ Rotate
    BY <1>1, <1>7 DEF PostStore, RingInv, Bounds, Wrap, Indices
  <2> QED
    BY <1>1, <1>2, <1>4, <1>5, <2>1 DEF Rotate
<1> QED
  BY <1>1, <1>6, <1>7

\* The first event goes.
LEMMA TakeHeadContents ==
    ASSUME RingInv, TakeHead
    PROVE  /\ Held \in Nat \ {0} /\ Held' = Held - 1
           /\ Contents[1] = slots[head]
           /\ \A i \in 1 .. Held - 1 : Contents'[i] = Contents[i + 1]
<1> USE QueueAssumption
<1>1. /\ head \in Indices /\ head' = Succ(head) /\ slots' = slots
      /\ count \in 1 .. QueueSize /\ Held = count /\ Held' = count - 1
      /\ pc = "takeHead" /\ pc' = "takeCount" /\ count' = count
  BY DEF TakeHead, RingInv, TypeOK, Bounds, Held
<1>2. \A i \in 1 .. count : Contents[i] = slots[Wrap(head + (i - 1))]
  BY <1>1 DEF Contents, Place, Indices
<1>3. \A i \in 1 .. count - 1 : Contents'[i] = slots[Wrap(Succ(head) + ((i + 1) - 1) - 1)]
  BY <1>1, SuccType DEF Contents, Place, Indices
<1>4. \A i \in 1 .. count - 1 : Contents'[i] = Contents[i + 1]
  <2> SUFFICES ASSUME NEW i \in 1 .. count - 1 PROVE Contents'[i] = Contents[i + 1]
    OBVIOUS
  <2>1. Wrap(Succ(head) + (i - 1)) = Wrap(head + i)
    BY <1>1, SuccWrap
  <2>2. Succ(head) \in Int /\ head \in Int
    BY <1>1, SuccType DEF Indices
  <2> QED
    BY <1>1, <1>2, <1>3, <2>1, <2>2
<1>5. Contents[1] = slots[head]
  BY <1>1, <1>2 DEF Wrap, Indices
<1> QED
  BY <1>1, <1>4, <1>5

\* The first event goes behind the last, where Rotate has copied it.
LEMMA RotateHeadContents ==
    ASSUME RingInv, Fresh, RotateHead
    PROVE  /\ Held \in Nat \ {0} /\ Held' = Held
           /\ Contents'[Held] = Contents[1]
           /\ \A i \in 1 .. Held - 1 : Contents'[i] = Contents[i + 1]
<1> USE QueueAssumption
<1>1. /\ head \in Indices /\ head' = Succ(head) /\ slots' = slots
      /\ count \in 1 .. QueueSize /\ Held = count /\ Held' = count
      /\ pc = "rotHead" /\ pc' = "rotTail" /\ count' = count
      /\ tail = Wrap(head + count) /\ slots[tail] = slots[head]
  BY DEF RotateHead, RingInv, TypeOK, Bounds, RingAgrees, Held, Fresh
<1>2. \A i \in 1 .. count : /\ Contents[i] = slots[Wrap(head + (i - 1))]
                            /\ Contents'[i] = slots[Wrap(Succ(head) + (i - 1))]
  BY <1>1, SuccType DEF Contents, Place, Indices
<1>3. \A i \in 1 .. count : Contents'[i] = slots[Wrap(head + i)]
  BY <1>1, <1>2, SuccWrap
<1>4. Contents[1] = slots[head]
  BY <1>1, <1>2 DEF Wrap, Indices
<1> QED
  BY <1>1, <1>2, <1>3, <1>4

\* The event posted comes last.
LEMMA PostCountContents ==
    ASSUME RingInv, Fresh, PostCount
    PROVE  /\ Held \in Nat /\ Held' = Held + 1
           /\ Contents'[Held + 1] = posting
           /\ \A i \in 1 .. Held : Contents'[i] = Contents[i]
<1> USE QueueAssumption
<1>1. /\ head \in Indices /\ head' = head /\ slots' = slots
      /\ count \in 0 .. QueueSize /\ Held = count /\ Held' = count + 1
      /\ pc = "count" /\ pc' = "idle" /\ count' = count + 1
      /\ slots[Wrap(head + count)] = posting
  BY DEF PostCount, RingInv, TypeOK, Held, Fresh
<1>2. \A i \in 1 .. count : Contents[i] = slots[Wrap(head + (i - 1))]
  BY <1>1 DEF Contents, Place, Indices
<1>3. \A i \in 1 .. count + 1 : Contents'[i] = slots[Wrap(head + (i - 1))]
  BY <1>1 DEF Contents, Place, Indices
<1> QED
  BY <1>1, <1>2, <1>3

\* While FlushEvents runs: the events kept are at the head, those it has not
\* looked at where it reads.
LEMMA FlushPlaces ==
    ASSUME RingInv, pc = "flush"
    PROVE  /\ \A i \in 1 .. count - left : Contents[i] = slots[Wrap(head + (i - 1))]
           /\ \A i \in count - left + 1 .. count :
                 Contents[i] = slots[Wrap(readIdx + (i - 1 - (count - left)))]
           /\ Held = count
<1>1. /\ count \in Nat /\ left \in Nat /\ left <= count
      /\ head \in Int /\ readIdx \in Int /\ Held = count
  BY QueueAssumption DEF RingInv, TypeOK, Bounds, Indices, Held
<1> QED
  BY <1>1 DEF Contents, Place

\* An event that is kept moves up to those kept before it, onto no event that has
\* not been looked at.
LEMMA FlushKeepsContents ==
    ASSUME Undisturbed, RingInv, FlushKeeps
    PROVE  Held' = Held /\ \A i \in 1 .. Held : Contents'[i] = Contents[i]
<1> USE QueueAssumption
<1> DEFINE kept == count - left
<1>1. /\ pc = "flush" /\ pc' = "flush" /\ left > 0
      /\ head' = head /\ count' = count /\ left' = left - 1
      /\ writeIdx' = Succ(writeIdx) /\ readIdx' = Succ(readIdx)
      /\ slots' = [slots EXCEPT ![writeIdx] = slots[readIdx]]
  BY DEF FlushKeeps, Flushing, searchVars, ghostVars
<1>2. /\ head \in Indices /\ readIdx \in Indices /\ writeIdx \in Indices
      /\ count \in 0 .. QueueSize /\ left \in 1 .. count
      /\ slots \in [Indices -> Events \cup {NoEvent}]
      /\ writeIdx = Wrap(head + kept)
  BY <1>1 DEF RingInv, TypeOK, Bounds
<1>3. PICK gap \in 0 .. QueueSize - left : readIdx = Wrap(writeIdx + gap)
  BY <1>1 DEF RingInv, Bounds
<1>4. RingInv'
  BY FlushKeepsRing
<1>5. /\ \A i \in 1 .. kept + 1 : Contents'[i] = slots'[Wrap(head + (i - 1))]
      /\ \A i \in kept + 2 .. count :
            Contents'[i] = slots'[Wrap(Succ(readIdx) + (i - 1 - (kept + 1)))]
      /\ Held' = count
  <2>1. /\ head' \in Int /\ readIdx' \in Int
    BY <1>4 DEF RingInv, TypeOK, Indices
  <2> QED
    BY <1>1, <1>2, <2>1 DEF Contents, Place, Held
<1>6. Held = count
  BY <1>1 DEF Held
<1> SUFFICES ASSUME NEW i \in 1 .. count PROVE Contents'[i] = Contents[i]
  BY <1>5, <1>6
<1>7. CASE i <= kept
  <2>1. Wrap(head + (i - 1)) # writeIdx
    BY <1>2, <1>7, WrapInjective
  <2>2. Wrap(head + (i - 1)) \in Indices
    BY <1>2 DEF Wrap, Indices
  <2>3. Contents'[i] = slots[Wrap(head + (i - 1))]
    BY <1>1, <1>2, <1>5, <1>7, <2>1, <2>2
  <2> QED
    BY <1>1, <1>2, <1>7, <2>3, FlushPlaces
<1>8. CASE i = kept + 1
  <2>1. Contents'[i] = slots[readIdx]
    BY <1>1, <1>2, <1>5, <1>8
  <2>2. Contents[i] = slots[Wrap(readIdx + 0)]
    BY <1>1, <1>2, <1>8, FlushPlaces
  <2> QED
    BY <1>2, <2>1, <2>2 DEF Wrap, Indices
<1>9. CASE i > kept + 1
  <2> DEFINE d == i - 1 - kept
  <2>1. d \in 1 .. left - 1
    BY <1>2, <1>9
  <2>2. Wrap(Succ(readIdx) + (d - 1)) = Wrap(readIdx + d)
    BY <1>2, <2>1, SuccWrap
  <2>3. Wrap(readIdx + d) # writeIdx
    BY <1>2, <1>3, <2>1 DEF Wrap, Indices
  <2>4. Wrap(readIdx + d) \in Indices
    BY <1>2, <2>1 DEF Wrap, Indices
  <2>5. Contents'[i] = slots'[Wrap(readIdx + d)]
    BY <1>2, <1>5, <1>9, <2>2
  <2>6. Contents'[i] = slots[Wrap(readIdx + d)]
    BY <1>1, <1>2, <2>3, <2>4, <2>5
  <2> QED
    BY <1>1, <1>2, <1>9, <2>6, FlushPlaces
<1> QED
  BY <1>2, <1>7, <1>8, <1>9

\* An event that is dropped goes from behind those that are kept.
LEMMA FlushDropsContents ==
    ASSUME RingInv, FlushDrops
    PROVE  /\ Held \in Nat \ {0} /\ Held' = Held - 1
           /\ count - left + 1 \in 1 .. Held
           /\ Contents[count - left + 1] = slots[readIdx]
           /\ \A i \in 1 .. count - left : Contents'[i] = Contents[i]
           /\ \A i \in count - left + 1 .. Held - 1 : Contents'[i] = Contents[i + 1]
<1> USE QueueAssumption
<1> DEFINE kept == count - left
<1>1. /\ pc = "flush" /\ pc' = "flush" /\ left > 0
      /\ head' = head /\ count' = count - 1 /\ left' = left - 1
      /\ readIdx' = Succ(readIdx) /\ slots' = slots
  BY DEF FlushDrops, Flushing
<1>2. /\ head \in Indices /\ readIdx \in Indices /\ readIdx' \in Indices
      /\ count \in 0 .. QueueSize /\ left \in 1 .. count
      /\ kept \in 0 .. count - 1
  BY <1>1, SuccType DEF RingInv, TypeOK, Bounds
<1>3. Held = count /\ Held' = count - 1
  BY <1>1 DEF Held
<1>4. /\ \A i \in 1 .. kept : Contents'[i] = slots[Wrap(head + (i - 1))]
      /\ \A i \in kept + 1 .. count - 1 :
            Contents'[i] = slots[Wrap(Succ(readIdx) + (i - 1 - kept))]
  BY <1>1, <1>2, <1>3 DEF Contents, Place, Indices
<1>5. \A i \in 1 .. kept : Contents'[i] = Contents[i]
  BY <1>1, <1>4, FlushPlaces
<1>6. ASSUME NEW i \in kept + 1 .. count - 1 PROVE Contents'[i] = Contents[i + 1]
  <2> DEFINE d == i - kept
  <2>1. d \in 1 .. left - 1
    BY <1>2
  <2>2. Wrap(Succ(readIdx) + (d - 1)) = Wrap(readIdx + d)
    BY <1>2, <2>1, SuccWrap
  <2>3. Contents'[i] = slots[Wrap(readIdx + d)]
    BY <1>2, <1>4, <2>2
  <2>4. Contents[i + 1] = slots[Wrap(readIdx + d)]
    BY <1>1, <1>2, FlushPlaces
  <2> QED
    BY <2>3, <2>4
<1>7. Contents[kept + 1] = slots[readIdx]
  <2>1. Contents[kept + 1] = slots[Wrap(readIdx + 0)]
    BY <1>1, <1>2, FlushPlaces
  <2> QED
    BY <1>2, <2>1 DEF Wrap, Indices
<1> QED
  BY <1>2, <1>3, <1>5, <1>6, <1>7

LEMMA FlushEndsContents ==
    ASSUME Undisturbed, RingInv, FlushEnds
    PROVE  Held' = Held /\ \A i \in 1 .. Held : Contents'[i] = Contents[i]
<1> USE QueueAssumption
<1>1. /\ pc = "flush" /\ pc' = "idle" /\ slots' = slots /\ head' = head
      /\ count' = count /\ Held = count /\ Held' = count
  BY DEF FlushEnds, Held
<1>2. left = 0 /\ head \in Indices /\ count \in 0 .. QueueSize
  BY <1>1 DEF FlushEnds, Flushing, RingInv, TypeOK, Bounds
<1>3. \A i \in 1 .. count : Contents'[i] = slots[Wrap(head + (i - 1))]
  BY <1>1, <1>2 DEF Contents, Place, Indices
<1> QED
  BY <1>1, <1>2, <1>3, FlushPlaces

-----------------------------------------------------------------------------
(* Every event is in the queue once.                                       *)

LEMMA OnceInvInit == Init => OnceInv
<1> SUFFICES ASSUME Init PROVE OnceInv
  OBVIOUS
<1>1. RingInv
  BY RingInvInit
<1>2. Fresh
  BY DEF Init, Fresh
<1>3. Held = 0 /\ Waiting = {}
  BY DEF Init, Held, Waiting
<1>4. Lists(Contents, Held, Waiting)
  BY <1>3 DEF Lists
<1> QED
  BY <1>1, <1>2, <1>4 DEF OnceInv

\* The slot GetNextEvent finds its event in holds the first one of the queue.
LEMMA HeadIsFirst ==
    ASSUME RingInv, pc \in {"scan", "takeHead", "rotHead"}, count > 0
    PROVE  Held = count /\ Contents[1] = slots[head]
<1>1. count \in Nat /\ head \in Indices /\ Held = count
  BY QueueAssumption DEF RingInv, TypeOK, Held
<1>2. Contents[1] = slots[Wrap(head + 0)]
  BY <1>1 DEF Contents, Place, Indices
<1> QED
  BY <1>1, <1>2, QueueAssumption DEF Wrap, Indices

LEMMA FreshStep ==
    ASSUME Undisturbed, OnceInv, [Next]_vars
    PROVE  Fresh'
<1> USE QueueAssumption DEF Fresh, OnceInv
<1>1. /\ ticks \in Nat /\ slots \in [Indices -> Events \cup {NoEvent}]
      /\ head \in Indices /\ tail \in Indices
      /\ \A e \in owed : e.when \in Nat
  BY DEF RingInv, TypeOK, Events
<1>2. ASSUME NEW k \in Kinds, PostBegin(k) PROVE Fresh'
  BY <1>1, <1>2 DEF PostBegin, ringVars, ghostVars
<1>3. CASE PostStore
  BY <1>1, <1>3 DEF PostStore, ghostVars
<1>4. CASE PostTail
  <2>1. pc = "tail" /\ tail = Wrap(head + count)
    BY <1>4 DEF PostTail, RingInv, RingAgrees
  <2> QED
    BY <1>4, <2>1 DEF PostTail, ghostVars
<1>5. CASE PostCount
  BY <1>1, <1>5 DEF PostCount
<1>6. ASSUME NEW mask \in Masks, GetBegin(mask) \/ EventAvail(mask) PROVE Fresh'
  <2>1. /\ pc' \in {"idle", "scan"} /\ owed' = owed /\ ticks' = ticks
    BY <1>6 DEF GetBegin, EventAvail, ghostVars
  <2> QED
    BY <2>1
<1>7. CASE GetFinds
  BY <1>7 DEF GetFinds, ringVars
<1>8. CASE TakeHead \/ TakeCount \/ RotateHead \/ RotateTail \/ GetNothing
  <2>1. /\ pc' \in {"takeCount", "idle", "rotTail", "scan"} /\ owed' = owed /\ ticks' = ticks
    BY <1>8 DEF TakeHead, TakeCount, RotateHead, RotateTail, GetNothing, ghostVars
  <2> QED
    BY <2>1
<1>9. CASE Rotate
  BY <1>1, <1>9 DEF Rotate, ghostVars
<1>10. ASSUME NEW f \in Flushes, FlushBegin(f[1], f[2]) PROVE Fresh'
  BY <1>10 DEF FlushBegin, ghostVars
<1>11. CASE FlushKeeps \/ FlushDrops \/ FlushEnds
  <2>1. /\ pc' \in {"flush", "idle"} /\ owed' \subseteq owed /\ ticks' = ticks
    BY <1>11 DEF FlushKeeps, FlushDrops, FlushEnds, Flushing, ghostVars
  <2> QED
    BY <2>1
<1>12. CASE UNCHANGED vars
  BY <1>12 DEF vars, ringVars, callVars, ghostVars
<1> QED
  BY <1>2, <1>3, <1>4, <1>5, <1>6, <1>7, <1>8, <1>9, <1>10, <1>11, <1>12
     DEF Next, Undisturbed

LEMMA ListsStep ==
    ASSUME Undisturbed, OnceInv, [Next]_vars
    PROVE  Lists(Contents', Held', Waiting')
<1> USE DEF OnceInv
<1>1. Held \in Nat
  BY HeldType, QueueAssumption
<1>2. ASSUME Held' = Held, \A i \in 1 .. Held : Contents'[i] = Contents[i],
             Waiting' = Waiting
      PROVE  Lists(Contents', Held', Waiting')
  BY <1>1, <1>2, ListsSame
<1>3. CASE PostCount
  <2>1. /\ Waiting = owed /\ Waiting' = owed \cup {posting}
        /\ posting \notin owed
    <3>1. \A e \in owed : e.when \in Nat /\ e.when < posting.when
      BY <1>3 DEF PostCount, Fresh, RingInv, TypeOK, Events
    <3> QED
      BY <1>3, <3>1 DEF PostCount, Waiting
  <2> QED
    BY <1>3, <2>1, PostCountContents, ListsAppend
<1>4. CASE TakeHead
  <2>1. /\ Waiting = owed \cup {slots[head]} /\ Waiting' = owed
        /\ slots[head] \notin owed
    BY <1>4 DEF TakeHead, Waiting, Fresh, ghostVars
  <2>2. Waiting' = Waiting \ {Contents[1]}
    BY <1>4, <2>1, TakeHeadContents
  <2>3. \A i \in 1 .. 1 - 1 : Contents'[i] = Contents[i]
    OBVIOUS
  <2>4. 1 \in 1 .. Held
    BY <1>4, TakeHeadContents
  <2>5. Lists(Contents', Held - 1, Waiting \ {Contents[1]})
    BY <1>1, <1>4, <2>3, <2>4, TakeHeadContents, ListsRemove
  <2> QED
    BY <1>4, <2>2, <2>5, TakeHeadContents
<1>5. CASE RotateHead
  <2>1. Waiting' = Waiting
    BY <1>5 DEF RotateHead, Waiting, ghostVars
  <2>2. /\ Held \in Nat \ {0} /\ Held' = Held
        /\ Contents'[Held] = Contents[1]
        /\ \A i \in 1 .. Held - 1 : Contents'[i] = Contents[i + 1]
    BY <1>5, RotateHeadContents
  <2>3. Lists(Contents', Held, Waiting)
    BY <1>1, <2>2, ListsRotate
  <2> QED
    BY <2>1, <2>2, <2>3
<1>6. CASE FlushDrops
  <2>1. Waiting = owed /\ Waiting' = owed \ {slots[readIdx]}
    BY <1>6 DEF FlushDrops, Flushing, Waiting
  <2>2. Lists(Contents', Held - 1, Waiting \ {Contents[count - left + 1]})
    <3>1. (count - left + 1) - 1 = count - left
      BY QueueAssumption DEF RingInv, TypeOK
    <3> QED
      BY <1>1, <1>6, <3>1, FlushDropsContents, ListsRemove
  <2> QED
    BY <1>6, <2>1, <2>2, FlushDropsContents
<1>7. CASE GetFinds
  <2>1. count > 0 /\ pc = "scan"
    BY <1>7, QueueAssumption DEF GetFinds, Searching, RingInv, TypeOK
  <2>2. Held = count /\ Contents[1] = slots[head]
    BY <2>1, HeadIsFirst
  <2>3. slots[head] \in owed
    BY <1>1, <2>1, <2>2 DEF Lists, Waiting
  <2>4. Waiting' = Waiting
    BY <1>7, <2>1, <2>3 DEF GetFinds, Waiting, ringVars
  <2> QED
    BY <1>2, <1>7, <2>4, StepKeepsContents
<1>8. ASSUME NEW k \in Kinds, PostBegin(k) PROVE Lists(Contents', Held', Waiting')
  <2>1. Waiting' = Waiting
    BY <1>8 DEF PostBegin, Waiting, ghostVars
  <2> QED
    BY <1>2, <1>8, <2>1, StepKeepsContents
<1>9. ASSUME NEW mask \in Masks, GetBegin(mask) \/ EventAvail(mask)
      PROVE  Lists(Contents', Held', Waiting')
  <2>1. Waiting' = Waiting
    BY <1>9 DEF GetBegin, EventAvail, Waiting, ghostVars
  <2> QED
    BY <1>2, <1>9, <2>1, StepKeepsContents
<1>10. CASE PostTail \/ TakeCount \/ RotateTail \/ GetNothing
  <2>1. Waiting' = Waiting
    BY <1>10 DEF PostTail, TakeCount, RotateTail, GetNothing, Waiting, ghostVars
  <2> QED
    BY <1>2, <1>10, <2>1, StepKeepsContents
<1>11. CASE PostStore \/ Rotate
  <2>1. Waiting' = Waiting
    BY <1>11 DEF PostStore, Rotate, Waiting, ghostVars
  <2> QED
    BY <1>2, <1>11, <2>1, CopyKeepsContents
<1>12. ASSUME NEW f \in Flushes, FlushBegin(f[1], f[2])
       PROVE  Lists(Contents', Held', Waiting')
  <2>1. Waiting' = Waiting
    BY <1>12 DEF FlushBegin, Waiting, ghostVars
  <2> QED
    BY <1>2, <1>12, <2>1, StepKeepsContents
<1>13. CASE FlushKeeps
  <2>1. Waiting' = Waiting
    BY <1>13 DEF FlushKeeps, Flushing, Waiting, ghostVars
  <2> QED
    BY <1>2, <1>13, <2>1, FlushKeepsContents
<1>14. CASE FlushEnds
  <2>1. Waiting' = Waiting
    BY <1>14 DEF FlushEnds, Waiting, ghostVars
  <2> QED
    BY <1>2, <1>14, <2>1, FlushEndsContents
<1>15. CASE UNCHANGED vars
  BY <1>15 DEF vars, ringVars, callVars, flushVars, ghostVars, Contents, Place, Held, Waiting
<1> QED
  BY <1>3, <1>4, <1>5, <1>6, <1>7, <1>8, <1>9, <1>10, <1>11, <1>12, <1>13, <1>14, <1>15
     DEF Next, Undisturbed

LEMMA OnceInvStep == ASSUME Undisturbed PROVE OnceInv /\ [Next]_vars => OnceInv'
BY RingInvStep, FreshStep, ListsStep DEF OnceInv

\* Every event PostEvent has accepted is in the ring exactly once until
\* GetNextEvent or FlushEvents takes it, and nothing else is.
THEOREM EachOnceCorrect == ASSUME Undisturbed PROVE Spec => []EachOnce
<1>1. OnceInv => EachOnce
  <2> SUFFICES ASSUME OnceInv, pc = "idle"
               PROVE  /\ {Contents[i] : i \in 1 .. count} = owed
                      /\ \A i, j \in 1 .. count : Contents[i] = Contents[j] => i = j
    BY DEF EachOnce
  <2>1. Held = count /\ Waiting = owed
    BY DEF Held, Waiting
  <2> QED
    BY <2>1 DEF OnceInv, Lists
<1> QED
  BY <1>1, OnceInvInit, OnceInvStep, PTL DEF Spec

-----------------------------------------------------------------------------
(* The order of the posts.                                                 *)

LEMMA InOrderSame ==
    ASSUME NEW C, NEW D, NEW n \in Nat, NEW r \in Nat,
           InOrder(C, n, r), \A i \in 1 .. n : D[i] = C[i]
    PROVE  InOrder(D, n, r)
BY DEF InOrder

LEMMA InOrderAppend ==
    ASSUME NEW C, NEW D, NEW n \in Nat,
           InOrder(C, n, 0), \A i \in 1 .. n : D[i] = C[i] /\ C[i].when < D[n + 1].when
    PROVE  InOrder(D, n + 1, 0)
<1>1. \A i \in 1 .. n + 1 : i \in 1 .. n \/ i = n + 1
  OBVIOUS
<1> QED
  BY <1>1 DEF InOrder

LEMMA InOrderRemove ==
    ASSUME NEW C, NEW D, NEW n \in Nat, NEW k \in 1 .. n,
           InOrder(C, n, 0),
           \A i \in 1 .. k - 1 : D[i] = C[i],
           \A i \in k .. n - 1 : D[i] = C[i + 1]
    PROVE  InOrder(D, n - 1, 0)
<1> DEFINE From(i) == IF i < k THEN i ELSE i + 1
<1>1. \A i \in 1 .. n - 1 : From(i) \in 1 .. n /\ D[i] = C[From(i)]
  OBVIOUS
<1>2. \A i, j \in 1 .. n - 1 : i < j => From(i) < From(j)
  OBVIOUS
<1> HIDE DEF From
<1> QED
  BY <1>1, <1>2 DEF InOrder

LEMMA InOrderRotate ==
    ASSUME NEW C, NEW D, NEW n \in Nat \ {0}, NEW r \in 0 .. n - 1,
           InOrder(C, n, r),
           \A i \in 1 .. n - 1 : D[i] = C[i + 1],
           D[n] = C[1]
    PROVE  InOrder(D, n, r + 1)
<1> SUFFICES ASSUME NEW i \in 1 .. n, NEW j \in 1 .. n, i < j
             PROVE  IF i <= n - (r + 1) /\ n - (r + 1) < j THEN D[j].when < D[i].when
                                                           ELSE D[i].when < D[j].when
  BY DEF InOrder
<1>1. CASE j < n
  <2>1. i + 1 \in 1 .. n /\ j + 1 \in 1 .. n /\ i + 1 < j + 1
    BY <1>1
  <2> QED
    BY <1>1, <2>1 DEF InOrder
<1>2. CASE j = n
  <2>1. i + 1 \in 1 .. n /\ 1 \in 1 .. n /\ 1 < i + 1 /\ D[i] = C[i + 1] /\ D[j] = C[1]
    BY <1>2
  <2> QED
    BY <1>2, <2>1 DEF InOrder
<1> QED
  BY <1>1, <1>2

\* A ring turned all the way round is in order again.
LEMMA InOrderTurned ==
    ASSUME NEW C, NEW n \in Nat, InOrder(C, n, n)
    PROVE  InOrder(C, n, 0)
BY DEF InOrder

LEMMA OrderInvInit == Init => OrderInv
<1> SUFFICES ASSUME Init PROVE OrderInv
  OBVIOUS
<1>1. Held = 0 /\ pc # "takeHead" /\ turned \in BOOLEAN
  BY DEF Init, Held
<1> QED
  BY <1>1, OnceInvInit DEF OrderInv, InOrder

LEMMA OrderInvStep == ASSUME Undisturbed PROVE OrderInv /\ [Next]_vars => OrderInv'
<1> SUFFICES ASSUME OrderInv, [Next]_vars PROVE OrderInv'
  OBVIOUS
<1> USE DEF OrderInv
<1>1. OnceInv /\ OnceInv' /\ RingInv /\ RingInv' /\ Fresh
  BY OnceInvStep DEF OnceInv
<1>2. turned' \in BOOLEAN
  BY <1>1 DEF RingInv, TypeOK
<1>3. Held \in Nat /\ Turned \in Nat
  BY <1>1, HeldType, QueueAssumption DEF RingInv, TypeOK, Turned
<1>4. SUFFICES ASSUME ~turned'
               PROVE  /\ InOrder(Contents', Held', Turned')
                      /\ pc' = "takeHead" => rotations' = 0
  BY <1>1, <1>2
<1>5. ~turned
  <2>1. turned => turned'
    BY <1>1 DEF Next, vars, ringVars, callVars, flushVars, ghostVars, Undisturbed,
       PostBegin, PostStore, PostTail, PostCount, GetBegin, EventAvail, GetFinds,
       TakeHead, TakeCount, Rotate, RotateHead, RotateTail, GetNothing,
       FlushBegin, FlushKeeps, FlushDrops, FlushEnds
  <2> QED
    BY <1>4, <2>1
<1>6. InOrder(Contents, Held, Turned)
  BY <1>5
<1>7. ASSUME Held' = Held, \A i \in 1 .. Held : Contents'[i] = Contents[i],
             Turned' = Turned
      PROVE  InOrder(Contents', Held', Turned')
  BY <1>3, <1>6, <1>7, InOrderSame
<1>8. CASE (\E k \in Kinds : PostBegin(k)) \/ PostTail \/ TakeCount \/ RotateTail
           \/ (\E mask \in Masks : GetBegin(mask) \/ EventAvail(mask))
           \/ (\E f \in Flushes : FlushBegin(f[1], f[2]))
  <2>1. Turned' = Turned /\ pc' # "takeHead"
    BY <1>8 DEF PostBegin, PostTail, TakeCount, RotateTail, GetBegin, EventAvail,
       FlushBegin, searchVars, Turned
  <2> QED
    BY <1>1, <1>7, <1>8, <2>1, StepKeepsContents
<1>9. CASE PostStore \/ Rotate
  <2>1. Turned' = Turned /\ pc' # "takeHead"
    BY <1>9 DEF PostStore, Rotate, searchVars, Turned
  <2> QED
    BY <1>1, <1>7, <1>9, <2>1, CopyKeepsContents
<1>10. CASE FlushKeeps \/ FlushEnds
  <2>1. Turned' = Turned /\ pc' # "takeHead"
    BY <1>10 DEF FlushKeeps, FlushEnds, Flushing, searchVars, Turned
  <2> QED
    BY <1>1, <1>7, <1>10, <2>1, FlushKeepsContents, FlushEndsContents
<1>11. CASE GetFinds
  <2>1. rotations = 0 /\ rotations' = 0
    <3>1. ~(rotations > 0) /\ rotations' = rotations
      BY <1>4, <1>11, Zenon DEF GetFinds, searchVars
    <3> QED
      BY <1>1, <3>1, QueueAssumption DEF RingInv, TypeOK
  <2>2. Turned' = Turned
    BY <1>11, <2>1 DEF GetFinds, Turned
  <2> QED
    BY <1>1, <1>7, <1>11, <2>1, <2>2, StepKeepsContents
<1>12. CASE GetNothing
  <2>1. Turned = Held /\ Turned' = 0 /\ pc' # "takeHead"
    BY <1>1, <1>12 DEF GetNothing, Searching, RingInv, TypeOK, Bounds, Held, Turned
  <2>2. InOrder(Contents, Held, 0)
    BY <1>3, <1>6, <2>1, InOrderTurned
  <2> QED
    BY <1>1, <1>3, <1>12, <2>1, <2>2, StepKeepsContents, InOrderSame
<1>13. CASE PostCount
  <2>1. Turned = 0 /\ Turned' = 0 /\ pc' # "takeHead"
    BY <1>13 DEF PostCount, Turned
  <2>2. \A i \in 1 .. Held : Contents[i].when < posting.when
    <3>1. \A e \in owed : e.when < posting.when
      BY <1>1, <1>13 DEF PostCount, Fresh
    <3>2. \A i \in 1 .. Held : Contents[i] \in owed
      BY <1>1, <1>13 DEF PostCount, OnceInv, Lists, Waiting
    <3> QED
      BY <3>1, <3>2
  <2> QED
    BY <1>1, <1>3, <1>6, <1>13, <2>1, <2>2, PostCountContents, InOrderAppend
<1>14. CASE TakeHead
  <2>1. Turned = 0 /\ Turned' = 0 /\ pc' # "takeHead"
    BY <1>14 DEF TakeHead, Turned
  <2>2. 1 \in 1 .. Held /\ \A i \in 1 .. 1 - 1 : Contents'[i] = Contents[i]
    BY <1>1, <1>14, TakeHeadContents
  <2>3. InOrder(Contents', Held - 1, 0)
    BY <1>1, <1>3, <1>6, <1>14, <2>1, <2>2, TakeHeadContents, InOrderRemove
  <2> QED
    BY <1>1, <1>14, <2>1, <2>3, TakeHeadContents
<1>15. CASE FlushDrops
  <2>1. Turned = 0 /\ Turned' = 0 /\ pc' # "takeHead"
    BY <1>15 DEF FlushDrops, Flushing, Turned
  <2>2. (count - left + 1) - 1 = count - left
    BY <1>1, QueueAssumption DEF RingInv, TypeOK
  <2>3. InOrder(Contents', Held - 1, 0)
    BY <1>1, <1>3, <1>6, <1>15, <2>1, <2>2, FlushDropsContents, InOrderRemove
  <2> QED
    BY <1>1, <1>15, <2>1, <2>3, FlushDropsContents
<1>16. CASE RotateHead
  <2>1. Turned' = Turned + 1 /\ Turned \in 0 .. Held - 1 /\ pc' # "takeHead"
    BY <1>1, <1>16 DEF RotateHead, searchVars, RingInv, TypeOK, Bounds, Held, Turned
  <2> QED
    BY <1>1, <1>3, <1>6, <1>16, <2>1, RotateHeadContents, InOrderRotate
<1>17. CASE UNCHANGED vars
  <2>1. /\ Held' = Held /\ Contents' = Contents /\ Turned' = Turned
        /\ pc' = pc /\ rotations' = rotations
    BY <1>17 DEF vars, ringVars, callVars, searchVars, flushVars, Held, Contents, Place, Turned
  <2> QED
    BY <1>5, <1>6, <2>1
<1> QED
  BY <1>8, <1>9, <1>10, <1>11, <1>12, <1>13, <1>14, <1>15, <1>16, <1>17
     DEF Next, Undisturbed

\* The queue is in the order of the posts until a search takes an event from
\* behind another.
THEOREM PostOrderCorrect == ASSUME Undisturbed PROVE Spec => []PostOrderIsKept
<1>1. OrderInv => PostOrderIsKept
  <2> SUFFICES ASSUME OrderInv, pc = "idle", ~turned,
                      NEW i \in 1 .. count, NEW j \in 1 .. count, i < j
               PROVE  Contents[i].when < Contents[j].when
    BY DEF PostOrderIsKept
  <2>1. Held = count /\ Turned = 0 /\ count \in Nat
    BY QueueAssumption DEF Held, Turned, OrderInv, OnceInv, RingInv, TypeOK
  <2> QED
    BY <2>1 DEF OrderInv, InOrder
<1> QED
  BY <1>1, OrderInvInit, OrderInvStep, PTL DEF Spec

-----------------------------------------------------------------------------
(* What EventAvail has shown.                                              *)

\* The event offered is the first of the first n of C that its mask asks for.
FirstMatch(C, n, offer) ==
    \E k \in 1 .. n :
        /\ C[k] = offer.event
        /\ C[k].what \in offer.mask
        /\ \A j \in 1 .. k - 1 : C[j].what \notin offer.mask

\* An offer stands until a GetNextEvent comes back or FlushEvents begins; a search
\* for another mask may turn the ring past it, but then it is withdrawn.
Standing ==
    /\ offered # NoOffer
    /\ \/ pc \in {"idle", "store", "tail", "count"}
       \/ pc \in {"scan", "rotHead", "rotTail"} /\ offered.mask = wanted

OfferInv ==
    /\ OnceInv
    /\ Standing => FirstMatch(Contents, Held - Turned, offered)
    /\ OfferIsKept
    /\ pc = "rotHead" => ~Matches(slots[head])
    /\ pc = "flush" => offered = NoOffer

LEMMA OfferInvInit == Init => OfferInv
BY OnceInvInit DEF Init, OfferInv, Standing, OfferIsKept

LEMMA FirstMatchSame ==
    ASSUME NEW C, NEW D, NEW n \in Int, NEW m \in Int, NEW offer, n <= m,
           FirstMatch(C, n, offer), \A i \in 1 .. n : D[i] = C[i]
    PROVE  FirstMatch(D, m, offer)
<1>1. PICK k \in 1 .. n : /\ C[k] = offer.event
                          /\ C[k].what \in offer.mask
                          /\ \A j \in 1 .. k - 1 : C[j].what \notin offer.mask
  BY DEF FirstMatch
<1>2. k \in 1 .. m /\ D[k] = C[k] /\ \A j \in 1 .. k - 1 : D[j] = C[j]
  OBVIOUS
<1> QED
  BY <1>1, <1>2 DEF FirstMatch

LEMMA FirstMatchRotate ==
    ASSUME NEW C, NEW D, NEW n \in Int, NEW offer,
           FirstMatch(C, n, offer), C[1].what \notin offer.mask,
           \A i \in 1 .. n - 1 : D[i] = C[i + 1]
    PROVE  FirstMatch(D, n - 1, offer)
<1>1. PICK k \in 1 .. n : /\ C[k] = offer.event
                          /\ C[k].what \in offer.mask
                          /\ \A j \in 1 .. k - 1 : C[j].what \notin offer.mask
  BY DEF FirstMatch
<1>2. k # 1
  BY <1>1
<1>3. k - 1 \in 1 .. n - 1 /\ D[k - 1] = C[k]
  BY <1>2
<1>4. \A j \in 1 .. (k - 1) - 1 : D[j].what \notin offer.mask
  BY <1>1, <1>3
<1> QED
  BY <1>1, <1>3, <1>4 DEF FirstMatch

LEMMA OfferInvStep == ASSUME Undisturbed PROVE OfferInv /\ [Next]_vars => OfferInv'
<1> SUFFICES ASSUME OfferInv, [Next]_vars PROVE OfferInv'
  OBVIOUS
<1> USE DEF OfferInv
<1>1. OnceInv /\ OnceInv' /\ RingInv /\ Fresh
  BY OnceInvStep DEF OnceInv
<1>2. Held \in Nat /\ Turned \in Nat
  BY <1>1, HeldType, QueueAssumption DEF RingInv, TypeOK, Turned
<1>3. ASSUME Held' = Held, \A i \in 1 .. Held : Contents'[i] = Contents[i],
             Turned' = Turned, offered' = offered, Standing' => Standing,
             pc' \notin {"takeHead", "flush", "rotHead"}
      PROVE  OfferInv'
  <2>1. Standing' => FirstMatch(Contents', Held' - Turned', offered')
    <3>1. SUFFICES ASSUME Standing'
                   PROVE  FirstMatch(Contents', Held - Turned, offered)
      BY <1>3
    <3>2. FirstMatch(Contents, Held - Turned, offered)
      BY <1>3, <3>1
    <3> QED
      BY <1>2, <1>3, <3>2, FirstMatchSame
  <2> QED
    BY <1>1, <1>3, <2>1 DEF OfferIsKept
<1>4. ASSUME NEW k \in Kinds, PostBegin(k) PROVE OfferInv'
  <2>1. /\ Turned' = Turned /\ offered' = offered /\ (Standing' => Standing)
        /\ pc' = "store"
    BY <1>4 DEF PostBegin, searchVars, Turned, Standing
  <2> QED
    BY <1>1, <1>3, <1>4, <2>1, StepKeepsContents
<1>5. CASE PostTail \/ RotateTail
  <2>1. /\ Turned' = Turned /\ offered' = offered /\ (Standing' => Standing)
        /\ pc' \in {"count", "scan"}
    BY <1>5 DEF PostTail, RotateTail, searchVars, Turned, Standing
  <2> QED
    BY <1>1, <1>3, <1>5, <2>1, StepKeepsContents
<1>6. CASE PostStore
  <2>1. /\ Turned' = Turned /\ offered' = offered /\ (Standing' => Standing)
        /\ pc' = "tail"
    BY <1>6 DEF PostStore, searchVars, Turned, Standing
  <2> QED
    BY <1>1, <1>3, <1>6, <2>1, CopyKeepsContents
<1>7. ASSUME NEW mask \in Masks, GetBegin(mask) PROVE OfferInv'
  <2>1. /\ Turned' = Turned /\ offered' = offered /\ (Standing' => Standing)
        /\ pc' = "scan"
    BY <1>7 DEF GetBegin, Turned, Standing
  <2> QED
    BY <1>1, <1>3, <1>7, <2>1, StepKeepsContents
<1>8. CASE PostCount
  <2>1. /\ Turned = 0 /\ Turned' = 0 /\ offered' = offered /\ (Standing' => Standing)
        /\ pc' = "idle"
    BY <1>8 DEF PostCount, searchVars, Turned, Standing
  <2>2. Held' = Held + 1 /\ \A i \in 1 .. Held - 0 : Contents'[i] = Contents[i]
    BY <1>1, <1>2, <1>8, PostCountContents
  <2>3. Standing' => FirstMatch(Contents', Held' - Turned', offered')
    <3>1. SUFFICES ASSUME Standing'
                   PROVE  FirstMatch(Contents', (Held + 1) - 0, offered)
      BY <2>1, <2>2
    <3>2. FirstMatch(Contents, Held - 0, offered)
      BY <2>1, <3>1
    <3> QED
      BY <1>2, <2>2, <3>2, FirstMatchSame
  <2> QED
    BY <1>1, <2>1, <2>3 DEF OfferIsKept
<1>9. ASSUME NEW mask \in Masks, EventAvail(mask) PROVE OfferInv'
  <2>1. /\ pc = "idle" /\ pc' = "idle" /\ Turned' = 0
        /\ \E i \in 1 .. Held :
              /\ Contents[i].what \in mask
              /\ \A j \in 1 .. i - 1 : Contents[j].what \notin mask
              /\ offered' = [mask |-> mask, event |-> Contents[i]]
    BY <1>9 DEF EventAvail, Turned
  <2>2. FirstMatch(Contents, Held, offered')
    BY <2>1 DEF FirstMatch
  <2>3. Held' = Held /\ \A i \in 1 .. Held : Contents'[i] = Contents[i]
    BY <1>1, <1>9, StepKeepsContents
  <2>4. FirstMatch(Contents', Held' - Turned', offered')
    BY <1>2, <2>1, <2>2, <2>3, FirstMatchSame
  <2> QED
    BY <1>1, <2>1, <2>4 DEF OfferIsKept
<1>10. CASE GetFinds
  <2>1. /\ pc = "scan" /\ pc' = "takeHead" /\ count > 0
        /\ slots[head].what \in wanted
        /\ slots' = slots /\ head' = head /\ wanted' = wanted /\ offered' = offered
    BY <1>1, <1>10, QueueAssumption
       DEF GetFinds, Searching, Matches, ringVars, searchVars, RingInv, TypeOK
  <2>2. Contents[1] = slots[head]
    BY <1>1, <2>1, HeadIsFirst
  <2>3. ASSUME offered # NoOffer, offered.mask = wanted
        PROVE  slots[head] = offered.event
    <3>1. FirstMatch(Contents, Held - Turned, offered)
      BY <2>1, <2>3 DEF Standing
    <3>2. PICK k \in 1 .. Held - Turned :
                 /\ Contents[k] = offered.event
                 /\ \A j \in 1 .. k - 1 : Contents[j].what \notin offered.mask
      BY <3>1 DEF FirstMatch
    <3>3. k = 1
      BY <1>2, <2>1, <2>2, <2>3, <3>2
    <3> QED
      BY <2>2, <3>2, <3>3
  <2>4. OfferIsKept'
    BY <2>1, <2>3 DEF OfferIsKept
  <2> QED
    BY <1>1, <2>1, <2>4 DEF Standing
<1>11. CASE Rotate
  <2>1. /\ Turned' = Turned /\ offered' = offered /\ (Standing' => Standing)
        /\ pc = "scan" /\ pc' = "rotHead" /\ wanted' = wanted /\ head' = head
        /\ ~Matches(slots[head]) /\ rotations < count
        /\ slots' = [slots EXCEPT ![tail] = slots[head]]
    BY <1>11 DEF Rotate, Searching, searchVars, Turned, Standing
  <2>2. Held' = Held /\ \A i \in 1 .. Held : Contents'[i] = Contents[i]
    BY <1>1, <1>11, CopyKeepsContents
  <2>3. Standing' => FirstMatch(Contents', Held' - Turned', offered')
    <3>1. SUFFICES ASSUME Standing'
                   PROVE  FirstMatch(Contents', Held - Turned, offered)
      BY <2>1, <2>2
    <3>2. FirstMatch(Contents, Held - Turned, offered)
      BY <2>1, <3>1
    <3> QED
      BY <1>2, <2>2, <3>2, FirstMatchSame
  <2>4. slots'[head'] = slots[head]
    BY <1>1, <2>1 DEF RingInv, TypeOK
  <2>5. ~Matches(slots[head])'
    BY <2>1, <2>4 DEF Matches
  <2> QED
    BY <1>1, <2>1, <2>3, <2>5 DEF OfferIsKept
<1>12. CASE RotateHead
  <2>1. /\ pc = "rotHead" /\ pc' = "rotTail" /\ offered' = offered
        /\ Turned' = Turned + 1 /\ (Standing' => Standing)
    BY <1>12 DEF RotateHead, searchVars, Turned, Standing
  <2>2. /\ Held' = Held /\ Contents[1] = slots[head]
        /\ \A i \in 1 .. Held - 1 : Contents'[i] = Contents[i + 1]
    <3>1. count > 0
      BY <1>1, <2>1, QueueAssumption DEF RingInv, TypeOK, Bounds
    <3> QED
      BY <1>1, <1>12, <2>1, <3>1, HeadIsFirst, RotateHeadContents
  <2>3. ASSUME Standing' PROVE FirstMatch(Contents', Held' - Turned', offered')
    <3> DEFINE n == Held - Turned
    <3>1. FirstMatch(Contents, n, offered)
      BY <2>1, <2>3
    <3>2. Contents[1].what \notin offered.mask
      BY <2>1, <2>2, <2>3 DEF Matches, Standing
    <3>3. n \in Int /\ \A i \in 1 .. n - 1 : Contents'[i] = Contents[i + 1]
      BY <1>2, <2>2
    <3>4. n - 1 = Held' - Turned'
      BY <1>2, <2>1, <2>2
    <3> HIDE DEF n
    <3>5. FirstMatch(Contents', n - 1, offered)
      BY <3>1, <3>2, <3>3, FirstMatchRotate
    <3> QED
      BY <2>1, <3>4, <3>5
  <2> QED
    BY <1>1, <2>1, <2>3 DEF OfferIsKept
<1>13. CASE TakeCount \/ GetNothing \/ \E f \in Flushes : FlushBegin(f[1], f[2])
  <2>1. offered' = NoOffer /\ pc' \in {"idle", "flush"}
    BY <1>13 DEF TakeCount, GetNothing, FlushBegin
  <2> QED
    BY <1>1, <2>1 DEF Standing, OfferIsKept
<1>14. CASE TakeHead
  <2>1. pc' = "takeCount"
    BY <1>14 DEF TakeHead
  <2> QED
    BY <1>1, <2>1 DEF Standing, OfferIsKept
<1>15. CASE FlushKeeps \/ FlushDrops \/ FlushEnds
  <2>1. pc = "flush" /\ pc' \in {"flush", "idle"} /\ offered' = offered
    BY <1>15 DEF FlushKeeps, FlushDrops, FlushEnds, Flushing, searchVars
  <2>2. offered' = NoOffer
    BY <2>1
  <2> QED
    BY <1>1, <2>1, <2>2 DEF Standing, OfferIsKept
<1>16. CASE UNCHANGED vars
  <2>1. /\ Held' = Held /\ Contents' = Contents /\ Turned' = Turned
        /\ pc' = pc /\ offered' = offered /\ wanted' = wanted
        /\ slots' = slots /\ head' = head
    BY <1>16 DEF vars, ringVars, callVars, searchVars, flushVars, Held, Contents, Place, Turned
  <2> QED
    BY <1>1, <2>1 DEF Standing, OfferIsKept, Matches
<1> QED
  BY <1>4, <1>5, <1>6, <1>7, <1>8, <1>9, <1>10, <1>11, <1>12, <1>13, <1>14, <1>15, <1>16
     DEF Next, Undisturbed

\* What EventAvail has shown is what the next GetNextEvent with its mask takes,
\* however many events are posted in between.
THEOREM OfferCorrect == ASSUME Undisturbed PROVE Spec => []OfferIsKept
<1>1. OfferInv => OfferIsKept
  BY DEF OfferInv
<1> QED
  BY <1>1, OfferInvInit, OfferInvStep, PTL DEF Spec

-----------------------------------------------------------------------------
(* The ring implements the set of events of EventStore.                    *)

\* What a search or a flush has left behind it is nothing its caller asked for.
SearchInv ==
    /\ OnceInv
    /\ pc \in {"scan", "rotHead", "rotTail"} =>
          \A i \in Held - Turned + 1 .. Held : Contents[i].what \notin wanted
    /\ pc = "rotHead" => ~Matches(slots[head])
    /\ pc = "takeHead" => Matches(slots[head])
    /\ pc = "flush" => \A i \in 1 .. count - left : Contents[i].what \notin wanted

LEMMA SearchInvInit == Init => SearchInv
BY OnceInvInit DEF Init, SearchInv

LEMMA SearchInvStep == ASSUME Undisturbed PROVE SearchInv /\ [Next]_vars => SearchInv'
<1> SUFFICES ASSUME SearchInv, [Next]_vars PROVE SearchInv'
  OBVIOUS
<1> USE DEF SearchInv
<1>1. OnceInv /\ OnceInv' /\ RingInv /\ RingInv' /\ Fresh
  BY OnceInvStep DEF OnceInv
<1>2. Held \in Nat /\ Turned \in Nat /\ count \in Nat /\ left \in Nat
  BY <1>1, HeldType, QueueAssumption DEF RingInv, TypeOK, Turned
<1>3. CASE (\E k \in Kinds : PostBegin(k)) \/ PostStore \/ PostTail \/ PostCount
           \/ TakeHead \/ TakeCount \/ GetNothing \/ FlushEnds
           \/ \E mask \in Masks : EventAvail(mask)
  <2>1. pc' \in {"idle", "store", "tail", "count", "takeCount"}
    BY <1>3 DEF PostBegin, PostStore, PostTail, PostCount, TakeHead, TakeCount,
       GetNothing, FlushEnds, EventAvail
  <2> QED
    BY <1>1, <2>1
<1>4. ASSUME NEW mask \in Masks, GetBegin(mask) PROVE SearchInv'
  <2>1. pc' = "scan" /\ Turned' = 0 /\ Held' \in Nat
    BY <1>1, <1>4, HeldType, QueueAssumption
       DEF GetBegin, Turned, Held, RingInv, TypeOK, ringVars
  <2>2. \A i \in Held' - Turned' + 1 .. Held' : FALSE
    <3>1. ASSUME NEW n \in Nat, NEW i \in n - 0 + 1 .. n PROVE FALSE
      OBVIOUS
    <3> QED
      BY <2>1, <3>1
  <2> QED
    BY <1>1, <2>1, <2>2
<1>5. CASE GetFinds
  <2>1. pc' = "takeHead" /\ slots' = slots /\ head' = head /\ wanted' = wanted
        /\ Matches(slots[head])
    BY <1>5 DEF GetFinds, ringVars, searchVars
  <2> QED
    BY <1>1, <2>1 DEF Matches
<1>6. CASE Rotate
  <2>1. /\ pc = "scan" /\ pc' = "rotHead" /\ wanted' = wanted /\ Turned' = Turned
        /\ ~Matches(slots[head]) /\ head' = head
        /\ slots' = [slots EXCEPT ![tail] = slots[head]]
    BY <1>6 DEF Rotate, searchVars, Turned
  <2>2. Held' = Held /\ \A i \in 1 .. Held : Contents'[i] = Contents[i]
    BY <1>1, <1>6, CopyKeepsContents
  <2>3. Turned <= Held
    BY <1>1, <2>1 DEF RingInv, Bounds, Turned, Held
  <2>4. \A i \in Held' - Turned' + 1 .. Held' : Contents'[i].what \notin wanted'
    BY <1>2, <2>1, <2>2, <2>3
  <2>5. slots'[head'] = slots[head]
    BY <1>1, <2>1 DEF RingInv, TypeOK
  <2> QED
    BY <1>1, <2>1, <2>4, <2>5 DEF Matches
<1>7. CASE RotateHead
  <2>1. /\ pc = "rotHead" /\ pc' = "rotTail" /\ wanted' = wanted
        /\ Turned' = Turned + 1 /\ count > 0 /\ Turned < Held
    BY <1>1, <1>2, <1>7 DEF RotateHead, searchVars, Turned, RingInv, Bounds, Held
  <2>2. /\ Held' = Held /\ Contents[1] = slots[head]
        /\ Contents'[Held] = Contents[1]
        /\ \A i \in 1 .. Held - 1 : Contents'[i] = Contents[i + 1]
    BY <1>1, <1>7, <2>1, HeadIsFirst, RotateHeadContents
  <2>3. ASSUME NEW i \in Held' - Turned' + 1 .. Held'
        PROVE  Contents'[i].what \notin wanted'
    <3>1. CASE i = Held
      BY <2>1, <2>2, <3>1 DEF Matches
    <3>2. CASE i < Held
      <4>1. i \in 1 .. Held - 1 /\ i + 1 \in Held - Turned + 1 .. Held
        BY <1>2, <2>1, <2>2, <3>2
      <4> QED
        BY <2>1, <2>2, <4>1
    <3> QED
      BY <1>2, <2>2, <3>1, <3>2
  <2> QED
    BY <1>1, <2>1, <2>3
<1>8. CASE RotateTail
  <2>1. /\ pc = "rotTail" /\ pc' = "scan" /\ wanted' = wanted /\ Turned' = Turned
        /\ Turned <= Held
    BY <1>1, <1>2, <1>8 DEF RotateTail, Turned, RingInv, Bounds, Held
  <2>2. Held' = Held /\ \A i \in 1 .. Held : Contents'[i] = Contents[i]
    BY <1>1, <1>8, StepKeepsContents
  <2>3. \A i \in Held' - Turned' + 1 .. Held' : Contents'[i].what \notin wanted'
    BY <1>2, <2>1, <2>2
  <2> QED
    BY <1>1, <2>1, <2>3
<1>9. ASSUME NEW f \in Flushes, FlushBegin(f[1], f[2]) PROVE SearchInv'
  <2>1. pc' = "flush" /\ left' = count /\ count' = count
    BY <1>9 DEF FlushBegin, ringVars
  <2> QED
    BY <1>1, <1>2, <2>1
<1>10. CASE FlushKeeps
  <2>1. /\ pc = "flush" /\ pc' = "flush" /\ wanted' = wanted
        /\ count' = count /\ left' = left - 1 /\ left > 0 /\ left <= count
        /\ slots[readIdx].what \notin wanted
    BY <1>1, <1>10 DEF FlushKeeps, Flushing, Matches, searchVars, RingInv, Bounds
  <2>2. Held' = Held /\ Held = count /\ \A i \in 1 .. Held : Contents'[i] = Contents[i]
    BY <1>1, <1>10, <2>1, FlushKeepsContents, FlushPlaces
  <2>3. Contents[count - left + 1] = slots[readIdx]
    <3>1. Contents[count - left + 1] = slots[Wrap(readIdx + 0)]
      BY <1>1, <1>2, <2>1, FlushPlaces
    <3> QED
      BY <1>1, <3>1, QueueAssumption DEF RingInv, TypeOK, Wrap, Indices
  <2>4. ASSUME NEW i \in 1 .. count' - left' PROVE Contents'[i].what \notin wanted'
    <3>1. i \in 1 .. count /\ (i \in 1 .. count - left \/ i = count - left + 1)
      BY <1>2, <2>1
    <3> QED
      BY <2>1, <2>2, <2>3, <3>1
  <2> QED
    BY <1>1, <2>1, <2>4
<1>11. CASE FlushDrops
  <2>1. /\ pc = "flush" /\ pc' = "flush" /\ wanted' = wanted
        /\ count' - left' = count - left
    BY <1>2, <1>11 DEF FlushDrops, Flushing, searchVars
  <2> QED
    BY <1>1, <1>11, <2>1, FlushDropsContents
<1>12. CASE UNCHANGED vars
  <2>1. /\ Held' = Held /\ Contents' = Contents /\ Turned' = Turned
        /\ pc' = pc /\ wanted' = wanted /\ slots' = slots /\ head' = head
        /\ count' = count /\ left' = left
    BY <1>12 DEF vars, ringVars, callVars, searchVars, flushVars, Held, Contents, Place, Turned
  <2> QED
    BY <1>1, <2>1 DEF Matches
<1> QED
  BY <1>3, <1>4, <1>5, <1>6, <1>7, <1>8, <1>9, <1>10, <1>11, <1>12 DEF Next, Undisturbed

\* There are no more events than places that hold them.
LEMMA StoreFits ==
    ASSUME RingInv
    PROVE  Cardinality(Store) \in Nat /\ Cardinality(Store) <= Held
<1>1. Held \in Nat
  BY HeldType, QueueAssumption
<1>2. IsFiniteSet(1 .. Held) /\ Cardinality(1 .. Held) = Held
  BY <1>1, FS_Interval
<1>3. Contents \in Surjection(1 .. Held, Store)
  BY DEF Surjection, Contents, Store
<1> QED
  BY <1>2, <1>3, FS_Surjection, FS_CardinalityType

LEMMA StepIsServiceStep ==
    ASSUME Undisturbed, SearchInv, SearchInv', [Next]_vars
    PROVE  [Service!Next]_<<Store, Asking, Dropping>>
<1> USE DEF SearchInv
<1>1. OnceInv /\ RingInv /\ RingInv' /\ Fresh
  BY DEF OnceInv
<1>2. Store = Waiting /\ Store' = Waiting'
  <2>1. Lists(Contents, Held, Waiting) /\ Lists(Contents', Held', Waiting')
    BY DEF OnceInv
  <2> QED
    BY <2>1 DEF Lists, Store
<1>3. \A e \in Store : \E i \in 1 .. Held : Contents[i] = e
  BY DEF Store
<1>4. Held \in Nat /\ Turned \in Nat /\ count \in Nat /\ left \in Nat
  BY <1>1, HeldType, QueueAssumption DEF RingInv, TypeOK, Turned
<1>5. CASE PostCount
  <2>1. posting \in Events /\ count < QueueSize /\ Held = count /\ pc = "count" /\ pc' = "idle"
    BY <1>1, <1>5 DEF PostCount, RingInv, Bounds, Held
  <2>2. Cardinality(Store) < QueueSize
    BY <1>1, <1>4, <2>1, StoreFits, QueueAssumption DEF RingInv, TypeOK
  <2>3. posting = [what |-> posting.what, when |-> posting.when]
    BY <2>1 DEF Events
  <2>4. posting.what \in Kinds /\ posting.when \in 1 .. MaxPosts
    BY <2>1 DEF Events
  <2>5. Store' = Store \cup {posting} /\ \A e \in Store : e.when # posting.when
    <3>1. Store = owed /\ Store' = owed \cup {posting}
      BY <1>2, <1>5 DEF PostCount, Waiting
    <3>2. \A e \in owed : e.when \in Nat /\ e.when < posting.when
      BY <1>1, <1>5 DEF PostCount, Fresh, RingInv, TypeOK, Events
    <3>3. posting.when \in Nat
      BY <2>4
    <3> QED
      BY <3>1, <3>2, <3>3
  <2>6. Asking' = Asking /\ Dropping' = Dropping
    BY <2>1 DEF Asking, Dropping
  <2>7. Service!Post(posting.what)
    <3>1. \E t \in 1 .. MaxPosts :
             /\ \A e \in Store : e.when # t
             /\ Store' = Store \cup {[what |-> posting.what, when |-> t]}
      <4>1. Store' = Store \cup {[what |-> posting.what, when |-> posting.when]}
        BY <2>3, <2>5
      <4> QED
        BY <2>4, <2>5, <4>1
    <3>2. Service!Cardinality(Store) = Cardinality(Store)
      BY DEF Cardinality, Service!Cardinality
    <3> QED
      BY <2>2, <2>6, <3>1, <3>2 DEF Service!Post
  <2> QED
    BY <2>4, <2>7 DEF Service!Next
<1>6. ASSUME NEW mask \in Masks, GetBegin(mask) PROVE Service!Next
  <2>1. /\ pc = "idle" /\ pc' = "scan" /\ wanted' = mask
    BY <1>6 DEF GetBegin
  <2>2. Store' = Store
    BY <1>2, <1>6 DEF GetBegin, Waiting, ringVars, ghostVars
  <2>3. Service!Ask(mask)
    BY <2>1, <2>2 DEF Service!Ask, Asking, Dropping
  <2> QED
    BY <2>3 DEF Service!Next
<1>7. CASE TakeHead
  <2>1. pc = "takeHead" /\ pc' = "takeCount" /\ slots[head].what \in wanted
    BY <1>7 DEF TakeHead, Matches
  <2>2. slots[head] \in Store /\ Store' = Store \ {slots[head]}
    BY <1>1, <1>2, <1>7 DEF TakeHead, Waiting, Fresh, ghostVars
  <2>3. Service!Answer
    BY <2>1, <2>2 DEF Service!Answer, Service!Asked, Asking, Dropping
  <2> QED
    BY <2>3 DEF Service!Next
<1>8. CASE GetNothing
  <2>1. pc = "scan" /\ pc' = "idle" /\ Turned = Held
    BY <1>1, <1>8 DEF GetNothing, Searching, RingInv, TypeOK, Bounds, Held, Turned
  <2>2. Store' = Store
    BY <1>2, <1>8 DEF GetNothing, Waiting, ringVars, ghostVars
  <2>3. \A e \in Store : e.what \notin wanted
    BY <1>3, <1>4, <2>1
  <2>4. Service!AnswerNone
    BY <2>1, <2>2, <2>3 DEF Service!AnswerNone, Service!Asked, Asking, Dropping
  <2> QED
    BY <2>4 DEF Service!Next
<1>9. ASSUME NEW f \in Flushes, FlushBegin(f[1], f[2]) PROVE Service!Next
  <2>1. pc = "idle" /\ pc' = "flush" /\ wanted' = f[1]
    BY <1>9 DEF FlushBegin
  <2>2. Store' = Store
    BY <1>2, <1>9 DEF FlushBegin, Waiting, ringVars, ghostVars
  <2>3. Service!Flush(f[1])
    BY <2>1, <2>2 DEF Service!Flush, Asking, Dropping
  <2> QED
    BY <2>3 DEF Service!Next
<1>10. CASE FlushDrops
  <2>1. /\ pc = "flush" /\ pc' = "flush" /\ wanted' = wanted
        /\ slots[readIdx].what \in wanted
    BY <1>10 DEF FlushDrops, Flushing, Matches, searchVars
  <2>2. slots[readIdx] \in Store
    BY <1>1, <1>10, FlushDropsContents DEF Store
  <2>3. Store' = Store \ {slots[readIdx]}
    BY <1>2, <1>10, <2>1 DEF FlushDrops, Waiting
  <2>4. Service!Discard
    BY <2>1, <2>2, <2>3 DEF Service!Discard, Service!Flushed, Asking, Dropping
  <2> QED
    BY <2>4 DEF Service!Next
<1>11. CASE FlushEnds
  <2>1. pc = "flush" /\ pc' = "idle" /\ left = 0
    BY <1>1, <1>4, <1>11 DEF FlushEnds, Flushing, RingInv, Bounds
  <2>2. Store' = Store
    BY <1>2, <1>11, <2>1 DEF FlushEnds, Waiting, ghostVars
  <2>3. \A e \in Store : e.what \notin wanted
    <3>1. Held = count
      BY <2>1 DEF Held
    <3> QED
      BY <1>3, <1>4, <2>1, <3>1
  <2>4. Service!FlushDone
    BY <2>1, <2>2, <2>3 DEF Service!FlushDone, Service!Flushed, Asking, Dropping
  <2> QED
    BY <2>4 DEF Service!Next
<1>12. CASE GetFinds
  <2>1. Asking' = Asking /\ Dropping' = Dropping
    BY <1>12 DEF GetFinds, searchVars, Asking, Dropping
  <2>2. Contents' = Contents /\ Held' = Held
    BY <1>12 DEF GetFinds, ringVars, flushVars, Contents, Place, Held
  <2> QED
    BY <2>1, <2>2 DEF Store
<1>13. CASE (\E k \in Kinds : PostBegin(k)) \/ PostStore \/ PostTail
            \/ TakeCount \/ Rotate \/ RotateHead \/ RotateTail \/ FlushKeeps
            \/ \E mask \in Masks : EventAvail(mask)
  <2>1. Asking' = Asking /\ Dropping' = Dropping
    BY <1>13 DEF PostBegin, PostStore, PostTail, TakeCount, Rotate, RotateHead,
       RotateTail, FlushKeeps, Flushing, EventAvail, searchVars, Asking, Dropping
  <2>2. Waiting' = Waiting
    BY <1>13 DEF PostBegin, PostStore, PostTail, TakeCount, Rotate, RotateHead,
       RotateTail, FlushKeeps, Flushing, EventAvail, ghostVars, Waiting
  <2> QED
    BY <1>2, <2>1, <2>2
<1>14. CASE UNCHANGED vars
  <2>1. Store' = Store /\ Asking' = Asking /\ Dropping' = Dropping
    BY <1>14 DEF vars, ringVars, callVars, searchVars, flushVars,
       Held, Contents, Place, Store, Asking, Dropping
  <2> QED
    BY <2>1
<1> QED
  BY <1>5, <1>6, <1>7, <1>8, <1>9, <1>10, <1>11, <1>12, <1>13, <1>14 DEF Next, Undisturbed

\* The ring, with its calls cut into steps, implements the set of events of
\* EventStore: a search comes back without an event only when none in the queue
\* was asked for, and a flush only when none of its kinds is left.
THEOREM StoreImplemented == ASSUME Undisturbed PROVE Spec => ImplementsStore
<1>1. Init => Service!Init
  <2> SUFFICES ASSUME Init PROVE Service!Init
    OBVIOUS
  <2>1. Held = 0 /\ pc = "idle"
    BY DEF Init, Held
  <2>2. Store = {}
    BY <2>1 DEF Store
  <2> QED
    BY <2>1, <2>2 DEF Service!Init, Asking, Dropping
<1>2. SearchInv /\ SearchInv' /\ [Next]_vars => [Service!Next]_<<Store, Asking, Dropping>>
  BY StepIsServiceStep
<1> QED
  BY <1>1, <1>2, SearchInvInit, SearchInvStep, PTL
     DEF Spec, ImplementsStore, Service!Spec
=============================================================================
