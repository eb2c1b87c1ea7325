--------------------------- MODULE InputPathProofs ---------------------------
(***************************************************************************)
(* Theorems about InputPath, for every size of the key ring, every set of  *)
(* buttons, keys and modifiers, and wherever the interrupt falls.          *)
(***************************************************************************)
EXTENDS InputPath, WellFoundedInduction, TLAPS

-----------------------------------------------------------------------------
(* The key ring as a queue.                                                *)

\* The slot d places behind i.
Slot(i, d) == IF i + d < RingSize THEN i + d ELSE i + d - RingSize

\* The slots between tail and head hold transitions, and the one that is being
\* replayed is the oldest of them: the interrupt never writes over it.
RingInv ==
    /\ \A i \in 0 .. InRing - 1 : OnTheWay(i) \in Transitions
    /\ pc = "replay" => keyTail # keyHead /\ transition = keyRing[keyTail]
    /\ pc # "replay" => transition = NoTransition

QueueInv == TypeOK /\ RingInv

LEMMA NextIndexType ==
    ASSUME NEW i \in RingIndices
    PROVE  NextIndex(i) \in RingIndices
BY InputAssumption DEF NextIndex, RingIndices

\* The ring holds fewer transitions than it has slots, and is empty exactly
\* when head and tail meet.
LEMMA InRingBounds ==
    ASSUME TypeOK
    PROVE  /\ InRing \in 0 .. RingSize - 1
           /\ keyTail = keyHead <=> InRing = 0
           /\ \A i \in 0 .. RingSize - 1 : Slot(keyTail, i) \in RingIndices
           /\ \A i \in 0 .. RingSize - 1 : OnTheWay(i) = keyRing[Slot(keyTail, i)]
           /\ Slot(keyTail, InRing) = keyHead
           /\ RingIsFull <=> InRing = RingSize - 1
<1>1. keyHead \in 0 .. RingSize - 1 /\ keyTail \in 0 .. RingSize - 1 /\ RingSize \in Nat
  BY InputAssumption DEF TypeOK, RingIndices
<1> QED
  BY <1>1 DEF InRing, Slot, OnTheWay, RingIndices, RingIsFull, NextIndex

\* The interrupt puts a transition behind the others and leaves those alone.
LEMMA Pushed ==
    ASSUME TypeOK, ~RingIsFull, NEW v, keyHead' = NextIndex(keyHead),
           keyRing' = [keyRing EXCEPT ![keyHead] = v], keyTail' = keyTail
    PROVE  /\ InRing' = InRing + 1
           /\ \A i \in 0 .. InRing - 1 : OnTheWay(i)' = OnTheWay(i)
           /\ \A i \in Nat : i = InRing => OnTheWay(i)' = v
<1>1. keyHead \in 0 .. RingSize - 1 /\ keyTail \in 0 .. RingSize - 1 /\ RingSize \in Nat \ {0, 1}
  BY InputAssumption DEF TypeOK, RingIndices
<1>2. DOMAIN keyRing = 0 .. RingSize - 1
  BY DEF TypeOK, RingIndices
<1>3. InRing' = InRing + 1
  BY <1>1 DEF InRing, NextIndex, RingIsFull
<1>4. \A i \in 0 .. InRing - 1 : /\ Slot(keyTail, i) \in 0 .. RingSize - 1
                                 /\ Slot(keyTail, i) # keyHead
  BY <1>1 DEF InRing, Slot
<1>5. Slot(keyTail, InRing) = keyHead
  BY <1>1 DEF InRing, Slot
<1>6. \A i \in 0 .. InRing : /\ OnTheWay(i)' = keyRing'[Slot(keyTail, i)]
                             /\ OnTheWay(i) = keyRing[Slot(keyTail, i)]
  BY DEF OnTheWay, Slot
<1>7. InRing \in Nat
  BY InRingBounds
<1>8. keyRing'[keyHead] = v
  BY <1>1, <1>2
<1>9. \A s \in 0 .. RingSize - 1 : s # keyHead => keyRing'[s] = keyRing[s]
  BY <1>2
<1>10. \A i \in 0 .. InRing - 1 : OnTheWay(i)' = OnTheWay(i)
  <2> TAKE i \in 0 .. InRing - 1
  <2>1. i \in 0 .. InRing
    BY <1>7
  <2> QED
    BY <2>1, <1>4, <1>6, <1>9
<1>11. \A i \in Nat : i = InRing => OnTheWay(i)' = v
  BY <1>5, <1>6, <1>7, <1>8
<1> QED
  BY <1>3, <1>10, <1>11

\* The replay takes the oldest away and leaves the others in their order.
LEMMA Popped ==
    ASSUME TypeOK, keyTail # keyHead, keyTail' = NextIndex(keyTail),
           UNCHANGED <<keyRing, keyHead>>
    PROVE  /\ InRing' = InRing - 1
           /\ \A i \in 0 .. InRing - 2 : OnTheWay(i)' = OnTheWay(i + 1)
<1>1. keyHead \in 0 .. RingSize - 1 /\ keyTail \in 0 .. RingSize - 1 /\ RingSize \in Nat \ {0, 1}
  BY InputAssumption DEF TypeOK, RingIndices
<1>2. InRing' = InRing - 1
  BY <1>1 DEF InRing, NextIndex
<1>3. \A i \in 0 .. InRing - 2 : Slot(keyTail', i) = Slot(keyTail, i + 1)
  BY <1>1 DEF InRing, Slot, NextIndex
<1>4. \A i \in 0 .. InRing - 2 : /\ OnTheWay(i)' = keyRing[Slot(keyTail', i)]
                                 /\ OnTheWay(i + 1) = keyRing[Slot(keyTail, i + 1)]
  BY DEF OnTheWay, Slot
<1> QED
  BY <1>2, <1>3, <1>4

LEMMA OnTheWaySame ==
    ASSUME UNCHANGED <<keyRing, keyHead, keyTail>>
    PROVE  /\ InRing' = InRing
           /\ \A i : OnTheWay(i)' = OnTheWay(i)
BY DEF InRing, OnTheWay

-----------------------------------------------------------------------------
(* Types.                                                                  *)

LEMMA QueueInit == Init => QueueInv
<1> SUFFICES ASSUME Init PROVE QueueInv
  OBVIOUS
<1>1. 0 \in RingIndices /\ InRing = 0
  BY InputAssumption DEF RingIndices, Init, InRing
<1>2. RingInv
  BY <1>1 DEF RingInv, Init
<1>3. posted = MouseEvent("none")
  BY DEF Init
<1>4. moves \in 0 .. MaxMoves
  BY InputAssumption DEF Init
<1>5. keyRing \in [RingIndices -> Transitions \cup {NoTransition}]
  BY DEF Init
<1> QED
  BY <1>1, <1>2, <1>3, <1>4, <1>5 DEF QueueInv, TypeOK, Init

LEMMA QueueStep == QueueInv /\ [Next]_vars => QueueInv'
<1> SUFFICES ASSUME QueueInv, [Next]_vars PROVE QueueInv'
  OBVIOUS
<1> USE DEF QueueInv
<1>1. ASSUME NEW new \in SUBSET Buttons, MouseInterrupt(new)
      PROVE  QueueInv'
  <2>1. TypeOK'
    <3>1. late' \subseteq unreported' /\ unreported' \subseteq Buttons
      BY <1>1 DEF MouseInterrupt, TypeOK
    <3>2. moves' \in 0 .. MaxMoves
      BY <1>1, InputAssumption DEF MouseInterrupt, TypeOK
    <3>3. buttons' \subseteq Buttons /\ pendingPress' \subseteq Buttons
      BY <1>1 DEF MouseInterrupt, TypeOK, Latched
    <3> QED
      BY <1>1, <3>1, <3>2, <3>3 DEF MouseInterrupt, TypeOK, inputVars, localVars
  <2>2. RingInv'
    BY <1>1, OnTheWaySame DEF MouseInterrupt, RingInv, localVars
  <2> QED
    BY <2>1, <2>2
<1>2. ASSUME NEW k \in Keys, NEW down \in BOOLEAN, KeyInterrupt(k, down)
      PROVE  QueueInv'
  <2> DEFINE v == [key |-> k, down |-> down, held |-> keyMap' \cap Modifiers]
  <2>1. v \in Transitions
    BY DEF Transitions
  <2>2. CASE RingIsFull
    <3>1. UNCHANGED <<keyRing, keyHead, keyTail, pc, transition>>
      BY <1>2, <2>2 DEF KeyInterrupt, localVars
    <3>2. TypeOK'
      BY <1>2, <2>2, InputAssumption DEF KeyInterrupt, TypeOK, inputVars, localVars, pressVars
    <3>3. RingInv'
      BY <3>1, OnTheWaySame DEF RingInv
    <3> QED
      BY <3>2, <3>3
  <2>3. CASE ~RingIsFull
    <3>1. /\ keyHead' = NextIndex(keyHead) /\ keyTail' = keyTail
          /\ keyRing' = [keyRing EXCEPT ![keyHead] = v]
          /\ UNCHANGED <<pc, transition>>
      BY <1>2, <2>3 DEF KeyInterrupt, localVars
    <3>2. TypeOK'
      <4>1. keyRing' \in [RingIndices -> Transitions \cup {NoTransition}]
        BY <2>1, <3>1 DEF TypeOK
      <4>2. keyHead' \in RingIndices
        BY <3>1, NextIndexType DEF TypeOK
      <4> QED
        BY <1>2, <2>3, <4>1, <4>2, InputAssumption
           DEF KeyInterrupt, TypeOK, inputVars, localVars, pressVars
    <3>3. RingInv'
      <4>1. \A i \in 0 .. InRing' - 1 : OnTheWay(i)' \in Transitions
        <5>1. /\ InRing' = InRing + 1 /\ \A i \in Nat : i = InRing => OnTheWay(i)' = v
              /\ \A i \in 0 .. InRing - 1 : OnTheWay(i)' = OnTheWay(i)
          BY <2>3, <3>1, Pushed
        <5>2. InRing \in Nat
          BY InRingBounds
        <5> QED
          BY <2>1, <5>1, <5>2 DEF RingInv
      <4>2. pc' = "replay" => keyTail' # keyHead' /\ transition' = keyRing'[keyTail']
        <5> SUFFICES ASSUME pc' = "replay"
                     PROVE  keyTail' # keyHead' /\ transition' = keyRing'[keyTail']
          OBVIOUS
        <5>1. keyTail # keyHead /\ transition = keyRing[keyTail]
          BY <3>1 DEF RingInv
        <5>2. keyTail # NextIndex(keyHead)
          BY <2>3 DEF RingIsFull
        <5>3. keyTail \in RingIndices /\ DOMAIN keyRing = RingIndices
          BY DEF TypeOK
        <5> QED
          BY <3>1, <5>1, <5>2, <5>3
      <4>3. pc' # "replay" => transition' = NoTransition
        BY <3>1 DEF RingInv
      <4> QED
        BY <4>1, <4>2, <4>3 DEF RingInv
    <3> QED
      BY <3>2, <3>3
  <2> QED
    BY <2>2, <2>3
<1>3. CASE TickPasses \/ PollLevel \/ PollPending \/ KeysDone \/ TrackBegin \/ TrackEnd
  <2>1. \/ /\ UNCHANGED <<keyRing, keyHead, keyTail, transition>>
           /\ pc # "replay" /\ pc' # "replay"
        \/ UNCHANGED <<keyRing, keyHead, keyTail, transition, pc>>
    BY <1>3 DEF TickPasses, PollLevel, PollPending, KeysDone, TrackBegin, TrackEnd,
               irqVars, localVars
  <2>2. TypeOK'
    BY <1>3 DEF TickPasses, PollLevel, PollPending, KeysDone, TrackBegin, TrackEnd,
               TypeOK, irqVars, inputVars, localVars, pressVars, ghostVars
  <2>3. RingInv'
    BY <2>1, OnTheWaySame DEF RingInv
  <2> QED
    BY <2>2, <2>3
<1>4. CASE PollButtons
  <2>1. UNCHANGED <<keyRing, keyHead, keyTail, transition>> /\ pc = "buttons"
        /\ pc' \in {"idle", "keys"}
    BY <1>4 DEF PollButtons, ReportDown, ReportUp, ReportNothing
  <2>2. posted' \in {posted, MouseEvent("mouseDown"), MouseEvent("mouseUp")}
    BY <1>4 DEF PollButtons, ReportDown, ReportUp, ReportNothing, PostMouse
  <2>3. Cleared \subseteq Buttons /\ Sampled \subseteq Buttons
    BY DEF TypeOK, Cleared, Sampled
  <2>4. downThisTick' \in BOOLEAN
    BY <1>4 DEF PollButtons, ReportDown, ReportUp, ReportNothing, TypeOK
  <2>8. late' \subseteq unreported' /\ unreported' \subseteq Buttons
    BY <1>4 DEF PollButtons, TypeOK
  <2>5. /\ pendingPress' = Cleared /\ currentButtons' = Sampled /\ lastButtons' = Sampled
        /\ level' = {} /\ pending' = {}
        /\ UNCHANGED <<buttons, keyMap, moves, lastKeyMap, tracking, keysLost>>
    BY <1>4 DEF PollButtons
  <2>6. TypeOK'
    BY <2>1, <2>2, <2>3, <2>4, <2>5, <2>8 DEF TypeOK
  <2>7. RingInv'
    BY <2>1, OnTheWaySame DEF RingInv
  <2> QED
    BY <2>6, <2>7
<1>5. CASE KeyRead
  <2>1. /\ UNCHANGED <<keyRing, keyHead, keyTail>> /\ pc' = "replay"
        /\ keyTail # keyHead /\ transition' = keyRing[keyTail]
    BY <1>5 DEF KeyRead, irqVars
  <2>2. TypeOK'
    BY <1>5 DEF KeyRead, TypeOK, irqVars, inputVars, pressVars, ghostVars
  <2>3. RingInv'
    BY <2>1, OnTheWaySame DEF RingInv
  <2> QED
    BY <2>2, <2>3
<1>6. CASE KeyReplay
  <2>1. /\ pc = "replay" /\ pc' = "keys" /\ transition' = NoTransition
        /\ keyTail # keyHead /\ keyTail' = NextIndex(keyTail)
        /\ transition = keyRing[keyTail]
        /\ UNCHANGED <<keyRing, keyHead>>
    BY <1>6 DEF KeyReplay, RingInv
  <2>2. transition \in Transitions
    <3>1. keyTail \in 0 .. RingSize - 1 /\ RingSize \in Nat
      BY InputAssumption DEF TypeOK, RingIndices
    <3>2. Slot(keyTail, 0) = keyTail
      BY <3>1 DEF Slot
    <3>3. 0 \in 0 .. InRing - 1 /\ OnTheWay(0) = keyRing[keyTail]
      BY <2>1, <3>1, <3>2, InRingBounds
    <3> QED
      BY <2>1, <3>3 DEF RingInv
  <2>3. keyTail' \in RingIndices
    BY <2>1, NextIndexType DEF TypeOK
  <2>4. Replayed \subseteq Keys
    BY <2>2 DEF Replayed, TypeOK, Transitions
  <2>5. posted' = posted \/ posted' \in KeyEvents
    BY <1>6, <2>2 DEF KeyReplay, KeyEvents, Transitions
  <2>6. TypeOK'
    <3>1. /\ lastKeyMap' = Replayed
          /\ UNCHANGED <<buttons, pendingPress, keyMap, moves, lastButtons, currentButtons,
                         downThisTick, tracking, level, pending, ghostVars>>
      BY <1>6 DEF KeyReplay
    <3> QED
      BY <2>1, <2>3, <2>4, <2>5, <3>1 DEF TypeOK, pressVars, ghostVars
  <2>7. RingInv'
    <3>1. \A i \in 0 .. InRing' - 1 : OnTheWay(i)' \in Transitions
      BY <2>1, Popped, InRingBounds DEF RingInv
    <3> QED
      BY <2>1, <3>1 DEF RingInv
  <2> QED
    BY <2>6, <2>7
<1>7. CASE UNCHANGED vars
  <2>1. UNCHANGED <<keyRing, keyHead, keyTail, transition, pc>>
    BY <1>7 DEF vars, irqVars, localVars
  <2>2. TypeOK'
    BY <1>7 DEF vars, irqVars, inputVars, localVars, pressVars, ghostVars, TypeOK
  <2>3. RingInv'
    BY <2>1, OnTheWaySame DEF RingInv
  <2> QED
    BY <2>2, <2>3
<1> QED
  BY <1>1, <1>2, <1>3, <1>4, <1>5, <1>6, <1>7 DEF Next, Poll

LEMMA QueueCorrect == Spec => []QueueInv
BY QueueInit, QueueStep, PTL DEF Spec

\* Every variable of the path keeps to its type: above all, the local of the
\* dequeue that is replayed is a transition the interrupt recorded.
THEOREM InputTypeCorrect == Spec => []TypeOK
<1>1. QueueInv => TypeOK
  BY DEF QueueInv
<1> QED
  BY <1>1, QueueCorrect, PTL

-----------------------------------------------------------------------------
(* What the replayed key map will be.                                      *)

\* The key k is down once the n oldest transitions that wait have been replayed:
\* the last of them that is about k brings it down or, if none is, it is down
\* in the replayed key map.
DownAfter(n, k) ==
    \/ /\ k \in lastKeyMap
       /\ \A i \in 0 .. n - 1 : OnTheWay(i).key # k
    \/ \E i \in 0 .. n - 1 :
          /\ OnTheWay(i).key = k
          /\ OnTheWay(i).down
          /\ \A j \in 0 .. n - 1 : OnTheWay(j).key = k => j <= i

\* After all of them the key map is the keyboard's, and after each of them the
\* modifiers are those it was recorded with.
CarriesInv == keysLost \/
    /\ \A k \in Keys : k \in keyMap <=> DownAfter(InRing, k)
    /\ \A i \in 0 .. InRing - 1 : \A k \in Modifiers :
          k \in OnTheWay(i).held <=> DownAfter(i + 1, k)
    /\ \A i \in 0 .. InRing - 1 : OnTheWay(i).held \subseteq Modifiers
    /\ posted.modifiers = posted.held

LEMMA DownAfterSame ==
    ASSUME UNCHANGED <<keyRing, keyHead, keyTail, lastKeyMap>>, NEW n, NEW k
    PROVE  DownAfter(n, k)' <=> DownAfter(n, k)
BY OnTheWaySame DEF DownAfter

\* The interrupt decides about its key and about no other.
LEMMA DownAfterPush ==
    ASSUME NEW c \in Nat, NEW v,
           \A i \in 0 .. c - 1 : OnTheWay(i)' = OnTheWay(i),
           \A i \in Nat : i = c => OnTheWay(i)' = v,
           lastKeyMap' = lastKeyMap, NEW k
    PROVE  /\ \A n \in 0 .. c : DownAfter(n, k)' <=> DownAfter(n, k)
           /\ v.key # k => (DownAfter(c + 1, k)' <=> DownAfter(c, k))
           /\ v.key = k => (DownAfter(c + 1, k)' <=> v.down)
<1>1. ASSUME NEW n \in 0 .. c
      PROVE  DownAfter(n, k)' <=> DownAfter(n, k)
  <2>1. \A i \in 0 .. n - 1 : OnTheWay(i)' = OnTheWay(i)
    OBVIOUS
  <2> QED
    BY <2>1 DEF DownAfter
<1>2. \A i \in 0 .. (c + 1) - 1 : i \in 0 .. c - 1 \/ i = c
  OBVIOUS
<1>3. c \in 0 .. (c + 1) - 1 /\ \A i \in 0 .. c - 1 : i \in 0 .. (c + 1) - 1 /\ i < c /\ i \in Nat
  OBVIOUS
<1>4. ASSUME v.key # k
      PROVE  DownAfter(c + 1, k)' <=> DownAfter(c, k)
  BY <1>2, <1>3, <1>4 DEF DownAfter
<1>5. ASSUME v.key = k
      PROVE  DownAfter(c + 1, k)' <=> v.down
  <2>1. ~ \A i \in 0 .. (c + 1) - 1 : OnTheWay(i)'.key # k
    BY <1>3, <1>5
  <2>2. \A j \in 0 .. (c + 1) - 1 : j <= c
    OBVIOUS
  <2>3. ASSUME NEW i \in 0 .. (c + 1) - 1, OnTheWay(i)'.key = k,
               \A j \in 0 .. (c + 1) - 1 : OnTheWay(j)'.key = k => j <= i
        PROVE  i = c
    BY <1>3, <1>5, <2>2, <2>3
  <2> QED
    BY <1>3, <1>5, <2>1, <2>2, <2>3 DEF DownAfter
<1> QED
  BY <1>1, <1>4, <1>5

\* Replaying the oldest transition leaves what the others make of the key map.
LEMMA DownAfterPop ==
    ASSUME NEW n \in Nat, NEW v, v.down \in BOOLEAN,
           \A i \in 0 .. n - 1 : OnTheWay(i)' = OnTheWay(i + 1),
           OnTheWay(0) = v,
           lastKeyMap' = IF v.down THEN lastKeyMap \cup {v.key} ELSE lastKeyMap \ {v.key},
           NEW k
    PROVE  DownAfter(n, k)' <=> DownAfter(n + 1, k)
<1>1. /\ \A i \in 0 .. (n + 1) - 1 : i = 0 \/ i - 1 \in 0 .. n - 1
      /\ \A i \in 0 .. n - 1 : i + 1 \in 0 .. (n + 1) - 1 /\ i + 1 # 0
      /\ 0 \in 0 .. (n + 1) - 1
  OBVIOUS
<1>2. \A i \in 0 .. (n + 1) - 1 : i # 0 => OnTheWay(i - 1)' = OnTheWay(i)
  <2> SUFFICES ASSUME NEW i \in 0 .. (n + 1) - 1, i # 0
               PROVE  OnTheWay(i - 1)' = OnTheWay(i)
    OBVIOUS
  <2>1. i - 1 \in 0 .. n - 1 /\ (i - 1) + 1 = i
    OBVIOUS
  <2>2. OnTheWay(i - 1)' = OnTheWay((i - 1) + 1)
    BY <2>1
  <2> QED
    BY <2>1, <2>2
<1>3. CASE \A i \in 0 .. n - 1 : OnTheWay(i)'.key # k
  <2>1. \A i \in 0 .. (n + 1) - 1 : i # 0 => OnTheWay(i).key # k
    BY <1>1, <1>2, <1>3
  <2>2. DownAfter(n, k)' <=> k \in lastKeyMap'
    BY <1>3 DEF DownAfter
  <2>3. CASE v.key = k
    <3>1. ~ \A i \in 0 .. (n + 1) - 1 : OnTheWay(i).key # k
      BY <1>1, <2>3
    <3>2. \A j \in 0 .. (n + 1) - 1 : OnTheWay(j).key = k => j <= 0
      BY <2>1
    <3>3. DownAfter(n + 1, k) <=> v.down
      BY <1>1, <2>1, <2>3, <3>1, <3>2 DEF DownAfter
    <3> QED
      BY <2>2, <2>3, <3>3
  <2>4. CASE v.key # k
    <3>1. \A i \in 0 .. (n + 1) - 1 : OnTheWay(i).key # k
      BY <2>1, <2>4
    <3>2. DownAfter(n + 1, k) <=> k \in lastKeyMap
      BY <3>1 DEF DownAfter
    <3> QED
      BY <2>2, <2>4, <3>2
  <2> QED
    BY <2>3, <2>4
<1>4. CASE \E i \in 0 .. n - 1 : OnTheWay(i)'.key = k
  <2>1. PICK i \in 0 .. n - 1 : OnTheWay(i)'.key = k
    BY <1>4
  <2>2. OnTheWay(i + 1).key = k /\ i + 1 \in 0 .. (n + 1) - 1
    BY <1>1, <2>1
  <2>3. ASSUME DownAfter(n, k)'
        PROVE  DownAfter(n + 1, k)
    <3>1. PICK m \in 0 .. n - 1 :
             /\ OnTheWay(m)'.key = k /\ OnTheWay(m)'.down
             /\ \A j \in 0 .. n - 1 : OnTheWay(j)'.key = k => j <= m
      BY <1>4, <2>3 DEF DownAfter
    <3>2. /\ m + 1 \in 0 .. (n + 1) - 1
          /\ OnTheWay(m + 1).key = k /\ OnTheWay(m + 1).down
      BY <1>1, <3>1
    <3>3. ASSUME NEW j \in 0 .. (n + 1) - 1, OnTheWay(j).key = k
          PROVE  j <= m + 1
      <4>1. CASE j = 0
        BY <4>1
      <4>2. CASE j # 0
        <5>1. j - 1 \in 0 .. n - 1 /\ OnTheWay(j - 1)'.key = k
          BY <1>1, <1>2, <3>3, <4>2
        <5>2. j - 1 <= m
          BY <3>1, <5>1
        <5> QED
          BY <5>2
      <4> QED
        BY <4>1, <4>2
    <3> QED
      BY <3>2, <3>3 DEF DownAfter
  <2>4. ASSUME DownAfter(n + 1, k)
        PROVE  DownAfter(n, k)'
    <3>1. PICK m \in 0 .. (n + 1) - 1 :
             /\ OnTheWay(m).key = k /\ OnTheWay(m).down
             /\ \A j \in 0 .. (n + 1) - 1 : OnTheWay(j).key = k => j <= m
      BY <2>2, <2>4 DEF DownAfter
    <3>2. i + 1 <= m
      BY <2>2, <3>1
    <3>3. m - 1 \in 0 .. n - 1 /\ m # 0
      BY <3>2
    <3>4. OnTheWay(m - 1)' = OnTheWay(m)
      BY <1>2, <3>3
    <3>5. ASSUME NEW j \in 0 .. n - 1, OnTheWay(j)'.key = k
          PROVE  j <= m - 1
      <4>1. j + 1 \in 0 .. (n + 1) - 1 /\ OnTheWay(j + 1).key = k
        BY <1>1, <3>5
      <4>2. j + 1 <= m
        BY <3>1, <4>1
      <4> QED
        BY <4>2
    <3> QED
      BY <3>1, <3>3, <3>4, <3>5 DEF DownAfter
  <2> QED
    BY <2>3, <2>4
<1> QED
  BY <1>3, <1>4

LEMMA CarriesInit == Init => CarriesInv
<1> SUFFICES ASSUME Init PROVE CarriesInv
  OBVIOUS
<1>1. InRing = 0
  BY DEF Init, InRing
<1>2. \A k \in Keys : ~DownAfter(0, k)
  BY DEF Init, DownAfter
<1> QED
  BY <1>1, <1>2 DEF CarriesInv, Init, MouseEvent

LEMMA CarriesStep == QueueInv /\ CarriesInv /\ [Next]_vars => CarriesInv'
<1> SUFFICES ASSUME QueueInv, CarriesInv, [Next]_vars, ~keysLost'
             PROVE  CarriesInv'
  BY DEF CarriesInv
<1>0. ~keysLost
  <2>1. keysLost' = keysLost \/ keysLost'
    BY DEF Next, Poll, MouseInterrupt, KeyInterrupt, TickPasses, PollLevel, PollPending,
           PollButtons, KeyRead, KeyReplay, KeysDone, TrackBegin, TrackEnd, vars, ghostVars
  <2> QED
    BY <2>1
<1>1. InRing \in Nat
  BY InRingBounds DEF QueueInv
<1>2. ASSUME NEW k \in Keys, NEW down \in BOOLEAN, KeyInterrupt(k, down)
      PROVE  CarriesInv'
  <2> DEFINE v == [key |-> k, down |-> down, held |-> keyMap' \cap Modifiers]
  <2>1. ~RingIsFull
    BY <1>2 DEF KeyInterrupt
  <2>2. /\ keyHead' = NextIndex(keyHead) /\ keyTail' = keyTail
        /\ keyRing' = [keyRing EXCEPT ![keyHead] = v]
        /\ keyMap' = IF down THEN keyMap \cup {k} ELSE keyMap \ {k}
        /\ UNCHANGED <<lastKeyMap, posted>>
    BY <1>2, <2>1 DEF KeyInterrupt, inputVars, localVars
  <2>3. /\ InRing' = InRing + 1
        /\ \A i \in 0 .. InRing - 1 : OnTheWay(i)' = OnTheWay(i)
        /\ \A i \in Nat : i = InRing => OnTheWay(i)' = v
    BY <2>1, <2>2, Pushed DEF QueueInv
  <2>4. v.key = k /\ v.down = down /\ v.held = keyMap' \cap Modifiers
    OBVIOUS
  <2>5. PICK c \in Nat : c = InRing
    BY <1>1
  <2> HIDE DEF v
  <2>6. /\ \A i \in 0 .. c - 1 : OnTheWay(i)' = OnTheWay(i)
        /\ \A i \in Nat : i = c => OnTheWay(i)' = v
    BY <2>3, <2>5
  <2>7. \A x \in Keys : x \in keyMap <=> DownAfter(c, x)
    BY <1>0, <2>5 DEF CarriesInv
  <2>8. \A x \in Keys : x \in keyMap' <=> DownAfter(c + 1, x)'
    <3> SUFFICES ASSUME NEW x \in Keys
                 PROVE  x \in keyMap' <=> DownAfter(c + 1, x)'
      OBVIOUS
    <3>1. /\ v.key # x => (DownAfter(c + 1, x)' <=> DownAfter(c, x))
          /\ v.key = x => (DownAfter(c + 1, x)' <=> v.down)
      BY <2>2, <2>6, DownAfterPush
    <3> QED
      BY <2>2, <2>4, <2>7, <3>1
  <2>9. \A x \in Keys : x \in keyMap' <=> DownAfter(InRing, x)'
    BY <2>3, <2>5, <2>8
  <2>10. ASSUME NEW i \in 0 .. (c + 1) - 1, NEW x \in Modifiers
         PROVE  x \in OnTheWay(i)'.held <=> DownAfter(i + 1, x)'
    <3>1. CASE i = c
      BY <2>4, <2>6, <2>8, <3>1, InputAssumption
    <3>2. CASE i # c
      <4>1. i \in 0 .. c - 1 /\ i + 1 \in 0 .. c
        BY <3>2
      <4>2. x \in OnTheWay(i).held <=> DownAfter(i + 1, x)
        BY <1>0, <2>5, <4>1 DEF CarriesInv
      <4>3. DownAfter(i + 1, x)' <=> DownAfter(i + 1, x)
        BY <2>2, <2>6, <4>1, DownAfterPush
      <4> QED
        BY <2>6, <4>1, <4>2, <4>3
    <3> QED
      BY <3>1, <3>2
  <2>11. ASSUME NEW i \in 0 .. (c + 1) - 1
         PROVE  OnTheWay(i)'.held \subseteq Modifiers
    <3>1. CASE i = c
      BY <2>4, <2>6, <3>1
    <3>2. CASE i # c
      <4>1. i \in 0 .. c - 1
        BY <3>2
      <4> QED
        BY <1>0, <2>5, <2>6, <4>1 DEF CarriesInv
    <3> QED
      BY <3>1, <3>2
  <2>12. posted'.modifiers = posted'.held
    BY <1>0, <2>2 DEF CarriesInv
  <2>13. InRing' = c + 1
    BY <2>3, <2>5
  <2> QED
    BY <2>9, <2>10, <2>11, <2>12, <2>13 DEF CarriesInv
<1>3. CASE KeyReplay
  <2>1. /\ pc = "replay" /\ keyTail # keyHead /\ keyTail' = NextIndex(keyTail)
        /\ transition = keyRing[keyTail] /\ lastKeyMap' = Replayed
        /\ posted' = IF transition.key \in Modifiers THEN posted
                     ELSE [what |-> IF transition.down THEN "keyDown" ELSE "keyUp",
                           modifiers |-> Replayed \cap Modifiers,
                           held |-> transition.held]
        /\ UNCHANGED <<keyRing, keyHead, keyMap>>
    BY <1>3 DEF KeyReplay, QueueInv, RingInv
  <2>2. /\ InRing' = InRing - 1
        /\ \A i \in 0 .. InRing - 2 : OnTheWay(i)' = OnTheWay(i + 1)
    BY <2>1, Popped DEF QueueInv
  <2>3. InRing > 0 /\ OnTheWay(0) = transition
    <3>1. keyTail \in 0 .. RingSize - 1 /\ RingSize \in Nat
      BY InputAssumption DEF QueueInv, TypeOK, RingIndices
    <3>2. Slot(keyTail, 0) = keyTail
      BY <3>1 DEF Slot
    <3> QED
      BY <2>1, <3>1, <3>2, InRingBounds DEF QueueInv
  <2>4. PICK c \in Nat : InRing = c + 1 /\ InRing' = c
    <3>1. InRing - 1 \in Nat /\ InRing = (InRing - 1) + 1
      BY <1>1, <2>3
    <3> QED
      BY <2>2, <3>1
  <2>5. \A i \in 0 .. c - 1 : OnTheWay(i)' = OnTheWay(i + 1)
    BY <2>2, <2>4
  <2>6. transition \in Transitions
    BY <2>3, <2>4 DEF QueueInv, RingInv
  <2>7. ASSUME NEW n \in 0 .. c, NEW x
        PROVE  DownAfter(n, x)' <=> DownAfter(n + 1, x)
    <3>1. \A i \in 0 .. n - 1 : OnTheWay(i)' = OnTheWay(i + 1)
      BY <2>5
    <3>2. n \in Nat /\ transition.down \in BOOLEAN
      BY <2>6 DEF Transitions
    <3> QED
      BY <2>1, <2>3, <3>1, <3>2, DownAfterPop DEF Replayed
  <2>8. \A x \in Keys : x \in keyMap' <=> DownAfter(InRing, x)'
    <3>1. \A x \in Keys : DownAfter(c, x)' <=> DownAfter(c + 1, x)
      BY <2>7
    <3>2. \A x \in Keys : x \in keyMap <=> DownAfter(c + 1, x)
      BY <1>0, <2>4 DEF CarriesInv
    <3> QED
      BY <2>1, <2>4, <3>1, <3>2
  <2>9. ASSUME NEW i \in 0 .. c - 1, NEW x \in Modifiers
        PROVE  x \in OnTheWay(i)'.held <=> DownAfter(i + 1, x)'
    <3>1. i + 1 \in 0 .. InRing - 1 /\ i + 1 \in 0 .. c
      BY <2>4
    <3>2. x \in OnTheWay(i + 1).held <=> DownAfter((i + 1) + 1, x)
      BY <1>0, <3>1 DEF CarriesInv
    <3>3. DownAfter(i + 1, x)' <=> DownAfter((i + 1) + 1, x)
      BY <2>7, <3>1
    <3> QED
      BY <2>5, <3>2, <3>3
  <2>10. ASSUME NEW i \in 0 .. c - 1
         PROVE  OnTheWay(i)'.held \subseteq Modifiers
    <3>1. i + 1 \in 0 .. InRing - 1
      BY <2>4
    <3> QED
      BY <1>0, <2>5, <3>1 DEF CarriesInv
  <2>11. posted'.modifiers = posted'.held
    <3>1. CASE transition.key \in Modifiers
      BY <1>0, <2>1, <3>1 DEF CarriesInv
    <3>2. CASE transition.key \notin Modifiers
      <4>1. transition.held \subseteq Modifiers
        BY <1>0, <2>3, <2>4 DEF CarriesInv
      <4>2. \A x \in Modifiers : x \in transition.held <=> x \in Replayed
        <5> SUFFICES ASSUME NEW x \in Modifiers
                     PROVE  x \in transition.held <=> x \in Replayed
          OBVIOUS
        <5>1. x \in OnTheWay(0).held <=> DownAfter(0 + 1, x)
          BY <1>0, <2>4 DEF CarriesInv
        <5>2. DownAfter(0, x)' <=> DownAfter(0 + 1, x)
          BY <2>7
        <5>3. DownAfter(0, x)' <=> x \in lastKeyMap'
          BY DEF DownAfter
        <5> QED
          BY <2>1, <2>3, <5>1, <5>2, <5>3
      <4>3. transition.held = Replayed \cap Modifiers
        BY <4>1, <4>2
      <4> QED
        BY <2>1, <3>2, <4>3
    <3> QED
      BY <3>1, <3>2
  <2> QED
    BY <2>4, <2>8, <2>9, <2>10, <2>11 DEF CarriesInv
<1>4. ASSUME UNCHANGED <<keyRing, keyHead, keyTail, keyMap, lastKeyMap>>,
             posted'.modifiers = posted'.held
      PROVE  CarriesInv'
  <2>1. InRing' = InRing /\ \A i : OnTheWay(i)' = OnTheWay(i)
    BY <1>4, OnTheWaySame
  <2>2. \A n, k : DownAfter(n, k)' <=> DownAfter(n, k)
    BY <1>4, DownAfterSame
  <2>3. \A k \in Keys : k \in keyMap' <=> DownAfter(InRing, k)'
    <3>1. PICK c : c = InRing
      OBVIOUS
    <3>2. \A k \in Keys : k \in keyMap <=> DownAfter(c, k)
      BY <1>0, <3>1 DEF CarriesInv
    <3>3. \A k \in Keys : k \in keyMap' <=> DownAfter(c, k)'
      BY <1>4, <2>2, <3>2
    <3> QED
      BY <2>1, <3>1, <3>3
  <2>4. \A i \in 0 .. InRing' - 1 : \A k \in Modifiers :
           k \in OnTheWay(i)'.held <=> DownAfter(i + 1, k)'
    <3> SUFFICES ASSUME NEW i \in 0 .. InRing - 1, NEW k \in Modifiers
                 PROVE  k \in OnTheWay(i)'.held <=> DownAfter(i + 1, k)'
      BY <2>1
    <3>1. k \in OnTheWay(i).held <=> DownAfter(i + 1, k)
      BY <1>0 DEF CarriesInv
    <3> QED
      BY <2>1, <2>2, <3>1
  <2>5. \A i \in 0 .. InRing' - 1 : OnTheWay(i)'.held \subseteq Modifiers
    BY <1>0, <2>1 DEF CarriesInv
  <2> QED
    BY <1>4, <2>3, <2>4, <2>5 DEF CarriesInv
<1>5. ASSUME NEW new \in SUBSET Buttons, MouseInterrupt(new)
      PROVE  CarriesInv'
  BY <1>0, <1>4, <1>5 DEF MouseInterrupt, inputVars, localVars, CarriesInv
<1>6. CASE TickPasses \/ PollLevel \/ PollPending \/ KeyRead \/ KeysDone \/ TrackBegin
           \/ TrackEnd \/ UNCHANGED vars
  <2>1. UNCHANGED <<keyRing, keyHead, keyTail, keyMap, lastKeyMap, posted>>
    BY <1>6 DEF TickPasses, PollLevel, PollPending, KeyRead, KeysDone, TrackBegin, TrackEnd,
                vars, irqVars, inputVars, localVars
  <2> QED
    BY <1>0, <1>4, <2>1 DEF CarriesInv
<1>7. CASE PollButtons
  <2>1. UNCHANGED <<keyRing, keyHead, keyTail, keyMap, lastKeyMap>>
    BY <1>7 DEF PollButtons
  <2>2. \/ posted' = posted
        \/ posted' = MouseEvent("mouseDown") \/ posted' = MouseEvent("mouseUp")
    BY <1>7 DEF PollButtons, ReportDown, ReportUp, ReportNothing, PostMouse
  <2>3. posted'.modifiers = posted'.held
    BY <1>0, <2>2 DEF CarriesInv, MouseEvent
  <2> QED
    BY <1>4, <2>1, <2>3
<1> QED
  BY <1>2, <1>3, <1>5, <1>6, <1>7 DEF Next, Poll

LEMMA CarriesCorrect == Spec => []CarriesInv
BY QueueCorrect, CarriesInit, CarriesStep, PTL DEF Spec

\* A bounded set of numbers that is not empty has a largest.
LEMMA LargestExists ==
    ASSUME NEW n \in Nat, NEW S, S \subseteq 0 .. n - 1, S # {}
    PROVE  \E m \in S : \A j \in S : j <= m
<1> DEFINE Distances == {n - i : i \in S}
<1>1. Distances \subseteq Nat /\ Distances # {}
  OBVIOUS
<1>2. PICK l \in Distances : \A x \in Distances : ~(<<x, l>> \in OpToRel(<, Nat))
  BY <1>1, NatLessThanWellFounded, WFMin
<1>3. PICK m \in S : l = n - m
  OBVIOUS
<1>4. ASSUME NEW j \in S
      PROVE  j <= m
  <2>1. n - j \in Distances /\ n - j \in Nat /\ l \in Nat /\ j \in 0 .. n - 1 /\ m \in 0 .. n - 1
    BY <1>1, <1>3
  <2>2. ~(n - j < l)
    BY <1>2, <2>1 DEF OpToRel
  <2> QED
    BY <1>3, <2>1, <2>2
<1> QED
  BY <1>4

\* Nothing is lost, doubled or put out of order between PushKeyTransition in the
\* interrupt and the replay of ProcessModernInput, until the ring overflows.
THEOREM KeyMapCarried == Spec => []RingCarriesKeyMap
<1>1. QueueInv /\ CarriesInv => RingCarriesKeyMap
  <2> SUFFICES ASSUME QueueInv, CarriesInv, ~keysLost, NEW k \in Keys
               PROVE  LET of == {i \in 0 .. InRing - 1 : OnTheWay(i).key = k}
                      IN  k \in keyMap <=>
                            IF of = {} THEN k \in lastKeyMap
                            ELSE OnTheWay(CHOOSE i \in of : \A j \in of : j <= i).down
    BY DEF RingCarriesKeyMap
  <2> DEFINE of == {i \in 0 .. InRing - 1 : OnTheWay(i).key = k}
             last == CHOOSE i \in of : \A j \in of : j <= i
  <2>1. k \in keyMap <=> DownAfter(InRing, k)
    BY DEF CarriesInv
  <2>2. InRing \in Nat
    BY InRingBounds DEF QueueInv
  <2>3. CASE of = {}
    BY <2>1, <2>3 DEF DownAfter
  <2>4. CASE of # {}
    <3>1. \E m \in of : \A j \in of : j <= m
      BY <2>2, <2>4, LargestExists
    <3>2. last \in of /\ \A j \in of : j <= last
      BY <3>1
    <3>3. \A i \in of : (\A j \in of : j <= i) => i = last
      BY <2>2, <3>2
    <3> HIDE DEF last
    <3>4. DownAfter(InRing, k) <=> OnTheWay(last).down
      BY <3>2, <3>3 DEF DownAfter
    <3> QED
      BY <2>1, <2>4, <3>4 DEF last
  <2> QED
    BY <2>3, <2>4
<1> QED
  BY <1>1, QueueCorrect, CarriesCorrect, PTL

\* A key event is posted with the modifiers that were down when its key moved,
\* however late it is replayed.
THEOREM ModifiersAsPressed == Spec => []ModifiersWereInEffect
<1>1. CarriesInv => ModifiersWereInEffect
  BY DEF CarriesInv, ModifiersWereInEffect
<1> QED
  BY <1>1, CarriesCorrect, PTL

-----------------------------------------------------------------------------
(* The latch.                                                              *)

\* Where the presses are that no call has returned and none has missed: in the latch
\* until the call under way has read the level, then there or in that, and once it
\* has read the latch in what it has read.
PressInv ==
    LET seen == unreported \ late IN
    /\ pc = "pending" => seen \subseteq pendingPress \cup level
    /\ pc = "buttons" => seen \subseteq level \cup pending
    /\ pc \notin {"pending", "buttons"} => seen \subseteq pendingPress

LEMMA PressStep == TypeOK /\ PressInv /\ [Next]_vars => PressInv'
<1> SUFFICES ASSUME TypeOK, PressInv, [Next]_vars
             PROVE  PressInv'
  OBVIOUS
<1> USE DEF PressInv
<1>1. ASSUME NEW new \in SUBSET Buttons, MouseInterrupt(new)
      PROVE  PressInv'
  BY <1>1 DEF MouseInterrupt, Latched, inputVars, localVars
<1>2. ASSUME NEW k \in Keys, NEW down \in BOOLEAN, KeyInterrupt(k, down)
      PROVE  PressInv'
  BY <1>2 DEF KeyInterrupt, inputVars, localVars, pressVars
<1>3. CASE PollLevel
  BY <1>3 DEF PollLevel, irqVars, inputVars
<1>4. CASE PollPending
  BY <1>4 DEF PollPending, irqVars, inputVars, pressVars, ghostVars
<1>5. CASE PollButtons
  <2>1. /\ pc = "buttons" /\ pc' \in {"idle", "keys"} /\ pendingPress' = Cleared
        /\ unreported' = unreported \ (Sampled \ late)
        /\ late' = IF pending # {} THEN late ELSE late \ pendingPress
    BY <1>5 DEF PollButtons, ReportDown, ReportUp, ReportNothing
  <2>2. unreported \ late \subseteq Sampled
    BY <2>1 DEF Sampled
  <2> QED
    BY <2>1, <2>2 DEF Cleared
<1>6. CASE KeyRead \/ KeyReplay \/ KeysDone
  BY <1>6 DEF KeyRead, KeyReplay, KeysDone, irqVars, inputVars, pressVars, ghostVars
<1>7. CASE TickPasses \/ TrackBegin \/ TrackEnd \/ UNCHANGED vars
  BY <1>7 DEF TickPasses, TrackBegin, TrackEnd, vars, irqVars, inputVars, localVars, pressVars,
              ghostVars
<1> QED
  BY <1>1, <1>2, <1>3, <1>4, <1>5, <1>6, <1>7 DEF Next, Poll

\* A press at any point of a poll or between two stays in the latch, or among what
\* the call under way has read, until GetMouseButtonsLatched returns it, unless it
\* comes between that call's read of the latch and its clear.
THEOREM PressNotLost == Spec => []PressStaysLatched
<1>1. Init => PressInv
  BY DEF Init, PressInv
<1>2. PressInv => PressStaysLatched
  BY DEF PressInv, PressStaysLatched
<1>3. QueueInv => TypeOK
  BY DEF QueueInv
<1> QED
  BY <1>1, <1>2, <1>3, PressStep, QueueCorrect, PTL DEF Spec
=============================================================================
