-------------------------- MODULE TimeManagerProofs --------------------------
(***************************************************************************)
(* Theorems about TimeManager, for every table size, ring size, set of     *)
(* tasks, resolution and cap.                                              *)
(***************************************************************************)
EXTENDS TimeManager, TLAPS

-----------------------------------------------------------------------------
(* The ring.                                                               *)

\* The successor of a ring position is another ring position.
LEMMA SuccType ==
    ASSUME NEW i \in RingIndex
    PROVE  Succ(i) \in RingIndex /\ Succ(i) # i
BY ConstantsAssumption, SMT DEF Succ, RingIndex

\* Between(b, b) is empty.
LEMMA BetweenEmpty ==
    ASSUME NEW b \in RingIndex
    PROVE  Between(b, b) = {}
BY ConstantsAssumption, SMT DEF Between, RingIndex

\* Advancing the end of a ring that is not full adds the old end.
LEMMA BetweenGrows ==
    ASSUME NEW b \in RingIndex, NEW e \in RingIndex, Succ(e) # b
    PROVE  Between(b, Succ(e)) = Between(b, e) \cup {e} /\ e \notin Between(b, e)
BY ConstantsAssumption, SMT DEF Succ, Between, RingIndex

\* Advancing the start of a ring that is not empty takes the old start away.
LEMMA BetweenShrinks ==
    ASSUME NEW b \in RingIndex, NEW e \in RingIndex, b # e
    PROVE  Between(Succ(b), e) = Between(b, e) \ {b} /\ b \in Between(b, e)
BY ConstantsAssumption, SMT DEF Succ, Between, RingIndex

-----------------------------------------------------------------------------
(* Type correctness.                                                       *)

\* Programming the interrupt for a natural number leaves its state well-typed.
LEMMA RearmType ==
    ASSUME TypeOK,
           NEW P \in SUBSET Slots, NEW dl \in [Slots -> Nat],
           RearmNextInterrupt(P, dl)
    PROVE  armed' \in BOOLEAN /\ nextDeadline' \in Nat
<1>1. \A d \in Nat : ClampedDelta(d) \in Nat
  BY ConstantsAssumption DEF ClampedDelta, TypeOK
<1>2. ASSUME NEW d \in Nat, ProgramNextTimerInterrupt(d)
      PROVE  armed' \in BOOLEAN /\ nextDeadline' \in Nat
  <2>1. armed' \in BOOLEAN
    BY <1>2, Zenon DEF ProgramNextTimerInterrupt
  <2>2. nextDeadline' \in Nat
    BY <1>1, <1>2, SMT DEF ProgramNextTimerInterrupt, TypeOK
  <2> QED
    BY <2>1, <2>2
<1> QED
  BY <1>2 DEF RearmNextInterrupt

\* Queueing an item keeps the ring well-typed.
LEMMA EnqueueType ==
    ASSUME TypeOK, NEW t \in Tasks \cup {NoTask}, NEW g \in Nat,
           EnqueueDeferred(t, g)
    PROVE  /\ ring' \in [RingIndex -> Item]
           /\ head' \in RingIndex
           /\ tail' \in RingIndex
<1>1. Succ(head) \in RingIndex
  BY SuccType DEF TypeOK
<1>2. [task |-> t, gen |-> g] \in Item
  BY DEF Item
<1> QED
  BY <1>1, <1>2 DEF EnqueueDeferred, TypeOK, ringVars

\* A periodic task is put off, never called forward, and its next deadline is
\* never the 0 that disarms.
LEMMA NextPeriodLater ==
    ASSUME TypeOK, NEW s \in Slots, eDeadline[s] <= isrNow
    PROVE  /\ NextPeriod(s) \in Nat
           /\ NextPeriod(s) >= eDeadline[s] + ePeriod[s]
<1>1. ePeriod[s] * MaxCatchup \in Nat
  BY ConstantsAssumption DEF TypeOK
<1>2. CatchupLimit(s) \in Nat
  <2>1. \A n \in Nat, w \in Nat \ {0} : n % w \in Nat
    BY SMT
  <2> QED
    BY <1>1, <2>1, ConstantsAssumption DEF CatchupLimit
<1> QED
  BY <1>2 DEF NextPeriod, TypeOK

\* Every step keeps every variable in its type.
LEMMA TypeStep == TypeOK /\ [Next]_vars => TypeOK'
<1> SUFFICES ASSUME TypeOK, [Next]_vars
             PROVE  TypeOK'
  OBVIOUS
<1> USE DEF TypeOK
<1>1. CASE InitTimeManager
  <2>1. initialized' \in BOOLEAN
    BY <1>1, Zenon DEF InitTimeManager
  <2> QED
    BY <1>1, <2>1, ConstantsAssumption
       DEF InitTimeManager, clockVars, timerVars, loopVars, RingIndex
<1>2. CASE ShutdownTimeManager
  <2>1. initialized' \in BOOLEAN /\ armed' \in BOOLEAN
    BY <1>2, Zenon DEF ShutdownTimeManager, ProgramNextTimerInterrupt
  <2> QED
    BY <1>2, <2>1, ConstantsAssumption
       DEF ShutdownTimeManager, ProgramNextTimerInterrupt, clockVars, loopVars, RingIndex
<1>3. ASSUME NEW t \in Tasks, NEW s \in Slots, InsTime(t, s)
      PROVE  TypeOK'
  BY <1>3 DEF InsTime, clockVars, timerVars, ringVars, loopVars
<1>4. ASSUME NEW t \in Tasks, NEW s \in Slots, RmvTime(t, s)
      PROVE  TypeOK'
  <2>1. armed' \in BOOLEAN /\ nextDeadline' \in Nat
    BY <1>4, RearmType DEF RmvTime, timerVars
  <2> QED
    BY <1>4, <2>1 DEF RmvTime, BumpGeneration, clockVars, ringVars, loopVars
<1>5. ASSUME NEW t \in Tasks, NEW s \in Slots, CancelTime(t, s)
      PROVE  TypeOK'
  <2>1. armed' \in BOOLEAN /\ nextDeadline' \in Nat
    BY <1>5, RearmType DEF CancelTime, timerVars
  <2> QED
    BY <1>5, <2>1 DEF CancelTime, BumpGeneration, clockVars, ringVars, loopVars
<1>6. ASSUME NEW t \in Tasks, NEW d \in Delays, NEW s \in Slots, PrimeTime(t, d, s)
      PROVE  TypeOK'
  <2>1. eDeadline' \in [Slots -> Nat]
    BY <1>6, ConstantsAssumption DEF PrimeTime
  <2>2. armed' \in BOOLEAN /\ nextDeadline' \in Nat
    BY <1>6, <2>1, RearmType DEF PrimeTime
  <2>3. ePeriod' \in [Slots -> Nat]
    BY <1>6, ConstantsAssumption DEF PrimeTime, PeriodOf
  <2> QED
    BY <1>6, <2>1, <2>2, <2>3
       DEF PrimeTime, BumpGeneration, clockVars, ringVars, loopVars
<1>7. CASE DrainItem
  <2>1. Succ(tail) \in RingIndex
    BY SuccType
  <2>2. ring[tail] \in Item
    OBVIOUS
  <2>3. running' \in Tasks \cup {NoTask} /\ owed' \in [Tasks -> Nat]
    BY <1>7, <2>2 DEF DrainItem, Item
  <2> QED
    BY <1>7, <2>1, <2>3 DEF DrainItem, clockVars, tableVars, timerVars
<1>8. CASE CallbackReturns
  BY <1>8 DEF CallbackReturns, clockVars, tableVars, timerVars, ringVars, ghostVars
<1>9. CASE DrainEnds
  BY <1>9 DEF DrainEnds, clockVars, tableVars, timerVars, ringVars, ghostVars
<1>10. CASE ClientsDone
  BY <1>10 DEF ClientsDone, clockVars, tableVars, timerVars, ringVars, ghostVars
<1>11. CASE TimerISR
  <2>1. armed' \in BOOLEAN
    BY <1>11, Zenon DEF TimerISR
  <2> QED
    BY <1>11, <2>1 DEF TimerISR, NextRound, clockVars, tableVars, ringVars, ghostVars
<1>12. ASSUME NEW s \in Slots, ExpireEarliest(s)
       PROVE  TypeOK'
  <2>1. ring' \in [RingIndex -> Item] /\ head' \in RingIndex /\ tail' \in RingIndex
    BY <1>12, EnqueueType DEF ExpireEarliest
  <2>2. NextPeriod(s) \in Nat
    BY <1>12, NextPeriodLater DEF ExpireEarliest, DueRoot
  <2>3. /\ eDeadline' \in [Slots -> Nat]
        /\ eGen' \in [Slots -> Nat]
        /\ pending' \subseteq Slots
        /\ owed' \in [Tasks -> Nat]
    <3>1. owed' \in [Tasks -> Nat]
      BY <1>12 DEF ExpireEarliest
    <3>2. CASE ePeriod[s] > 0
      BY <1>12, <2>2, <3>1, <3>2 DEF ExpireEarliest, BumpGeneration
    <3>3. CASE ~(ePeriod[s] > 0)
      BY <1>12, <3>1, <3>3 DEF ExpireEarliest
    <3> QED
      BY <3>2, <3>3
  <2> QED
    BY <1>12, <2>1, <2>3 DEF ExpireEarliest, clockVars, timerVars, loopVars
<1>13. CASE ExpireDone
  <2>1. armed' \in BOOLEAN /\ nextDeadline' \in Nat
    BY <1>13, RearmType DEF ExpireDone
  <2> QED
    BY <1>13, <2>1 DEF ExpireDone, NextRound, clockVars, tableVars, ringVars, ghostVars
<1>14. CASE Tick
  BY <1>14 DEF Tick, tableVars, timerVars, ringVars, loopVars, ghostVars
<1>15. CASE UNCHANGED vars
  BY <1>15 DEF vars, clockVars, tableVars, timerVars, ringVars, loopVars, ghostVars
<1> QED
  BY <1>1, <1>2, <1>3, <1>4, <1>5, <1>6, <1>7, <1>8, <1>9, <1>10, <1>11, <1>12,
     <1>13, <1>14, <1>15 DEF Next, ClientCall, MainLoop

\* The initial state is well-typed.
LEMMA InitType == Init => TypeOK
<1> SUFFICES ASSUME Init PROVE TypeOK
  OBVIOUS
<1>1. initialized \in BOOLEAN /\ armed \in BOOLEAN
  BY Zenon DEF Init
<1>2. ring \in [RingIndex -> Item]
  BY DEF Init, Item, NoItem
<1> QED
  BY <1>1, <1>2, ConstantsAssumption DEF Init, TypeOK, RingIndex

\* Type correctness of the Time Manager: in particular the ring's cursors never
\* leave the ring and no entry loses its generation.
THEOREM TypeCorrect == Spec => []TypeOK
<1> QED
  BY InitType, TypeStep, PTL DEF Spec

-----------------------------------------------------------------------------
(* The programmed interrupt.                                               *)

\* Programming the interrupt for the root of a heap covers the whole heap.
LEMMA RearmCovers ==
    ASSUME TypeOK,
           NEW P \in SUBSET Slots, NEW dl \in [Slots -> Nat],
           \A s \in P : dl[s] > 0,
           RearmNextInterrupt(P, dl),
           NEW r \in P
    PROVE  armed' /\ (nextDeadline' <= dl[r] \/ nextDeadline' <= now)
<1> PICK s \in P : Earliest(s, P, dl) /\ ProgramNextTimerInterrupt(dl[s])
  BY DEF RearmNextInterrupt
<1>1. dl[s] <= dl[r] /\ dl[s] \in Nat /\ dl[r] \in Nat /\ dl[s] # 0
  BY DEF Earliest
<1>2. armed' = TRUE /\ nextDeadline' = now + ClampedDelta(dl[s])
  BY <1>1 DEF ProgramNextTimerInterrupt
<1>3. ClampedDelta(dl[s]) <= (IF dl[s] <= now THEN 0 ELSE dl[s] - now)
  BY <1>1, ConstantsAssumption DEF ClampedDelta, TypeOK
<1>4. ClampedDelta(dl[s]) \in Nat
  BY <1>1, ConstantsAssumption DEF ClampedDelta, TypeOK
<1>5. nextDeadline' <= dl[s] \/ nextDeadline' <= now
  BY <1>1, <1>2, <1>3, <1>4 DEF TypeOK
<1>6. nextDeadline' \in Nat
  BY <1>1, <1>2, <1>4 DEF TypeOK
<1>7. nextDeadline' <= dl[r] \/ nextDeadline' <= now
  BY <1>1, <1>5, <1>6 DEF TypeOK
<1> QED
  BY <1>2, <1>7

\* An entry of the heap belongs to a task and has a deadline, which cannot be
\* mistaken for `disarm'.
HeapEntriesReal == \A s \in pending : eTask[s] \in Tasks /\ eDeadline[s] > 0

ArmedInv == TypeOK /\ HeapEntriesReal /\ ArmedCoversEarliest

\* Every step keeps the heap's entries real.
LEMMA HeapStep == TypeOK /\ HeapEntriesReal /\ [Next]_vars => HeapEntriesReal'
<1> SUFFICES ASSUME TypeOK, HeapEntriesReal, [Next]_vars
             PROVE  HeapEntriesReal'
  OBVIOUS
<1> USE DEF HeapEntriesReal
<1>1. CASE InitTimeManager
  BY <1>1 DEF InitTimeManager
<1>2. CASE ShutdownTimeManager
  BY <1>2 DEF ShutdownTimeManager
<1>3. ASSUME NEW t \in Tasks, NEW s \in Slots, InsTime(t, s)
      PROVE  HeapEntriesReal'
  BY <1>3 DEF InsTime, TypeOK
<1>4. ASSUME NEW t \in Tasks, NEW s \in Slots, RmvTime(t, s)
      PROVE  HeapEntriesReal'
  BY <1>4 DEF RmvTime, TypeOK
<1>5. ASSUME NEW t \in Tasks, NEW s \in Slots, CancelTime(t, s)
      PROVE  HeapEntriesReal'
  BY <1>5 DEF CancelTime, TypeOK
<1>6. ASSUME NEW t \in Tasks, NEW d \in Delays, NEW s \in Slots, PrimeTime(t, d, s)
      PROVE  HeapEntriesReal'
  BY <1>6, ConstantsAssumption DEF PrimeTime, FoundAt, TypeOK
<1>7. ASSUME NEW s \in Slots, ExpireEarliest(s)
      PROVE  HeapEntriesReal'
  <2>1. CASE ePeriod[s] > 0
    <3>1. NextPeriod(s) > 0
      BY <1>7, <2>1, NextPeriodLater DEF ExpireEarliest, DueRoot, TypeOK
    <3> QED
      BY <1>7, <2>1, <3>1 DEF ExpireEarliest, TypeOK
  <2>2. CASE ~(ePeriod[s] > 0)
    BY <1>7, <2>2 DEF ExpireEarliest, TypeOK
  <2> QED
    BY <2>1, <2>2
<1>8. CASE UNCHANGED <<eTask, eDeadline, pending>>
  BY <1>8
<1> QED
  BY <1>1, <1>2, <1>3, <1>4, <1>5, <1>6, <1>7, <1>8
     DEF Next, ClientCall, MainLoop, DrainItem, CallbackReturns, DrainEnds,
         ClientsDone, TimerISR, ExpireDone, Tick, tableVars, vars

\* Every step keeps the programmed interrupt early enough.
LEMMA ArmedStep == ArmedInv /\ [Next]_vars => ArmedCoversEarliest'
<1> SUFFICES ASSUME ArmedInv, [Next]_vars
             PROVE  ArmedCoversEarliest'
  OBVIOUS
<1>0. TypeOK' /\ HeapEntriesReal'
  BY TypeStep, HeapStep DEF ArmedInv
<1> USE DEF ArmedInv, ArmedCoversEarliest
<1>1. CASE InitTimeManager
  BY <1>1 DEF InitTimeManager
<1>2. CASE ShutdownTimeManager
  BY <1>2 DEF ShutdownTimeManager
<1>3. ASSUME NEW t \in Tasks, NEW s \in Slots, InsTime(t, s)
      PROVE  ArmedCoversEarliest'
  BY <1>3 DEF InsTime, clockVars, timerVars, loopVars, TypeOK
<1>4. ASSUME NEW s \in Slots, pending' = pending \ {s}, UNCHANGED <<eDeadline, now, pc>>,
             initialized' = initialized, ClientRuns,
             IF s \in pending THEN RearmNextInterrupt(pending \ {s}, eDeadline)
                              ELSE UNCHANGED timerVars
      PROVE  ArmedCoversEarliest'
  <2>1. CASE s \in pending
    BY <1>4, <2>1, RearmCovers DEF HeapEntriesReal, TypeOK
  <2>2. CASE s \notin pending
    BY <1>4, <2>2 DEF timerVars, ClientRuns
  <2> QED
    BY <2>1, <2>2
<1>5. ASSUME NEW t \in Tasks, NEW s \in Slots, RmvTime(t, s)
      PROVE  ArmedCoversEarliest'
  BY <1>4, <1>5 DEF RmvTime, clockVars, loopVars
<1>6. ASSUME NEW t \in Tasks, NEW s \in Slots, CancelTime(t, s)
      PROVE  ArmedCoversEarliest'
  BY <1>4, <1>6 DEF CancelTime, clockVars, loopVars
<1>7. ASSUME NEW t \in Tasks, NEW d \in Delays, NEW s \in Slots, PrimeTime(t, d, s)
      PROVE  ArmedCoversEarliest'
  <2>1. /\ pending' = pending \cup {s}
        /\ RearmNextInterrupt(pending', eDeadline')
        /\ now' = now
    BY <1>7 DEF PrimeTime, clockVars
  <2>2. /\ eDeadline' \in [Slots -> Nat]
        /\ pending' \in SUBSET Slots
        /\ \A r \in pending' : eDeadline'[r] > 0
    BY <1>0 DEF TypeOK, HeapEntriesReal
  <2> QED
    BY <2>1, <2>2, RearmCovers
<1>8. CASE TimerISR
  BY <1>8 DEF TimerISR, NextRound, clockVars, tableVars
<1>9. ASSUME NEW s \in Slots, ExpireEarliest(s)
      PROVE  ArmedCoversEarliest'
  BY <1>9 DEF ExpireEarliest, loopVars
<1>10. CASE ExpireDone
  BY <1>10, RearmCovers DEF ExpireDone, HeapEntriesReal, clockVars, tableVars, TypeOK
<1>11. CASE Tick
  BY <1>11 DEF Tick, tableVars, timerVars, loopVars, TypeOK
<1>12. CASE DrainItem \/ CallbackReturns \/ DrainEnds \/ ClientsDone
  <2>1. pc # "expire"
    BY <1>12 DEF DrainItem, CallbackReturns, DrainEnds, ClientsDone
  <2>2. UNCHANGED <<now, initialized, pending, eDeadline, armed, nextDeadline>>
    BY <1>12 DEF DrainItem, CallbackReturns, DrainEnds, ClientsDone,
                 clockVars, tableVars, timerVars
  <2> QED
    BY <2>1, <2>2
<1>13. CASE UNCHANGED vars
  BY <1>13 DEF vars, clockVars, tableVars, timerVars, loopVars
<1> QED
  BY <1>1, <1>2, <1>3, <1>5, <1>6, <1>7, <1>8, <1>9, <1>10, <1>11, <1>12, <1>13
     DEF Next, ClientCall, MainLoop

\* No pending task is ever without an interrupt that finds it in time, whatever
\* the resolution of the timer and the cap on its interval.
THEOREM ArmedSafe == Spec => []ArmedCoversEarliest
<1>1. Init => ArmedInv
  <2> SUFFICES ASSUME Init PROVE ArmedInv
    OBVIOUS
  <2>1. TypeOK
    BY InitType
  <2>2. pending = {}
    BY DEF Init
  <2> QED
    BY <2>1, <2>2 DEF ArmedInv, HeapEntriesReal, ArmedCoversEarliest
<1>2. ArmedInv /\ [Next]_vars => ArmedInv'
  BY TypeStep, HeapStep, ArmedStep DEF ArmedInv
<1>3. ArmedInv => ArmedCoversEarliest
  BY DEF ArmedInv
<1> QED
  BY <1>1, <1>2, <1>3, PTL DEF Spec

-----------------------------------------------------------------------------
(* The generation check.                                                   *)

\* A task that is not tainted has one entry.
OneEntry ==
    \A r, s \in Slots :
        eTask[r] = eTask[s] /\ eTask[s] \in Tasks \ tainted => r = s

\* Entries in use have a generation, and a period only if the task repeats.
EntriesReal ==
    \A s \in Slots : eTask[s] \in Tasks =>
        eGen[s] > 0 /\ (eTask[s] \notin Periodic => ePeriod[s] = 0)

ItemsReal == \A i \in Queued : ring[i].task \in Tasks /\ ring[i].gen > 0

\* An item's generation is at most that of its task's entry; only if they are
\* equal will the item be called, and then its entry has expired for good, its
\* deadline has passed and it is what the task is owed.
GenerationsBound ==
    \A i \in Queued, s \in Slots :
        eTask[s] = ring[i].task /\ ring[i].task \notin tainted =>
            /\ ring[i].gen <= eGen[s]
            /\ ring[i].gen = eGen[s] =>
                  /\ s \notin pending
                  /\ eDeadline[s] <= now
                  /\ owed[ring[i].task] = ring[i].gen
                  /\ ePeriod[s] = 0

\* No two items carry the same generation of a task.
GenerationsDiffer ==
    \A i, j \in Queued :
        ring[i] = ring[j] /\ ring[i].task \notin tainted => i = j

\* What a one-shot task is owed is the current generation of its entry.
OwedIsCurrent ==
    \A t \in Tasks \ (Periodic \cup tainted) :
        owed[t] # 0 => \E s \in Slots : eTask[s] = t /\ eGen[s] = owed[t]

QueueInv ==
    /\ TypeOK
    /\ HeapEntriesReal
    /\ isrNow <= now
    /\ OneEntry
    /\ EntriesReal
    /\ ItemsReal
    /\ GenerationsBound
    /\ GenerationsDiffer
    /\ OwedIsCurrent

\* The invariant in terms of the properties the runs check.
LEMMA QueueInvImplies ==
    QueueInv => QueuedMatchIsOwed /\ QueuedMatchIsDue /\ OneShotNotSkipped
<1> SUFFICES ASSUME QueueInv
             PROVE  QueuedMatchIsOwed /\ QueuedMatchIsDue /\ OneShotNotSkipped
  OBVIOUS
<1> USE DEF QueueInv
<1>1. ASSUME NEW i \in RingIndex, Live(i), NEW s \in Slots, eTask[s] = ring[i].task
      PROVE  /\ s \notin pending /\ eDeadline[s] <= now
             /\ owed[ring[i].task] = ring[i].gen
  <2>1. i \in Queued /\ ring[i].task \in Tasks \ tainted
    BY <1>1 DEF Live, ItemsReal
  <2> PICK r \in Slots : FoundAt(r, ring[i].task) /\ eGen[r] = ring[i].gen
    BY <1>1 DEF Live, GenerationMatches
  <2>2. r = s
    BY <1>1, <2>1 DEF FoundAt, OneEntry
  <2> QED
    BY <1>1, <2>1, <2>2 DEF GenerationsBound
<1>2. QueuedMatchIsOwed
  <2> SUFFICES ASSUME NEW i \in RingIndex, Live(i)
               PROVE  owed[ring[i].task] = ring[i].gen
    BY DEF QueuedMatchIsOwed
  <2>1. \E s \in Slots : eTask[s] = ring[i].task
    BY DEF Live, GenerationMatches, FoundAt
  <2> QED
    BY <1>1, <2>1
<1>3. QueuedMatchIsDue
  BY <1>1 DEF QueuedMatchIsDue
<1>4. OneShotNotSkipped
  <2> SUFFICES ASSUME NEW i \in Queued, ring[i].task \notin tainted,
                      ring[i].task \notin Periodic,
                      owed[ring[i].task] = ring[i].gen
               PROVE  GenerationMatches(ring[i])
    BY DEF OneShotNotSkipped
  <2>1. ring[i].task \in Tasks /\ ring[i].gen > 0
    BY DEF ItemsReal
  <2>2. PICK s \in Slots : eTask[s] = ring[i].task /\ eGen[s] = ring[i].gen
    BY <2>1 DEF OwedIsCurrent
  <2>3. FoundAt(s, ring[i].task)
    BY <2>1, <2>2 DEF FoundAt, OneEntry, Slots
  <2> QED
    BY <2>2, <2>3 DEF GenerationMatches
<1> QED
  BY <1>2, <1>3, <1>4

\* Withdrawing what a task is owed (CancelTime, RmvTime, PrimeTime) moves its
\* generation on, so no item in the ring will be called for it.
LEMMA WithdrawStep ==
    ASSUME QueueInv, NEW t \in Tasks, NEW s \in Slots, eTask[s] = t,
           BumpGeneration(s),
           owed' = [owed EXCEPT ![t] = 0],
           \A r \in Slots : r # s =>
              /\ eTask'[r] = eTask[r]
              /\ eDeadline'[r] = eDeadline[r]
              /\ ePeriod'[r] = ePeriod[r]
              /\ r \in pending' <=> r \in pending,
           eTask'[s] \in {t, NoTask},
           t \notin Periodic => ePeriod'[s] = 0,
           TypeOK',
           UNCHANGED <<ringVars, tainted, now>>
    PROVE  /\ OneEntry' /\ EntriesReal' /\ ItemsReal'
           /\ GenerationsBound' /\ GenerationsDiffer' /\ OwedIsCurrent'
<1> USE DEF QueueInv
<1>0. Queued' = Queued
  BY DEF Queued, ringVars
<1>1. /\ eGen'[s] = eGen[s] + 1
      /\ \A r \in Slots : r # s => eGen'[r] = eGen[r]
  BY DEF BumpGeneration, TypeOK
<1>2. NoTask \notin Tasks
  BY ConstantsAssumption
<1>3. OneEntry'
  BY <1>2 DEF OneEntry
<1>4. EntriesReal'
  BY <1>1, <1>2 DEF EntriesReal, TypeOK
<1>5. ItemsReal'
  BY <1>0 DEF ItemsReal, ringVars
<1>6. GenerationsDiffer'
  BY <1>0 DEF GenerationsDiffer, ringVars
<1>7. GenerationsBound'
  <2> SUFFICES ASSUME NEW i \in Queued, NEW r \in Slots,
                      eTask'[r] = ring[i].task, ring[i].task \notin tainted
               PROVE  /\ ring[i].gen <= eGen'[r]
                      /\ ring[i].gen = eGen'[r] =>
                            /\ r \notin pending'
                            /\ eDeadline'[r] <= now
                            /\ owed'[ring[i].task] = ring[i].gen
                            /\ ePeriod'[r] = 0
    BY <1>0 DEF GenerationsBound, ringVars
  <2>1. ring[i].task \in Tasks /\ ring[i] \in Item
    BY DEF ItemsReal, Queued, Between, TypeOK
  <2>2. CASE r = s
    <3>1. eTask[s] = ring[i].task
      BY <2>1, <2>2, <1>2
    <3>2. ring[i].gen <= eGen[s]
      BY <3>1 DEF GenerationsBound
    <3> QED
      BY <2>1, <2>2, <3>2, <1>1 DEF TypeOK, Item
  <2>3. CASE r # s
    <3>1. eTask[r] = ring[i].task /\ eTask[r] # t
      BY <2>1, <2>3 DEF OneEntry
    <3> QED
      BY <2>1, <2>3, <3>1, <1>1 DEF GenerationsBound, TypeOK
  <2> QED
    BY <2>2, <2>3
<1>8. OwedIsCurrent'
  <2> SUFFICES ASSUME NEW u \in Tasks \ (Periodic \cup tainted), owed'[u] # 0
               PROVE  \E r \in Slots : eTask'[r] = u /\ eGen'[r] = owed'[u]
    BY DEF OwedIsCurrent
  <2>1. u # t /\ owed'[u] = owed[u]
    BY DEF TypeOK
  <2>2. PICK r \in Slots : eTask[r] = u /\ eGen[r] = owed[u]
    BY <2>1 DEF OwedIsCurrent
  <2>3. r # s
    BY <2>1, <2>2
  <2> QED
    BY <2>1, <2>2, <2>3, <1>1
<1> QED
  BY <1>3, <1>4, <1>5, <1>6, <1>7, <1>8

\* InsTime: the new entry has no item in the ring, or its task is tainted.
LEMMA InsertStep ==
    ASSUME QueueInv, NEW t \in Tasks, NEW s \in Slots, InsTime(t, s), TypeOK'
    PROVE  /\ OneEntry' /\ EntriesReal' /\ ItemsReal'
           /\ GenerationsBound' /\ GenerationsDiffer' /\ OwedIsCurrent'
<1> USE DEF QueueInv
<1>1. Queued' = Queued /\ UNCHANGED <<ring, owed, now>>
  BY DEF InsTime, Queued, ringVars, clockVars
<1>2. /\ tainted \subseteq tainted'
      /\ t \notin tainted' => ~Installed(t) /\ \A i \in Queued : ring[i].task # t
  BY DEF InsTime
<1>3. /\ eTask[s] = NoTask /\ eTask'[s] = t
      /\ eGen'[s] > 0 /\ ePeriod'[s] = 0
      /\ \A r \in Slots : r # s =>
            /\ eTask'[r] = eTask[r]
            /\ eGen'[r] = eGen[r]
            /\ eDeadline'[r] = eDeadline[r]
            /\ ePeriod'[r] = ePeriod[r]
            /\ r \in pending' <=> r \in pending
  BY DEF InsTime, FoundAt, TypeOK
<1>4. OneEntry'
  BY <1>2, <1>3 DEF OneEntry, Installed
<1>5. EntriesReal'
  BY <1>3 DEF EntriesReal
<1>6. ItemsReal'
  BY <1>1 DEF ItemsReal
<1>7. GenerationsBound'
  BY <1>1, <1>2, <1>3 DEF GenerationsBound
<1>8. GenerationsDiffer'
  BY <1>1, <1>2 DEF GenerationsDiffer
<1>9. OwedIsCurrent'
  <2> SUFFICES ASSUME NEW u \in Tasks \ (Periodic \cup tainted'), owed[u] # 0
               PROVE  \E r \in Slots : eTask'[r] = u /\ eGen'[r] = owed[u]
    BY <1>1 DEF OwedIsCurrent
  <2>1. PICK r \in Slots : eTask[r] = u /\ eGen[r] = owed[u]
    BY <1>2 DEF OwedIsCurrent
  <2>2. r # s
    BY <2>1, <1>3, ConstantsAssumption
  <2> QED
    BY <2>1, <2>2, <1>3
<1> QED
  BY <1>4, <1>5, <1>6, <1>7, <1>8, <1>9

\* DrainItem: one item leaves the ring; if it is called, no other item will be
\* called for the same expiry.
LEMMA DrainStep ==
    ASSUME QueueInv, DrainItem, TypeOK'
    PROVE  /\ OneEntry' /\ EntriesReal' /\ ItemsReal'
           /\ GenerationsBound' /\ GenerationsDiffer' /\ OwedIsCurrent'
<1> USE DEF QueueInv
<1>1. Queued' = Queued \ {tail} /\ tail \in Queued
  BY BetweenShrinks DEF DrainItem, Queued, TypeOK
<1>2. UNCHANGED <<tableVars, now, ring, tainted>>
  BY DEF DrainItem, clockVars
<1>3. OneEntry' /\ EntriesReal'
  BY <1>2 DEF OneEntry, EntriesReal, tableVars
<1>4. ItemsReal'
  BY <1>1, <1>2 DEF ItemsReal
<1>5. GenerationsDiffer'
  BY <1>1, <1>2 DEF GenerationsDiffer
<1>6. CASE GenerationMatches(ring[tail])
  <2> DEFINE t == ring[tail].task
  <2>1. t \in Tasks
    BY <1>1 DEF ItemsReal
  <2>2. owed' = [owed EXCEPT ![t] = 0]
    BY <1>6 DEF DrainItem
  <2>3. PICK r \in Slots : eTask[r] = t /\ eGen[r] = ring[tail].gen
    BY <1>6 DEF GenerationMatches, FoundAt
  <2>4. GenerationsBound'
    <3> SUFFICES ASSUME NEW i \in Queued, i # tail, NEW s \in Slots,
                        eTask[s] = ring[i].task, ring[i].task \notin tainted
                 PROVE  /\ ring[i].gen <= eGen[s]
                        /\ ring[i].gen = eGen[s] =>
                              /\ s \notin pending
                              /\ eDeadline[s] <= now
                              /\ owed'[ring[i].task] = ring[i].gen
                              /\ ePeriod[s] = 0
      BY <1>1, <1>2 DEF GenerationsBound, tableVars
    <3>1. CASE ring[i].task = t
      <4>1. s = r
        BY <3>1, <2>1, <2>3 DEF OneEntry
      <4>2. ring[i] \in Item /\ ring[tail] \in Item
        BY <1>1 DEF TypeOK, Queued, Between
      <4>3. ring[i].gen # ring[tail].gen
        BY <1>1, <3>1, <4>2 DEF GenerationsDiffer, Item
      <4> QED
        BY <2>3, <4>1, <4>3 DEF GenerationsBound
    <3>2. CASE ring[i].task # t
      <4>1. owed'[ring[i].task] = owed[ring[i].task]
        BY <2>2, <3>2 DEF TypeOK, ItemsReal
      <4> QED
        BY <4>1 DEF GenerationsBound
    <3> QED
      BY <3>1, <3>2
  <2>5. OwedIsCurrent'
    BY <1>2, <2>1, <2>2 DEF OwedIsCurrent, TypeOK, tableVars
  <2> QED
    BY <1>3, <1>4, <1>5, <2>4, <2>5
<1>7. CASE ~GenerationMatches(ring[tail])
  <2>1. UNCHANGED owed
    BY <1>7 DEF DrainItem
  <2>2. GenerationsBound'
    BY <1>1, <1>2, <2>1 DEF GenerationsBound, tableVars
  <2>3. OwedIsCurrent'
    BY <1>2, <2>1 DEF OwedIsCurrent, tableVars
  <2> QED
    BY <1>3, <1>4, <1>5, <2>2, <2>3
<1> QED
  BY <1>6, <1>7

\* What EnqueueDeferred does to the items of the ring.
LEMMA EnqueueItems ==
    ASSUME TypeOK, NEW t, NEW g, EnqueueDeferred(t, g)
    PROVE  /\ Queued' \subseteq Queued \cup {head}
           /\ \A i \in Queued : ring'[i] = ring[i]
           /\ \A i \in Queued' :
                 i \notin Queued => i = head /\ ring'[i] = [task |-> t, gen |-> g]
<1>1. CASE Succ(head) = tail
  BY <1>1 DEF EnqueueDeferred, Queued, ringVars
<1>2. CASE Succ(head) # tail
  <2>1. Queued' = Queued \cup {head} /\ head \notin Queued
    BY <1>2, BetweenGrows DEF EnqueueDeferred, Queued, TypeOK
  <2>2. ring' = [ring EXCEPT ![head] = [task |-> t, gen |-> g]]
    BY <1>2 DEF EnqueueDeferred
  <2>3. Queued \subseteq RingIndex
    BY DEF Queued, Between
  <2> QED
    BY <2>1, <2>2, <2>3 DEF TypeOK
<1> QED
  BY <1>1, <1>2

\* ExpireEarliest: the item queued is the only one for this expiry.
LEMMA ExpireStep ==
    ASSUME QueueInv, NEW s \in Slots, ExpireEarliest(s), TypeOK'
    PROVE  /\ OneEntry' /\ EntriesReal' /\ ItemsReal'
           /\ GenerationsBound' /\ GenerationsDiffer' /\ OwedIsCurrent'
<1> USE DEF QueueInv
<1> DEFINE t == eTask[s]
           g == eGen[s]
           new == [task |-> t, gen |-> g]
<1>1. /\ s \in pending /\ t \in Tasks /\ g \in Nat /\ g > 0
      /\ eDeadline[s] <= now
  BY DEF ExpireEarliest, DueRoot, HeapEntriesReal, EntriesReal, TypeOK
<1>2. /\ \A i \in Queued : ring'[i] = ring[i]
      /\ \A i \in Queued' : i \notin Queued => i = head /\ ring'[i] = new
  BY EnqueueItems DEF ExpireEarliest
<1>3. /\ UNCHANGED <<eTask, ePeriod, tainted, now>>
      /\ owed' = [owed EXCEPT ![t] = g]
      /\ \A r \in Slots : r # s =>
            /\ eGen'[r] = eGen[r]
            /\ eDeadline'[r] = eDeadline[r]
            /\ r \in pending' <=> r \in pending
      /\ ePeriod[s] > 0 => eGen'[s] = g + 1
      /\ ~(ePeriod[s] > 0) => eGen'[s] = g /\ s \notin pending' /\ eDeadline' = eDeadline
  BY DEF ExpireEarliest, BumpGeneration, clockVars, TypeOK
<1>4. eGen'[s] >= g /\ eGen'[s] \in Nat
  BY <1>1, <1>3
<1>5. \A i \in Queued : ring[i].task \in Tasks /\ ring[i].gen \in Nat
  BY DEF ItemsReal, Queued, Between, TypeOK, Item
<1>6. ASSUME NEW i \in Queued, ring[i].task = t, t \notin tainted
      PROVE  ring[i].gen < g
  BY <1>1, <1>5, <1>6 DEF GenerationsBound
<1>7. OneEntry'
  BY <1>3 DEF OneEntry
<1>8. EntriesReal'
  BY <1>1, <1>3, <1>4 DEF EntriesReal
<1>9. ItemsReal'
  BY <1>1, <1>2 DEF ItemsReal
<1>10. GenerationsDiffer'
  <2> SUFFICES ASSUME NEW i \in Queued', NEW j \in Queued', ring'[i] = ring'[j],
                      ring'[i].task \notin tainted
               PROVE  i = j
    BY <1>3 DEF GenerationsDiffer
  <2>1. CASE i \in Queued /\ j \in Queued
    BY <2>1, <1>2 DEF GenerationsDiffer
  <2>2. CASE i \notin Queued /\ j \notin Queued
    BY <2>2, <1>2
  <2>3. CASE i \in Queued /\ j \notin Queued
    BY <2>3, <1>1, <1>2, <1>6
  <2>4. CASE i \notin Queued /\ j \in Queued
    BY <2>4, <1>1, <1>2, <1>6
  <2> QED
    BY <2>1, <2>2, <2>3, <2>4
<1>11. GenerationsBound'
  <2> SUFFICES ASSUME NEW i \in Queued', NEW r \in Slots,
                      eTask[r] = ring'[i].task, ring'[i].task \notin tainted
               PROVE  /\ ring'[i].gen <= eGen'[r]
                      /\ ring'[i].gen = eGen'[r] =>
                            /\ r \notin pending'
                            /\ eDeadline'[r] <= now
                            /\ owed'[ring'[i].task] = ring'[i].gen
                            /\ ePeriod[r] = 0
    BY <1>3 DEF GenerationsBound
  <2>1. CASE i \notin Queued
    <3>1. ring'[i] = new
      BY <2>1, <1>2
    <3>2. r = s
      BY <3>1, <1>1 DEF OneEntry
    <3>3. CASE ePeriod[s] > 0
      BY <3>1, <3>2, <3>3, <1>1, <1>3
    <3>4. CASE ~(ePeriod[s] > 0)
      <4>1. ePeriod[s] = 0
        BY <3>4 DEF TypeOK
      <4>2. owed'[t] = g
        BY <1>1, <1>3 DEF TypeOK
      <4> QED
        BY <3>1, <3>2, <3>4, <4>1, <4>2, <1>1, <1>3
    <3> QED
      BY <3>3, <3>4
  <2>2. CASE i \in Queued /\ ring[i].task = t
    <3>1. r = s
      BY <2>2, <1>1, <1>2 DEF OneEntry
    <3> QED
      BY <2>2, <3>1, <1>1, <1>2, <1>4, <1>5, <1>6
  <2>3. CASE i \in Queued /\ ring[i].task # t
    <3>1. r # s /\ ring'[i] = ring[i]
      BY <2>3, <1>2
    <3>2. owed'[ring[i].task] = owed[ring[i].task]
      BY <2>3, <1>3, <1>5 DEF TypeOK
    <3> QED
      BY <2>3, <3>1, <3>2, <1>3 DEF GenerationsBound
  <2> QED
    BY <2>1, <2>2, <2>3
<1>12. OwedIsCurrent'
  <2> SUFFICES ASSUME NEW u \in Tasks \ (Periodic \cup tainted), owed'[u] # 0
               PROVE  \E r \in Slots : eTask[r] = u /\ eGen'[r] = owed'[u]
    BY <1>3 DEF OwedIsCurrent
  <2>1. CASE u = t
    <3>1. ~(ePeriod[s] > 0)
      BY <2>1 DEF EntriesReal
    <3> QED
      BY <2>1, <3>1, <1>1, <1>3 DEF TypeOK
  <2>2. CASE u # t
    <3>1. owed'[u] = owed[u]
      BY <2>2, <1>3 DEF TypeOK
    <3>2. PICK r \in Slots : eTask[r] = u /\ eGen[r] = owed[u]
      BY <3>1 DEF OwedIsCurrent
    <3> QED
      BY <2>2, <3>1, <3>2, <1>3
  <2> QED
    BY <2>1, <2>2
<1> QED
  BY <1>7, <1>8, <1>9, <1>10, <1>11, <1>12

\* Every step keeps the invariant.
LEMMA QueueStep == QueueInv /\ [Next]_vars => QueueInv'
<1> SUFFICES ASSUME QueueInv, [Next]_vars
             PROVE  QueueInv'
  OBVIOUS
<1> USE DEF QueueInv
<1>0. TypeOK' /\ HeapEntriesReal'
  BY TypeStep, HeapStep
<1>1. isrNow' <= now'
  <2>1. now' \in Nat /\ isrNow' \in Nat /\ now \in Nat
    BY <1>0 DEF TypeOK
  <2>2. now' = now \/ now' = now + 1
    <3>1. CASE Tick
      BY <3>1 DEF Tick
    <3>2. CASE ClientCall
      <4>1. CASE InitTimeManager
        BY <4>1 DEF InitTimeManager, clockVars
      <4>2. CASE ShutdownTimeManager
        BY <4>2 DEF ShutdownTimeManager, clockVars
      <4>3. ASSUME NEW t \in Tasks, NEW s \in Slots,
                   InsTime(t, s) \/ RmvTime(t, s) \/ CancelTime(t, s)
            PROVE  now' = now \/ now' = now + 1
        BY <4>3 DEF InsTime, RmvTime, CancelTime, clockVars
      <4>4. ASSUME NEW t \in Tasks, NEW s \in Slots, NEW d \in Delays,
                   PrimeTime(t, d, s)
            PROVE  now' = now \/ now' = now + 1
        BY <4>4 DEF PrimeTime, clockVars
      <4> QED
        BY <3>2, <4>1, <4>2, <4>3, <4>4 DEF ClientCall
    <3>3. CASE MainLoop
      BY <3>3 DEF MainLoop, DrainItem, CallbackReturns, DrainEnds, ClientsDone, TimerISR,
             ExpireEarliest, ExpireDone, clockVars
    <3>4. CASE UNCHANGED vars
      BY <3>4 DEF vars, clockVars
    <3> QED
      BY <3>1, <3>2, <3>3, <3>4 DEF Next
  <2>3. isrNow' \in {isrNow, now, 0}
    <3>1. CASE Tick
      BY <3>1 DEF Tick, loopVars
    <3>2. CASE ClientCall
      <4>1. CASE InitTimeManager
        BY <4>1 DEF InitTimeManager, loopVars
      <4>2. CASE ShutdownTimeManager
        BY <4>2 DEF ShutdownTimeManager, loopVars
      <4>3. ASSUME NEW t \in Tasks, NEW s \in Slots,
                   InsTime(t, s) \/ RmvTime(t, s) \/ CancelTime(t, s)
            PROVE  isrNow' \in {isrNow, now, 0}
        BY <4>3 DEF InsTime, RmvTime, CancelTime, loopVars
      <4>4. ASSUME NEW t \in Tasks, NEW s \in Slots, NEW d \in Delays,
                   PrimeTime(t, d, s)
            PROVE  isrNow' \in {isrNow, now, 0}
        BY <4>4 DEF PrimeTime, loopVars
      <4> QED
        BY <3>2, <4>1, <4>2, <4>3, <4>4 DEF ClientCall
    <3>3. CASE MainLoop
      BY <3>3 DEF MainLoop, DrainItem, CallbackReturns, DrainEnds, ClientsDone, TimerISR,
             ExpireEarliest, ExpireDone, loopVars
    <3>4. CASE UNCHANGED vars
      BY <3>4 DEF vars, loopVars
    <3> QED
      BY <3>1, <3>2, <3>3, <3>4 DEF Next
  <2> QED
    BY <2>1, <2>2, <2>3
<1>2. CASE InitTimeManager
  <2>1. Queued' = {}
    BY <1>2, <1>0, BetweenEmpty DEF InitTimeManager, Queued, TypeOK
  <2>2. /\ \A s \in Slots : eTask'[s] \notin Tasks
        /\ \A t \in Tasks : owed'[t] = 0
    BY <1>2, ConstantsAssumption DEF InitTimeManager
  <2>3. OneEntry' /\ EntriesReal' /\ ItemsReal'
    BY <2>1, <2>2 DEF OneEntry, EntriesReal, ItemsReal
  <2>4. GenerationsBound' /\ GenerationsDiffer' /\ OwedIsCurrent'
    BY <2>1, <2>2 DEF GenerationsBound, GenerationsDiffer, OwedIsCurrent
  <2> QED
    BY <1>0, <1>1, <2>3, <2>4
<1>3. CASE ShutdownTimeManager
  <2>1. Queued' = {}
    BY <1>3, <1>0, BetweenEmpty DEF ShutdownTimeManager, Queued, TypeOK
  <2>2. \A t \in Tasks : owed'[t] = 0
    BY <1>3 DEF ShutdownTimeManager
  <2>3. OneEntry' /\ EntriesReal' /\ ItemsReal'
    BY <1>3, <2>1 DEF ShutdownTimeManager, OneEntry, EntriesReal, ItemsReal
  <2>4. GenerationsBound' /\ GenerationsDiffer' /\ OwedIsCurrent'
    BY <2>1, <2>2 DEF GenerationsBound, GenerationsDiffer, OwedIsCurrent
  <2> QED
    BY <1>0, <1>1, <2>3, <2>4
<1>4. ASSUME NEW t \in Tasks, NEW s \in Slots, InsTime(t, s)
      PROVE  QueueInv'
  BY <1>0, <1>1, <1>4, InsertStep
<1>5. ASSUME NEW t \in Tasks, NEW s \in Slots, RmvTime(t, s)
      PROVE  QueueInv'
  <2>1. /\ eTask[s] = t /\ eTask'[s] = NoTask
        /\ \A r \in Slots : r # s =>
              eTask'[r] = eTask[r] /\ (r \in pending' <=> r \in pending)
        /\ UNCHANGED <<eDeadline, ePeriod, ringVars, tainted, now>>
        /\ BumpGeneration(s) /\ owed' = [owed EXCEPT ![t] = 0]
    BY <1>5 DEF RmvTime, FoundAt, clockVars, TypeOK
  <2>2. t \notin Periodic => ePeriod'[s] = 0
    BY <2>1 DEF EntriesReal
  <2> QED
    BY <1>0, <1>1, <2>1, <2>2, WithdrawStep
<1>6. ASSUME NEW t \in Tasks, NEW s \in Slots, CancelTime(t, s)
      PROVE  QueueInv'
  <2>1. /\ eTask[s] = t
        /\ \A r \in Slots : r # s => (r \in pending' <=> r \in pending)
        /\ UNCHANGED <<eTask, eDeadline, ePeriod, ringVars, tainted, now>>
        /\ BumpGeneration(s) /\ owed' = [owed EXCEPT ![t] = 0]
    BY <1>6 DEF CancelTime, FoundAt, clockVars
  <2>2. t \notin Periodic => ePeriod'[s] = 0
    BY <2>1 DEF EntriesReal
  <2> QED
    BY <1>0, <1>1, <2>1, <2>2, WithdrawStep
<1>7. ASSUME NEW t \in Tasks, NEW d \in Delays, NEW s \in Slots, PrimeTime(t, d, s)
      PROVE  QueueInv'
  <2>1. /\ eTask[s] = t
        /\ \A r \in Slots : r # s =>
              /\ eDeadline'[r] = eDeadline[r]
              /\ ePeriod'[r] = ePeriod[r]
              /\ r \in pending' <=> r \in pending
        /\ UNCHANGED <<eTask, ringVars, tainted, now>>
        /\ BumpGeneration(s) /\ owed' = [owed EXCEPT ![t] = 0]
    BY <1>7 DEF PrimeTime, FoundAt, clockVars, TypeOK
  <2>2. t \notin Periodic => ePeriod'[s] = 0
    BY <1>7 DEF PrimeTime, PeriodOf, TypeOK
  <2> QED
    BY <1>0, <1>1, <2>1, <2>2, WithdrawStep
<1>8. CASE DrainItem
  BY <1>0, <1>1, <1>8, DrainStep
<1>9. ASSUME NEW s \in Slots, ExpireEarliest(s)
      PROVE  QueueInv'
  BY <1>0, <1>1, <1>9, ExpireStep
<1>10. CASE \/ CallbackReturns \/ DrainEnds \/ ClientsDone \/ TimerISR \/ ExpireDone
            \/ Tick \/ UNCHANGED vars
  <2>1. UNCHANGED <<tableVars, ringVars, ghostVars>> /\ now' >= now
    BY <1>10 DEF CallbackReturns, DrainEnds, ClientsDone, TimerISR, ExpireDone,
                 Tick, vars, clockVars, TypeOK
  <2>2. Queued' = Queued
    BY <2>1 DEF Queued, ringVars
  <2>3. OneEntry' /\ EntriesReal' /\ ItemsReal' /\ GenerationsDiffer' /\ OwedIsCurrent'
    BY <2>1, <2>2 DEF OneEntry, EntriesReal, ItemsReal, GenerationsDiffer,
                      OwedIsCurrent, tableVars, ringVars, ghostVars
  <2>4. GenerationsBound'
    BY <2>1, <2>2, <1>0 DEF GenerationsBound, tableVars, ringVars, ghostVars, TypeOK
  <2> QED
    BY <1>0, <1>1, <2>3, <2>4
<1> QED
  BY <1>2, <1>3, <1>4, <1>5, <1>6, <1>7, <1>8, <1>9, <1>10
     DEF Next, ClientCall, MainLoop

\* The invariant holds initially.
LEMMA QueueInit == Init => QueueInv
<1> SUFFICES ASSUME Init PROVE QueueInv
  OBVIOUS
<1>1. TypeOK
  BY InitType
<1>2. Queued = {}
  BY <1>1, BetweenEmpty DEF Init, Queued, TypeOK
<1>3. /\ isrNow <= now /\ pending = {} /\ \A s \in Slots : eTask[s] \notin Tasks
      /\ \A t \in Tasks : owed[t] = 0
  BY ConstantsAssumption DEF Init
<1> QED
  BY <1>1, <1>2, <1>3
     DEF QueueInv, HeapEntriesReal, OneEntry, EntriesReal, ItemsReal,
         GenerationsBound, GenerationsDiffer, OwedIsCurrent

\* The generation check of TimeManager_DrainDeferred, for every client that
\* inserts a task only when it is in neither the table nor the ring (the others
\* are tainted): a call answers an expiry still owed, is never early, and no
\* one-shot task's expiry is skipped.
THEOREM GenerationCheckSafe ==
    Spec => [](QueuedMatchIsOwed /\ QueuedMatchIsDue /\ OneShotNotSkipped)
BY QueueInit, QueueStep, QueueInvImplies, PTL DEF Spec

\* By itself, the part about time: no callback runs before its deadline.
THEOREM NeverEarly == Spec => []QueuedMatchIsDue
BY GenerationCheckSafe, PTL

\* An entry that repeats has no item that would be called.
RepeatingIsSkipped ==
    \A i \in RingIndex, s \in Slots :
        Live(i) /\ eTask[s] = ring[i].task => ePeriod[s] = 0

\* The other side of the generation check: Core_ExpireDue moves a repeating
\* entry to the next generation after it queued the callback, so no callback of
\* a repeating task is ever called, whatever the sizes and the timing.
THEOREM RepeatingNeverCalled == Spec => []RepeatingIsSkipped
<1>1. QueueInv => RepeatingIsSkipped
  <2> SUFFICES ASSUME QueueInv, NEW i \in RingIndex, NEW s \in Slots,
                      Live(i), eTask[s] = ring[i].task
               PROVE  ePeriod[s] = 0
    BY DEF RepeatingIsSkipped
  <2>1. i \in Queued /\ ring[i].task \in Tasks \ tainted
    BY DEF QueueInv, Live, ItemsReal
  <2>2. PICK r \in Slots : FoundAt(r, ring[i].task) /\ eGen[r] = ring[i].gen
    BY DEF Live, GenerationMatches
  <2>3. r = s
    BY <2>1, <2>2 DEF FoundAt, OneEntry, QueueInv
  <2> QED
    BY <2>1, <2>2, <2>3 DEF GenerationsBound, QueueInv
<1> QED
  BY <1>1, QueueInit, QueueStep, PTL DEF Spec

-----------------------------------------------------------------------------
(* The order of the callbacks.                                             *)

\* The item at i carries the current generation of entry s.
Current(i, s) ==
    /\ i \in Queued
    /\ ring[i].task \notin tainted
    /\ eTask[s] = ring[i].task
    /\ eGen[s] = ring[i].gen

\* What is in the ring was due no later than what is in the heap.
RingBeforeHeap ==
    \A i \in RingIndex, s \in Slots, r \in pending :
        Current(i, s) => eDeadline[s] <= eDeadline[r]

RingInOrder ==
    \A i, j \in RingIndex, r, s \in Slots :
        Current(i, r) /\ Current(j, s) /\ Ahead(i) < Ahead(j) =>
            eDeadline[r] <= eDeadline[s]

OrderInv == QueueInv /\ RingBeforeHeap /\ RingInOrder

\* A new item is behind every other.
LEMMA HeadIsLast ==
    ASSUME TypeOK, NEW i \in Queued
    PROVE  Ahead(i) < Ahead(head)
BY ConstantsAssumption DEF TypeOK, Queued, Between, Ahead, RingIndex

\* Taking an item away leaves the others in their order.
LEMMA AheadShrinks ==
    ASSUME TypeOK, tail # head, tail' = Succ(tail), NEW i \in Queued, i # tail
    PROVE  Ahead(i)' = Ahead(i) - 1 /\ Ahead(i) \in Nat
BY ConstantsAssumption DEF TypeOK, Queued, Between, Ahead, RingIndex, Succ

\* A step after which every current item was current already, in the same order
\* and with the same deadline, and every pending deadline is an old one or not
\* in the past, keeps the order.
LEMMA NoNewItemStep ==
    ASSUME OrderInv, QueueInv',
           \A i \in RingIndex, s \in Slots : Current(i, s)' =>
               Current(i, s) /\ eDeadline'[s] = eDeadline[s],
           \A i, j \in Queued' : Ahead(i)' < Ahead(j)' => Ahead(i) < Ahead(j),
           \A r \in pending' : \/ r \in pending /\ eDeadline'[r] = eDeadline[r]
                               \/ eDeadline'[r] >= now
    PROVE  RingBeforeHeap' /\ RingInOrder'
<1>1. ASSUME NEW i \in RingIndex, NEW s \in Slots, Current(i, s)
      PROVE  eDeadline[s] <= now
  BY <1>1 DEF OrderInv, QueueInv, GenerationsBound, Current
<1>2. RingBeforeHeap'
  <2> SUFFICES ASSUME NEW i \in RingIndex, NEW s \in Slots, NEW r \in pending',
                      Current(i, s)'
               PROVE  eDeadline'[s] <= eDeadline'[r]
    BY DEF RingBeforeHeap
  <2>1. eDeadline[s] <= now /\ eDeadline[s] \in Nat /\ now \in Nat
    BY <1>1 DEF OrderInv, QueueInv, TypeOK
  <2>2. eDeadline'[r] \in Nat
    BY DEF QueueInv, TypeOK
  <2> QED
    BY <2>1, <2>2 DEF OrderInv, RingBeforeHeap
<1>3. RingInOrder'
  <2> SUFFICES ASSUME NEW i \in RingIndex, NEW j \in RingIndex,
                      NEW r \in Slots, NEW s \in Slots,
                      Current(i, r)', Current(j, s)', Ahead(i)' < Ahead(j)'
               PROVE  eDeadline'[r] <= eDeadline'[s]
    BY DEF RingInOrder
  <2>1. i \in Queued' /\ j \in Queued'
    BY DEF Current
  <2> QED
    BY <2>1 DEF OrderInv, RingInOrder
<1> QED
  BY <1>2, <1>3

\* ExpireEarliest: the new item is the last of the ring and the earliest of the
\* heap.
LEMMA ExpireOrder ==
    ASSUME OrderInv, QueueInv', NEW s \in Slots, ExpireEarliest(s)
    PROVE  RingBeforeHeap' /\ RingInOrder'
<1> USE DEF OrderInv, QueueInv
<1> DEFINE t == eTask[s]
<1>1. /\ s \in pending /\ t \in Tasks
      /\ \A r \in pending : eDeadline[s] <= eDeadline[r]
      /\ eDeadline[s] <= isrNow
  BY DEF ExpireEarliest, DueRoot, Earliest, HeapEntriesReal
<1>2. /\ \A i \in Queued : ring'[i] = ring[i]
      /\ \A i \in Queued' : i \notin Queued =>
            i = head /\ ring'[i] = [task |-> t, gen |-> eGen[s]]
  BY EnqueueItems DEF ExpireEarliest
<1>3. /\ UNCHANGED <<eTask, tainted, tail>>
      /\ \A r \in Slots : r # s => eGen'[r] = eGen[r] /\ eDeadline'[r] = eDeadline[r]
      /\ eGen'[s] \in {eGen[s], eGen[s] + 1}
      /\ pending' \subseteq pending
  BY DEF ExpireEarliest, BumpGeneration, EnqueueDeferred, ringVars, TypeOK
<1>4. eDeadline'[s] >= eDeadline[s]
  <2>1. NextPeriod(s) >= eDeadline[s]
    BY <1>1, NextPeriodLater DEF TypeOK
  <2> QED
    BY <2>1 DEF ExpireEarliest, TypeOK
<1>5. ASSUME NEW i \in RingIndex, NEW r \in Slots, Current(i, r)', i \in Queued
      PROVE  Current(i, r) /\ r # s
  <2>1. ring'[i] = ring[i] /\ ring[i].task \in Tasks \ tainted /\ eTask[r] = ring[i].task
    BY <1>2, <1>3, <1>5 DEF Current, ItemsReal
  <2>2. CASE r = s
    <3>0. ring[i].gen \in Nat /\ eGen[s] \in Nat
      BY DEF TypeOK, Item
    <3>1. ring[i].gen < eGen[s]
      <4>1. ring[i].gen <= eGen[s] /\ ring[i].gen # eGen[s]
        BY <1>1, <1>5, <2>1, <2>2 DEF GenerationsBound
      <4> QED
        BY <3>0, <4>1
    <3> QED
      BY <1>3, <1>5, <2>1, <2>2, <3>0, <3>1 DEF Current
  <2> QED
    BY <1>3, <1>5, <2>1, <2>2 DEF Current
<1>6. ASSUME NEW i \in RingIndex, NEW r \in Slots, Current(i, r)', i \notin Queued
      PROVE  i = head /\ r = s /\ eDeadline'[s] = eDeadline[s]
  <2>1. i = head /\ ring'[i] = [task |-> t, gen |-> eGen[s]]
    BY <1>2, <1>6 DEF Current
  <2>2. r = s /\ eGen'[s] = eGen[s]
    BY <1>1, <1>3, <1>6, <2>1 DEF Current, OneEntry
  <2>3. eDeadline' = eDeadline
    BY <2>2 DEF ExpireEarliest, BumpGeneration, TypeOK
  <2> QED
    BY <2>1, <2>2, <2>3
<1>7. RingBeforeHeap'
  <2> SUFFICES ASSUME NEW i \in RingIndex, NEW r \in Slots, NEW q \in pending',
                      Current(i, r)'
               PROVE  eDeadline'[r] <= eDeadline'[q]
    BY DEF RingBeforeHeap
  <2>1. q \in pending /\ q \in Slots /\ eDeadline[q] <= eDeadline'[q]
    BY <1>3, <1>4 DEF TypeOK
  <2>2. CASE i \in Queued
    <3>1. eDeadline'[r] = eDeadline[r] /\ eDeadline[r] <= eDeadline[q]
      BY <1>3, <1>5, <2>1, <2>2 DEF RingBeforeHeap
    <3> QED
      BY <2>1, <3>1 DEF TypeOK
  <2>3. CASE i \notin Queued
    <3>1. eDeadline'[r] = eDeadline[s] /\ eDeadline[s] <= eDeadline[q]
      BY <1>1, <1>6, <2>1, <2>3
    <3> QED
      BY <2>1, <3>1 DEF TypeOK
  <2> QED
    BY <2>2, <2>3
<1>8. RingInOrder'
  <2> SUFFICES ASSUME NEW i \in RingIndex, NEW j \in RingIndex,
                      NEW q \in Slots, NEW r \in Slots,
                      Current(i, q)', Current(j, r)', Ahead(i)' < Ahead(j)'
               PROVE  eDeadline'[q] <= eDeadline'[r]
    BY DEF RingInOrder
  <2>1. Ahead(i)' = Ahead(i) /\ Ahead(j)' = Ahead(j)
    BY <1>3 DEF Ahead
  <2>2. CASE i \in Queued /\ j \in Queued
    BY <1>3, <1>5, <2>1, <2>2 DEF RingInOrder
  <2>3. CASE i \in Queued /\ j \notin Queued
    <3>1. eDeadline'[r] = eDeadline[s] /\ eDeadline'[q] = eDeadline[q]
      BY <1>3, <1>5, <1>6, <2>3
    <3>2. eDeadline[q] <= eDeadline[s]
      BY <1>1, <1>5, <2>3 DEF RingBeforeHeap
    <3> QED
      BY <3>1, <3>2
  <2>4. CASE i \notin Queued /\ j \in Queued
    <3>1. i = head /\ Ahead(j) < Ahead(head)
      BY <1>6, <2>4, HeadIsLast
    <3>2. Ahead(j) \in Int /\ Ahead(head) \in Int
      BY ConstantsAssumption DEF Ahead, TypeOK, RingIndex
    <3> QED
      BY <2>1, <3>1, <3>2
  <2>5. CASE i \notin Queued /\ j \notin Queued
    BY <1>6, <2>5 DEF TypeOK
  <2> QED
    BY <2>2, <2>3, <2>4, <2>5
<1> QED
  BY <1>7, <1>8

\* Every step keeps the order.
LEMMA OrderStep == OrderInv /\ [Next]_vars => OrderInv'
<1> SUFFICES ASSUME OrderInv, [Next]_vars
             PROVE  RingBeforeHeap' /\ RingInOrder'
  BY QueueStep DEF OrderInv
<1>0. QueueInv' /\ TypeOK /\ TypeOK'
  BY QueueStep DEF OrderInv, QueueInv
<1>1. CASE InitTimeManager \/ ShutdownTimeManager
  <2>1. Queued' = {}
    BY <1>0, <1>1, BetweenEmpty DEF InitTimeManager, ShutdownTimeManager, Queued, TypeOK
  <2> QED
    BY <2>1 DEF RingBeforeHeap, RingInOrder, Current
<1>2. ASSUME NEW t \in Tasks, NEW s \in Slots, InsTime(t, s)
      PROVE  RingBeforeHeap' /\ RingInOrder'
  <2>1. /\ UNCHANGED ringVars /\ tainted \subseteq tainted'
        /\ t \in tainted' \/ \A i \in Queued : ring[i].task # t
        /\ eTask'[s] = t
        /\ \A r \in Slots : r # s =>
              eTask'[r] = eTask[r] /\ eGen'[r] = eGen[r] /\ eDeadline'[r] = eDeadline[r]
        /\ \A r \in pending' : r \in pending /\ r # s
    BY <1>0, <1>2 DEF InsTime, TypeOK
  <2>2. Queued' = Queued /\ \A i : Ahead(i)' = Ahead(i)
    BY <2>1 DEF Queued, Ahead, ringVars
  <2>3. ASSUME NEW i \in RingIndex, NEW r \in Slots, Current(i, r)'
        PROVE  Current(i, r) /\ eDeadline'[r] = eDeadline[r]
    BY <2>1, <2>2, <2>3 DEF Current, ringVars
  <2> QED
    BY <1>0, <2>1, <2>2, <2>3, NoNewItemStep DEF TypeOK
<1>3. ASSUME NEW s \in Slots, BumpGeneration(s), UNCHANGED <<ringVars, tainted, now>>,
             eTask'[s] \in {eTask[s], NoTask},
             \A r \in Slots : r # s =>
                eTask'[r] = eTask[r] /\ eDeadline'[r] = eDeadline[r],
             \A r \in pending' : \/ r \in pending /\ eDeadline'[r] = eDeadline[r]
                                 \/ eDeadline'[r] >= now
      PROVE  RingBeforeHeap' /\ RingInOrder'
  <2>1. Queued' = Queued /\ \A i : Ahead(i)' = Ahead(i)
    BY <1>3 DEF Queued, Ahead, ringVars
  <2>2. /\ eGen'[s] = eGen[s] + 1
        /\ \A r \in Slots : r # s => eGen'[r] = eGen[r]
    BY <1>0, <1>3 DEF BumpGeneration, TypeOK
  <2>3. ASSUME NEW i \in RingIndex, NEW r \in Slots, Current(i, r)'
        PROVE  Current(i, r) /\ eDeadline'[r] = eDeadline[r]
    <3>1. i \in Queued /\ ring[i].task \in Tasks \ tainted /\ ring' = ring
      BY <1>3, <2>1, <2>3 DEF Current, OrderInv, QueueInv, ItemsReal, ringVars
    <3>2. CASE r = s
      <4>1. eTask[s] = ring[i].task /\ eGen'[s] = ring[i].gen
        BY <1>3, <2>3, <3>1, <3>2, ConstantsAssumption DEF Current
      <4>2. ring[i].gen <= eGen[s]
        BY <3>1, <4>1 DEF OrderInv, QueueInv, GenerationsBound
      <4> QED
        BY <1>0, <2>2, <4>1, <4>2 DEF TypeOK
    <3>3. CASE r # s
      BY <1>3, <2>1, <2>2, <2>3, <3>1, <3>3 DEF Current
    <3> QED
      BY <3>2, <3>3
  <2> QED
    BY <1>0, <1>3, <2>1, <2>3, NoNewItemStep
<1>4. ASSUME NEW t \in Tasks, NEW s \in Slots, RmvTime(t, s) \/ CancelTime(t, s)
      PROVE  RingBeforeHeap' /\ RingInOrder'
  <2>1. /\ BumpGeneration(s) /\ UNCHANGED <<ringVars, tainted, now, eDeadline>>
        /\ pending' \subseteq pending
    BY <1>4 DEF RmvTime, CancelTime, clockVars
  <2>2. /\ eTask'[s] \in {eTask[s], NoTask}
        /\ \A r \in Slots : r # s => eTask'[r] = eTask[r]
    BY <1>0, <1>4 DEF RmvTime, CancelTime, TypeOK
  <2> QED
    BY <1>3, <2>1, <2>2
<1>5. ASSUME NEW t \in Tasks, NEW d \in Delays, NEW s \in Slots, PrimeTime(t, d, s)
      PROVE  RingBeforeHeap' /\ RingInOrder'
  <2>1. /\ BumpGeneration(s) /\ UNCHANGED <<ringVars, tainted, now, eTask>>
        /\ pending' = pending \cup {s}
    BY <1>5 DEF PrimeTime, clockVars
  <2>2. /\ eDeadline'[s] >= now
        /\ \A r \in Slots : r # s => eDeadline'[r] = eDeadline[r]
    BY <1>0, <1>5, ConstantsAssumption DEF PrimeTime, TypeOK
  <2>3. \A r \in pending' : \/ r \in pending /\ eDeadline'[r] = eDeadline[r]
                            \/ eDeadline'[r] >= now
    BY <1>0, <2>1, <2>2 DEF TypeOK
  <2> QED
    BY <1>3, <2>1, <2>2, <2>3
<1>6. CASE DrainItem
  <2>1. /\ tail # head /\ tail' = Succ(tail)
        /\ UNCHANGED <<ring, tainted, eTask, eGen, eDeadline, pending>>
    BY <1>6 DEF DrainItem, tableVars
  <2>2. Queued' = Queued \ {tail}
    BY <1>0, <1>6, BetweenShrinks DEF DrainItem, Queued, TypeOK
  <2>3. \A i \in Queued' : Ahead(i)' = Ahead(i) - 1 /\ Ahead(i) \in Nat
    BY <1>0, <2>1, <2>2, AheadShrinks
  <2>4. \A i, j \in Queued' : Ahead(i)' < Ahead(j)' => Ahead(i) < Ahead(j)
    BY <2>3
  <2>5. ASSUME NEW i \in RingIndex, NEW r \in Slots, Current(i, r)'
        PROVE  Current(i, r) /\ eDeadline'[r] = eDeadline[r]
    BY <2>1, <2>2, <2>5 DEF Current
  <2> QED
    BY <1>0, <2>1, <2>4, <2>5, NoNewItemStep
<1>7. ASSUME NEW s \in Slots, ExpireEarliest(s)
      PROVE  RingBeforeHeap' /\ RingInOrder'
  BY <1>0, <1>7, ExpireOrder
<1>8. CASE \/ CallbackReturns \/ DrainEnds \/ ClientsDone \/ TimerISR \/ ExpireDone
           \/ Tick \/ UNCHANGED vars
  <2>1. UNCHANGED <<ring, head, tail, tainted, eTask, eGen, eDeadline, pending>>
    BY <1>8 DEF CallbackReturns, DrainEnds, ClientsDone, TimerISR, ExpireDone, Tick,
                vars, tableVars, ringVars, ghostVars
  <2>2. Queued' = Queued /\ \A i : Ahead(i)' = Ahead(i)
    BY <2>1 DEF Queued, Ahead
  <2>3. \A i, r : Current(i, r)' => Current(i, r)
    BY <2>1, <2>2 DEF Current
  <2> QED
    BY <1>0, <2>1, <2>2, <2>3, NoNewItemStep
<1> QED
  BY <1>1, <1>2, <1>4, <1>5, <1>6, <1>7, <1>8 DEF Next, ClientCall, MainLoop

\* One-shot callbacks run in the order of their deadlines, whatever happens
\* between the ISR passes that queue them and the drains that call them.
THEOREM CallsInOrder == Spec => []CalledInDeadlineOrder
<1>1. Init => OrderInv
  <2> SUFFICES ASSUME Init PROVE OrderInv
    OBVIOUS
  <2>1. QueueInv
    BY QueueInit
  <2>2. Queued = {}
    BY <2>1, BetweenEmpty DEF Init, Queued, QueueInv, TypeOK
  <2> QED
    BY <2>1, <2>2 DEF OrderInv, RingBeforeHeap, RingInOrder, Current
<1>2. OrderInv => CalledInDeadlineOrder
  <2> SUFFICES ASSUME OrderInv, NEW i \in RingIndex, NEW j \in RingIndex,
                      NEW r \in Slots, NEW s \in Slots,
                      Live(i), eTask[r] = ring[i].task,
                      Live(j), eTask[s] = ring[j].task,
                      Ahead(i) < Ahead(j)
               PROVE  eDeadline[r] <= eDeadline[s]
    BY DEF CalledInDeadlineOrder
  <2>1. ASSUME NEW k \in RingIndex, Live(k), NEW q \in Slots, eTask[q] = ring[k].task
        PROVE  Current(k, q)
    BY <2>1 DEF Live, GenerationMatches, FoundAt, Current, OrderInv, QueueInv,
                OneEntry, ItemsReal
  <2> QED
    BY <2>1 DEF OrderInv, RingInOrder
<1> QED
  BY <1>1, <1>2, OrderStep, PTL DEF Spec

-----------------------------------------------------------------------------
(***************************************************************************)
(* TimeManager implements TimerService: every step of the table, the heap, *)
(* the ring and the main loop is a step of the service the owners of       *)
(* one-shot tasks rely on, or leaves it alone.                             *)
(***************************************************************************)

(* The invariant: what TimeManagerProofs knows of the table and the ring,  *)
(* no tainted task, and that nothing expires or is queued while the Time   *)
(* Manager is shut down.                                                   *)

Off == ~initialized => ~armed /\ pc # "expire" /\ head = tail
ServiceInv ==
    /\ QueueInv
    /\ tainted = {}
    /\ Off
    /\ running # NoTask => pc = "callback"

LEMMA OffStep == TypeOK /\ Off /\ [Next]_vars => Off'
<1> SUFFICES ASSUME TypeOK, Off, [Next]_vars PROVE Off'
  OBVIOUS
<1>1. CASE initialized'
  BY <1>1 DEF Off
<1>2. CASE ShutdownTimeManager
  BY <1>2 DEF Off, ShutdownTimeManager, ProgramNextTimerInterrupt, ClientRuns, loopVars
<1>3. CASE initialized' = initialized /\ ~initialized
  <2>1. ~armed /\ pc # "expire" /\ head = tail
    BY <1>3 DEF Off
  <2>2. CASE ClientCall
    BY <1>3, <2>2 DEF ClientCall, InitTimeManager, ShutdownTimeManager, InsTime, RmvTime,
       CancelTime, PrimeTime
  <2>3. CASE DrainItem \/ ExpireDone \/ \E s \in Slots : ExpireEarliest(s)
    BY <2>1, <2>3 DEF DrainItem, ExpireDone, ExpireEarliest
  <2>4. CASE CallbackReturns \/ DrainEnds \/ ClientsDone
    BY <2>1, <2>4 DEF Off, CallbackReturns, DrainEnds, ClientsDone, tableVars, timerVars, ringVars
  <2>5. CASE TimerISR
    BY <2>1, <2>5 DEF Off, TimerISR, NextRound, tableVars, ringVars
  <2>6. CASE Tick \/ UNCHANGED vars
    BY <2>1, <2>6 DEF Off, Tick, vars, tableVars, timerVars, ringVars, loopVars
  <2> QED
    BY <2>2, <2>3, <2>4, <2>5, <2>6 DEF Next, MainLoop
<1>4. initialized' = initialized \/ initialized' \/ ShutdownTimeManager
  BY DEF Next, ClientCall, InitTimeManager, InsTime, RmvTime, CancelTime, PrimeTime, MainLoop,
     DrainItem, CallbackReturns, DrainEnds, ClientsDone, TimerISR, ExpireDone, ExpireEarliest,
     Tick, vars, tableVars
<1> QED
  BY <1>1, <1>2, <1>3, <1>4

LEMMA RunningStep ==
    TypeOK /\ (running # NoTask => pc = "callback") /\ [Next]_vars
       => (running # NoTask => pc = "callback")'
<1> SUFFICES ASSUME running # NoTask => pc = "callback", [Next]_vars
             PROVE  (running # NoTask => pc = "callback")'
  OBVIOUS
<1>1. CASE ClientCall
  <2>1. UNCHANGED loopVars
    BY <1>1 DEF ClientCall, InitTimeManager, ShutdownTimeManager, InsTime, RmvTime, CancelTime,
       PrimeTime
  <2> QED
    BY <2>1 DEF loopVars
<1>2. CASE DrainItem
  <2>1. running' # NoTask => pc' = "callback" \/ UNCHANGED <<pc, running>>
    BY <1>2 DEF DrainItem
  <2> QED
    BY <2>1
<1>3. CASE CallbackReturns \/ DrainEnds \/ ClientsDone \/ TimerISR \/ ExpireDone
  BY <1>3 DEF CallbackReturns, DrainEnds, ClientsDone, TimerISR, ExpireDone, NextRound
<1>4. CASE (\E s \in Slots : ExpireEarliest(s)) \/ Tick \/ UNCHANGED vars
  BY <1>4 DEF ExpireEarliest, Tick, vars, loopVars
<1> QED
  BY <1>1, <1>2, <1>3, <1>4 DEF Next, MainLoop

LEMMA ServiceInvariant == DisciplinedSpec => []ServiceInv
<1>1. Init => ServiceInv
  BY QueueInit DEF ServiceInv, Off, Init
<1>2. ServiceInv /\ [Next /\ tainted' = {}]_vars => ServiceInv'
  <2> SUFFICES ASSUME ServiceInv, [Next /\ tainted' = {}]_vars PROVE ServiceInv'
    OBVIOUS
  <2>1. [Next]_vars /\ tainted' = {}
    BY DEF ServiceInv, vars, ghostVars
  <2> QED
    BY <2>1, QueueStep, OffStep, RunningStep DEF ServiceInv, QueueInv
<1> QED
  BY <1>1, <1>2, PTL DEF DisciplinedSpec

-----------------------------------------------------------------------------
(* What the owner of a task sees, before and after a step.                 *)

SState == [t \in OneShots |-> StateOf(t)]
SDue == [t \in OneShots |-> DueOf(t)]
SRunning == IF running \in OneShots THEN running ELSE NoTask

Tracked(st, d, busy, owes, deadline) ==
    /\ st = IF busy THEN "armed" ELSE IF owes THEN "owed" ELSE "idle"
    /\ d = IF busy \/ owes THEN deadline ELSE 0

\* The one entry of a task is the one its state is read from.
LEMMA TheEntry ==
    ASSUME NEW table, NEW t, NEW s \in Slots, table[s] = t,
           \A r \in Slots : table[r] = t => r = s
    PROVE  (CHOOSE r \in Slots : table[r] = t) = s
OBVIOUS

LEMMA StateBefore ==
    ASSUME ServiceInv, initialized,
           NEW t \in OneShots, NEW s \in Slots, eTask[s] = t
    PROVE  Tracked(SState[t], SDue[t], s \in pending, owed[t] # 0, eDeadline[s])
<1>1. \A r \in Slots : eTask[r] = t => r = s
  BY DEF ServiceInv, QueueInv, OneEntry, OneShots
<1>2. (CHOOSE r \in Slots : eTask[r] = t) = s
  BY <1>1, TheEntry
<1>3. \E r \in Slots : eTask[r] = t
  OBVIOUS
<1> QED
  BY <1>2, <1>3 DEF SState, SDue, Tracked, StateOf, DueOf, SlotOf, Installed

LEMMA StateAfter ==
    ASSUME ServiceInv', initialized',
           NEW t \in OneShots, NEW s \in Slots, eTask'[s] = t
    PROVE  Tracked(SState'[t], SDue'[t], s \in pending', owed'[t] # 0, eDeadline'[s])
<1>1. \A r \in Slots : eTask'[r] = t => r = s
  BY DEF ServiceInv, QueueInv, OneEntry, OneShots
<1>2. (CHOOSE r \in Slots : eTask'[r] = t) = s
  BY <1>1, TheEntry
<1>3. \E r \in Slots : eTask'[r] = t
  OBVIOUS
<1> QED
  BY <1>2, <1>3 DEF SState, SDue, Tracked, StateOf, DueOf, SlotOf, Installed

LEMMA AbsentBefore ==
    ASSUME NEW t \in OneShots, ~initialized \/ \A s \in Slots : eTask[s] # t
    PROVE  SState[t] = "absent" /\ SDue[t] = 0
BY DEF SState, SDue, StateOf, DueOf, SlotOf, Installed

LEMMA AbsentAfter ==
    ASSUME NEW t \in OneShots, ~initialized' \/ \A s \in Slots : eTask'[s] # t
    PROVE  SState'[t] = "absent" /\ SDue'[t] = 0
BY DEF SState, SDue, StateOf, DueOf, SlotOf, Installed

LEMMA PresentBefore ==
    ASSUME ServiceInv, initialized,
           NEW t \in OneShots, NEW s \in Slots, eTask[s] = t
    PROVE  SState[t] # "absent"
BY StateBefore DEF Tracked

\* A step that leaves alone what belongs to a task leaves its state alone.
LEMMA StateSame ==
    ASSUME ServiceInv, ServiceInv', NEW t \in OneShots, initialized' = initialized,
           \A s \in Slots : eTask'[s] = t <=> eTask[s] = t,
           owed'[t] = owed[t],
           \A s \in Slots : eTask[s] = t =>
              (s \in pending' <=> s \in pending) /\ eDeadline'[s] = eDeadline[s]
    PROVE  SState'[t] = SState[t] /\ SDue'[t] = SDue[t]
<1>1. CASE initialized /\ \E s \in Slots : eTask[s] = t
  <2>1. PICK s \in Slots : eTask[s] = t
    BY <1>1
  <2> QED
    BY <1>1, <2>1, StateBefore, StateAfter DEF Tracked
<1>2. CASE ~initialized \/ \A s \in Slots : eTask[s] # t
  BY <1>2, AbsentBefore, AbsentAfter
<1> QED
  BY <1>1, <1>2

\* The call of a client on task t, and the expiry of t, touch one entry: the
\* other tasks keep their state.
LEMMA OthersSame ==
    ASSUME ServiceInv, ServiceInv', initialized' = initialized,
           NEW t \in Tasks, NEW s \in Slots,
           eTask[s] \in {t, NoTask}, eTask'[s] \in {t, NoTask},
           \A r \in Slots \ {s} :
              /\ eTask'[r] = eTask[r] /\ eDeadline'[r] = eDeadline[r]
              /\ r \in pending' <=> r \in pending,
           \A u \in Tasks \ {t} : owed'[u] = owed[u]
    PROVE  /\ \A u \in OneShots \ {t} : SState'[u] = SState[u] /\ SDue'[u] = SDue[u]
           /\ t \notin OneShots => UNCHANGED <<SState, SDue>>
           /\ t \in OneShots =>
                 /\ SState' = [SState EXCEPT ![t] = SState'[t]]
                 /\ SDue' = [SDue EXCEPT ![t] = SDue'[t]]
<1>1. ASSUME NEW u \in OneShots \ {t}
      PROVE  SState'[u] = SState[u] /\ SDue'[u] = SDue[u]
  <2>1. u \in Tasks /\ u # NoTask
    BY ConstantsAssumption DEF OneShots
  <2>2. \A r \in Slots : eTask'[r] = u <=> eTask[r] = u
    BY <2>1
  <2>3. \A r \in Slots : eTask[r] = u =>
            (r \in pending' <=> r \in pending) /\ eDeadline'[r] = eDeadline[r]
    BY <2>1
  <2> QED
    BY <2>1, <2>2, <2>3, StateSame
<1>2. /\ SState = [u \in OneShots |-> SState[u]] /\ SState' = [u \in OneShots |-> SState'[u]]
      /\ SDue = [u \in OneShots |-> SDue[u]] /\ SDue' = [u \in OneShots |-> SDue'[u]]
  BY DEF SState, SDue
<1>3. ASSUME t \notin OneShots PROVE UNCHANGED <<SState, SDue>>
  BY <1>1, <1>2, <1>3
<1>4. ASSUME t \in OneShots
      PROVE  /\ SState' = [SState EXCEPT ![t] = SState'[t]]
             /\ SDue' = [SDue EXCEPT ![t] = SDue'[t]]
  BY <1>1, <1>2
<1> QED
  BY <1>1, <1>3, <1>4

-----------------------------------------------------------------------------
(* Every step is a step of the service or leaves it alone.                 *)

Refines == Service!Next \/ UNCHANGED <<now, SState, SDue, SRunning>>

\* The calls of a client, one by one.
LEMMA InsertRefines ==
    ASSUME ServiceInv, ServiceInv', tainted' = {},
           NEW t \in Tasks, NEW s \in Slots, InsTime(t, s)
    PROVE  Refines
<1>1. /\ initialized /\ initialized' /\ UNCHANGED <<now, running, owed>>
      /\ eTask[s] = NoTask
      /\ eTask' = [eTask EXCEPT ![s] = t]
      /\ eDeadline' = [eDeadline EXCEPT ![s] = 0]
      /\ pending' = pending \ {s}
  BY DEF InsTime, FoundAt, clockVars, loopVars
<1>2. \A r \in Slots : eTask[r] # t
  BY DEF InsTime, Installed
<1>3. TypeOK
  BY DEF ServiceInv, QueueInv
<1>4. /\ eTask'[s] = t
      /\ \A r \in Slots \ {s} : eTask'[r] = eTask[r] /\ eDeadline'[r] = eDeadline[r]
  BY <1>1, <1>3 DEF TypeOK
<1>5. /\ t \notin OneShots => UNCHANGED <<SState, SDue>>
      /\ t \in OneShots =>
            /\ SState' = [SState EXCEPT ![t] = SState'[t]]
            /\ SDue' = [SDue EXCEPT ![t] = SDue'[t]]
  BY <1>1, <1>4, OthersSame
<1>6. UNCHANGED SRunning
  BY <1>1 DEF SRunning
<1>7. CASE t \in OneShots
  <2>1. owed[t] = 0
    BY <1>2, <1>7 DEF ServiceInv, QueueInv, OwedIsCurrent, OneShots
  <2>2. SState[t] = "absent" /\ SDue[t] = 0
    BY <1>2, <1>7, AbsentBefore
  <2>3. Tracked(SState'[t], SDue'[t], s \in pending', owed'[t] # 0, eDeadline'[s])
    BY <1>1, <1>4, <1>7, StateAfter
  <2>4. SState'[t] = "idle" /\ SDue'[t] = 0
    BY <1>1, <2>1, <2>3 DEF Tracked
  <2>5. SDue' = SDue
    BY <1>5, <1>7, <2>2, <2>4 DEF SDue
  <2>6. Service!Insert(t)
    BY <1>1, <1>5, <1>6, <1>7, <2>2, <2>4, <2>5 DEF Service!Insert, SState, SDue, SRunning
  <2> QED
    BY <1>7, <2>6 DEF Refines, Service!Next
<1> QED
  BY <1>1, <1>5, <1>6, <1>7 DEF Refines

\* RmvTime and CancelTime: what was owed is withdrawn.
LEMMA WithdrawRefines ==
    ASSUME ServiceInv, ServiceInv',
           NEW t \in Tasks, NEW s \in Slots, RmvTime(t, s) \/ CancelTime(t, s)
    PROVE  Refines
<1>1. /\ initialized /\ initialized' /\ UNCHANGED <<now, running, eDeadline>>
      /\ eTask[s] = t
      /\ eTask' \in {eTask, [eTask EXCEPT ![s] = NoTask]}
      /\ pending' = pending \ {s}
      /\ owed' = [owed EXCEPT ![t] = 0]
  BY DEF RmvTime, CancelTime, FoundAt, clockVars, loopVars
<1>3. TypeOK /\ \A r \in Slots : eTask[r] = t /\ t \in OneShots => r = s
  BY <1>1 DEF ServiceInv, QueueInv, OneEntry, OneShots
<1>4. /\ eTask'[s] \in {t, NoTask}
      /\ \A r \in Slots \ {s} : eTask'[r] = eTask[r] /\ eDeadline'[r] = eDeadline[r]
      /\ owed'[t] = 0 /\ \A u \in Tasks \ {t} : owed'[u] = owed[u]
  BY <1>1, <1>3 DEF TypeOK
<1>5. /\ t \notin OneShots => UNCHANGED <<SState, SDue>>
      /\ t \in OneShots =>
            /\ SState' = [SState EXCEPT ![t] = SState'[t]]
            /\ SDue' = [SDue EXCEPT ![t] = SDue'[t]]
  BY <1>1, <1>4, OthersSame
<1>6. UNCHANGED SRunning
  BY <1>1 DEF SRunning
<1>7. CASE t \in OneShots
  <2>1. SState[t] # "absent"
    BY <1>1, <1>7, PresentBefore
  <2>2. SState'[t] \in {"idle", "absent"} /\ SDue'[t] = 0
    <3>1. CASE eTask'[s] = t
      <4>1. Tracked(SState'[t], SDue'[t], s \in pending', owed'[t] # 0, eDeadline'[s])
        BY <1>1, <1>7, <3>1, StateAfter
      <4> QED
        BY <1>1, <1>4, <4>1 DEF Tracked
    <3>2. CASE eTask'[s] # t
      BY <1>3, <1>4, <1>7, <3>2, AbsentAfter
    <3> QED
      BY <3>1, <3>2
  <2>3. PICK st \in {"idle", "absent"} : SState'[t] = st
    BY <2>2
  <2>4. Service!Withdraw(t, st)
    BY <1>1, <1>5, <1>6, <1>7, <2>1, <2>2, <2>3 DEF Service!Withdraw, SState, SDue, SRunning
  <2> QED
    BY <1>7, <2>4 DEF Refines, Service!Next
<1> QED
  BY <1>1, <1>5, <1>6, <1>7 DEF Refines

LEMMA PrimeRefines ==
    ASSUME ServiceInv, ServiceInv',
           NEW t \in Tasks, NEW s \in Slots, NEW d \in Delays, PrimeTime(t, d, s)
    PROVE  Refines
<1>1. /\ initialized /\ initialized' /\ UNCHANGED <<now, running, eTask>>
      /\ eTask[s] = t
      /\ eDeadline' = [eDeadline EXCEPT ![s] = now + d]
      /\ pending' = pending \cup {s}
      /\ owed' = [owed EXCEPT ![t] = 0]
  BY DEF PrimeTime, FoundAt, clockVars, loopVars
<1>3. TypeOK
  BY DEF ServiceInv, QueueInv
<1>4. /\ \A r \in Slots \ {s} : eDeadline'[r] = eDeadline[r]
      /\ \A u \in Tasks \ {t} : owed'[u] = owed[u]
      /\ eDeadline'[s] = now + d
      /\ d \in Nat /\ now \in Nat
  BY <1>1, <1>3, ConstantsAssumption DEF TypeOK
<1>5. /\ t \notin OneShots => UNCHANGED <<SState, SDue>>
      /\ t \in OneShots =>
            /\ SState' = [SState EXCEPT ![t] = SState'[t]]
            /\ SDue' = [SDue EXCEPT ![t] = SDue'[t]]
  BY <1>1, <1>4, OthersSame
<1>6. UNCHANGED SRunning
  BY <1>1 DEF SRunning
<1>7. CASE t \in OneShots
  <2>1. SState[t] # "absent"
    BY <1>1, <1>7, PresentBefore
  <2>2. Tracked(SState'[t], SDue'[t], s \in pending', owed'[t] # 0, eDeadline'[s])
    BY <1>1, <1>7, StateAfter
  <2>3. SState'[t] = "armed" /\ SDue'[t] = now + d
    BY <1>1, <1>4, <2>2 DEF Tracked
  <2>4. SDue'[t] >= now
    BY <1>4, <2>3
  <2>5. Service!Prime(t, SDue'[t])
    BY <1>1, <1>5, <1>6, <1>7, <2>1, <2>3, <2>4 DEF Service!Prime, SState, SDue, SRunning
  <2> QED
    BY <1>7, <2>5 DEF Refines, Service!Next, SDue
<1> QED
  BY <1>1, <1>5, <1>6, <1>7 DEF Refines

\* Starting finds nobody waiting, stopping leaves nobody waiting.
LEMMA StartStopRefines ==
    ASSUME InitTimeManager \/ ShutdownTimeManager
    PROVE  Refines
<1>1. UNCHANGED <<now, running>>
  BY DEF InitTimeManager, ShutdownTimeManager, clockVars, loopVars
<1>2. ~initialized' \/ (~initialized /\ \A s \in Slots : eTask'[s] = NoTask)
  BY DEF InitTimeManager, ShutdownTimeManager
<1>3. NoTask \notin OneShots
  BY ConstantsAssumption DEF OneShots
<1>4. \A t \in OneShots : SState'[t] = "absent" /\ SDue'[t] = 0
  BY <1>2, <1>3, AbsentAfter
<1>5. SState' = [t \in OneShots |-> "absent"] /\ SDue' = [t \in OneShots |-> 0]
  BY <1>4 DEF SState, SDue
<1>6. Service!Stop
  BY <1>1, <1>5 DEF Service!Stop, SState, SDue
<1> QED
  BY <1>6 DEF Refines, Service!Next

\* An item of a one-shot task that passes the generation check is what the task
\* is owed: its entry has left the heap for good.
LEMMA DrainRefines ==
    ASSUME ServiceInv, ServiceInv', DrainItem
    PROVE  Refines
<1>1. /\ UNCHANGED <<now, initialized, eTask, eDeadline, pending>>
      /\ pc = "drain" /\ tail # head
  BY DEF DrainItem, clockVars, tableVars
<1>2. TypeOK
  BY DEF ServiceInv, QueueInv
<1>3. initialized /\ running = NoTask
  BY <1>1 DEF ServiceInv, Off
<1>4. tail \in Queued /\ tail \in RingIndex
  BY <1>1, <1>2, BetweenShrinks DEF TypeOK, Queued
<1>5. CASE ~GenerationMatches(ring[tail])
  <2>1. UNCHANGED <<running, owed>>
    BY <1>5 DEF DrainItem
  <2>2. \A t \in OneShots : SState'[t] = SState[t] /\ SDue'[t] = SDue[t]
    BY <1>1, <2>1, StateSame
  <2>3. UNCHANGED <<SState, SDue>>
    BY <2>2 DEF SState, SDue
  <2> QED
    BY <1>1, <2>1, <2>3 DEF Refines, SRunning
<1>6. CASE GenerationMatches(ring[tail])
  <2> DEFINE t == ring[tail].task
  <2>1. PICK s \in Slots : eTask[s] = t /\ eGen[s] = ring[tail].gen
    BY <1>6 DEF GenerationMatches, FoundAt
  <2>2. t \in Tasks /\ ring[tail].gen > 0
    BY <1>4 DEF ServiceInv, QueueInv, ItemsReal
  <2>3. s \notin pending /\ owed[t] = ring[tail].gen
    BY <1>4, <2>1 DEF ServiceInv, QueueInv, GenerationsBound
  <2>4. running' = t /\ owed' = [owed EXCEPT ![t] = 0]
    BY <1>6 DEF DrainItem
  <2> HIDE DEF t
  <2>5. owed'[t] = 0 /\ \A u \in Tasks \ {t} : owed'[u] = owed[u]
    BY <1>2, <2>2, <2>4 DEF TypeOK
  <2>6. /\ t \notin OneShots => UNCHANGED <<SState, SDue>>
        /\ t \in OneShots =>
              /\ SState' = [SState EXCEPT ![t] = SState'[t]]
              /\ SDue' = [SDue EXCEPT ![t] = SDue'[t]]
    BY <1>1, <2>1, <2>2, <2>5, OthersSame
  <2>7. CASE t \notin OneShots
    BY <1>1, <1>3, <2>4, <2>6, <2>7 DEF Refines, SRunning
  <2>8. CASE t \in OneShots
    <3>1. owed[t] # 0
      BY <1>2, <1>4, <2>2, <2>3 DEF TypeOK, Item
    <3>2. Tracked(SState[t], SDue[t], s \in pending, owed[t] # 0, eDeadline[s])
      BY <1>3, <2>1, <2>8, StateBefore
    <3>3. Tracked(SState'[t], SDue'[t], s \in pending', owed'[t] # 0, eDeadline'[s])
      BY <1>1, <1>3, <2>1, <2>8, StateAfter
    <3>4. SState[t] = "owed" /\ SState'[t] = "idle" /\ SDue'[t] = 0
      BY <1>1, <2>3, <2>5, <3>1, <3>2, <3>3 DEF Tracked
    <3>5. SRunning = NoTask /\ SRunning' = t
      BY <1>3, <2>4, <2>8 DEF SRunning
    <3>6. Service!Call(t)
      BY <1>1, <2>6, <2>8, <3>4, <3>5 DEF Service!Call, SState, SDue, SRunning
    <3> QED
      BY <2>8, <3>6 DEF Refines, Service!Next
  <2> QED
    BY <2>7, <2>8
<1> QED
  BY <1>5, <1>6

LEMMA ReturnRefines ==
    ASSUME ServiceInv, ServiceInv', CallbackReturns
    PROVE  Refines
<1>1. UNCHANGED <<now, initialized, eTask, eDeadline, pending, owed>> /\ running' = NoTask
  BY DEF CallbackReturns, clockVars, tableVars, ghostVars
<1>2. \A t \in OneShots : SState'[t] = SState[t] /\ SDue'[t] = SDue[t]
  BY <1>1, StateSame
<1>3. UNCHANGED <<SState, SDue>>
  BY <1>2 DEF SState, SDue
<1>4. SRunning' = NoTask
  BY <1>1 DEF SRunning
<1>5. CASE SRunning = NoTask
  BY <1>1, <1>3, <1>4, <1>5 DEF Refines
<1>6. CASE SRunning # NoTask
  <2>1. Service!Return
    BY <1>1, <1>3, <1>4, <1>6 DEF Service!Return, SState, SDue, SRunning
  <2> QED
    BY <2>1 DEF Refines, Service!Next
<1> QED
  BY <1>5, <1>6

\* The entry that expires is due: the ISR's time is not ahead of the clock.  A
\* one-shot entry does not go back into the heap.
LEMMA ExpireRefines ==
    ASSUME ServiceInv, ServiceInv', NEW s \in Slots, ExpireEarliest(s)
    PROVE  Refines
<1>1. /\ UNCHANGED <<now, initialized, eTask, running>>
      /\ pc = "expire" /\ s \in pending /\ eDeadline[s] <= isrNow
      /\ owed' = [owed EXCEPT ![eTask[s]] = eGen[s]]
  BY DEF ExpireEarliest, DueRoot, clockVars, loopVars
<1>2. /\ eDeadline' \in {eDeadline, [eDeadline EXCEPT ![s] = NextPeriod(s)]}
      /\ pending' \in {pending, pending \ {s}}
  BY DEF ExpireEarliest
<1>3. TypeOK /\ isrNow <= now
  BY DEF ServiceInv, QueueInv
<1>4. initialized
  BY <1>1 DEF ServiceInv, Off
<1> DEFINE t == eTask[s]
<1>5. t \in Tasks /\ eGen[s] > 0 /\ (t \notin Periodic => ePeriod[s] = 0)
  BY <1>1 DEF ServiceInv, QueueInv, HeapEntriesReal, EntriesReal
<1>6. t \notin Periodic => pending' = pending \ {s} /\ UNCHANGED eDeadline
  BY <1>3, <1>5 DEF ExpireEarliest, TypeOK
<1> HIDE DEF t
<1>7. /\ eTask[s] = t /\ eTask'[s] = t
      /\ owed'[t] = eGen[s]
      /\ \A u \in Tasks \ {t} : owed'[u] = owed[u]
      /\ \A r \in Slots \ {s} :
            /\ eDeadline'[r] = eDeadline[r]
            /\ r \in pending' <=> r \in pending
  BY <1>1, <1>2, <1>3, <1>5 DEF TypeOK, t
<1>8. /\ t \notin OneShots => UNCHANGED <<SState, SDue>>
      /\ t \in OneShots =>
            /\ SState' = [SState EXCEPT ![t] = SState'[t]]
            /\ SDue' = [SDue EXCEPT ![t] = SDue'[t]]
  BY <1>1, <1>5, <1>7, OthersSame
<1>9. UNCHANGED SRunning
  BY <1>1 DEF SRunning
<1>10. CASE t \in OneShots
  <2>1. owed'[t] # 0
    BY <1>3, <1>5, <1>7 DEF TypeOK
  <2>2. Tracked(SState[t], SDue[t], s \in pending, owed[t] # 0, eDeadline[s])
    BY <1>4, <1>7, <1>10, StateBefore
  <2>3. Tracked(SState'[t], SDue'[t], s \in pending', owed'[t] # 0, eDeadline'[s])
    BY <1>1, <1>4, <1>7, <1>10, StateAfter
  <2>4. s \notin pending' /\ eDeadline'[s] = eDeadline[s]
    BY <1>6, <1>10 DEF OneShots
  <2>5. /\ SState[t] = "armed" /\ SState'[t] = "owed"
        /\ SDue[t] = eDeadline[s] /\ SDue'[t] = SDue[t]
    BY <1>1, <2>1, <2>2, <2>3, <2>4 DEF Tracked
  <2>6. SDue[t] <= now
    BY <1>1, <1>3, <2>5 DEF TypeOK
  <2>7. SDue' = SDue
    BY <1>8, <1>10, <2>5 DEF SDue
  <2>8. Service!Expire(t)
    BY <1>1, <1>8, <1>9, <1>10, <2>5, <2>6, <2>7 DEF Service!Expire, SState, SDue, SRunning
  <2> QED
    BY <1>10, <2>8 DEF Refines, Service!Next
<1> QED
  BY <1>1, <1>8, <1>9, <1>10 DEF Refines

\* Time passes, and the main loop goes on without a word to anyone.
LEMMA QuietRefines ==
    ASSUME ServiceInv, ServiceInv',
           DrainEnds \/ ClientsDone \/ TimerISR \/ ExpireDone \/ Tick \/ UNCHANGED vars
    PROVE  Refines
<1>1. UNCHANGED <<initialized, eTask, eDeadline, pending, owed, running>>
  BY DEF DrainEnds, ClientsDone, TimerISR, ExpireDone, Tick, vars, tableVars, ghostVars, loopVars
<1>2. \A t \in OneShots : SState'[t] = SState[t] /\ SDue'[t] = SDue[t]
  BY <1>1, StateSame
<1>3. UNCHANGED <<SState, SDue, SRunning>>
  BY <1>1, <1>2 DEF SState, SDue, SRunning
<1>4. CASE Tick
  <2>1. now' > now
    BY <1>4 DEF Tick, ServiceInv, QueueInv, TypeOK
  <2>2. Service!TimePasses
    BY <1>3, <2>1 DEF Service!TimePasses, SState, SDue, SRunning
  <2> QED
    BY <2>2 DEF Refines, Service!Next
<1>5. CASE ~Tick
  <2>1. UNCHANGED now
    BY <1>5 DEF DrainEnds, ClientsDone, TimerISR, ExpireDone, vars, clockVars
  <2> QED
    BY <1>3, <2>1 DEF Refines
<1> QED
  BY <1>4, <1>5

LEMMA StepRefines ==
    ASSUME ServiceInv, ServiceInv', [Next /\ tainted' = {}]_vars
    PROVE  Refines
<1>1. [Next]_vars /\ tainted' = {}
  BY DEF ServiceInv, vars, ghostVars
<1>2. CASE InitTimeManager \/ ShutdownTimeManager
  BY <1>2, StartStopRefines
<1>3. CASE \E t \in Tasks, s \in Slots :
              \/ InsTime(t, s) \/ RmvTime(t, s) \/ CancelTime(t, s)
              \/ \E d \in Delays : PrimeTime(t, d, s)
  BY <1>1, <1>3, InsertRefines, WithdrawRefines, PrimeRefines
<1>4. CASE DrainItem
  BY <1>4, DrainRefines
<1>5. CASE CallbackReturns
  BY <1>5, ReturnRefines
<1>6. CASE \E s \in Slots : ExpireEarliest(s)
  BY <1>6, ExpireRefines
<1>7. CASE DrainEnds \/ ClientsDone \/ TimerISR \/ ExpireDone \/ Tick \/ UNCHANGED vars
  BY <1>7, QuietRefines
<1> QED
  BY <1>1, <1>2, <1>3, <1>4, <1>5, <1>6, <1>7 DEF Next, ClientCall, MainLoop

LEMMA InitRefines == Init => Service!Init
<1> SUFFICES ASSUME Init PROVE Service!Init
  OBVIOUS
<1>1. ~initialized /\ now = 1 /\ running = NoTask
  BY DEF Init
<1>2. \A t \in OneShots : SState[t] = "absent" /\ SDue[t] = 0
  BY <1>1, AbsentBefore
<1>3. SState = [t \in OneShots |-> "absent"] /\ SDue = [t \in OneShots |-> 0]
  BY <1>2 DEF SState, SDue
<1> QED
  BY <1>1, <1>3 DEF Service!Init, SState, SDue

\* Clients that insert a task only when no earlier life of it is left get what
\* TimerService promises: a one-shot task that was primed is called once, never
\* before its time, and never after its owner has primed it again, cancelled or
\* removed it (the table, the heap, the ring and the loop of main.c together).
THEOREM ServiceImplemented == DisciplinedSpec => ImplementsService
<1>1. ServiceInv /\ ServiceInv' /\ [Next /\ tainted' = {}]_vars
         => [Service!Next]_<<now, SState, SDue, SRunning>>
  BY StepRefines DEF Refines
<1> QED
  BY <1>1, InitRefines, ServiceInvariant, PTL
     DEF DisciplinedSpec, ImplementsService, Service!Spec, Service!vars, SState, SDue, SRunning
=============================================================================
