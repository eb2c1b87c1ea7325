---------------------------- MODULE TimeManager ----------------------------
(***************************************************************************)
(* The Time Manager: the side table of tasks (TimeManagerCore.c), the      *)
(* programmed interrupt (TimerInterrupts.c), the ring of deferred          *)
(* callbacks (TimerTasks.c) and the main loop that polls the ISR and       *)
(* drains the ring (main.c).                                               *)
(*                                                                         *)
(* The C program keeps one array of TMEntry; here each field is a function *)
(* on slots and inHeap is the set `pending'.  The array layout of the      *)
(* heap is the subject of TimerHeap; here its root is any pending slot     *)
(* with the least deadline.  A call that returns an error changes nothing  *)
(* and is a stuttering step; the s of a call is the entry its scan finds.  *)
(***************************************************************************)
EXTENDS Integers, FiniteSets

CONSTANTS
    Tasks,        \* TMTask records of the clients
    NoTask,       \* the null task pointer
    Periodic,     \* tasks whose qType carries TM_FLAG_PERIODIC
    TMMaxTasks,   \* TM_MAX_TASKS
    QueueSize,    \* TM_DEFERRED_QUEUE_SIZE
    DrainMax,     \* the maxTasks argument of TimeManager_DrainDeferred
    Resolution,   \* GetTimerResolution, in clock units
    CapUS,        \* MICROSECONDS_PER_SECOND, in clock units
    MaxCatchup,   \* MAX_CATCHUP
    Word,         \* 2^32: what a UInt32 product wraps at
    Delays,       \* the delays that clients pass to PrimeTime
    MaxTime,      \* bound: the clock stops here
    MaxGen        \* bound: the generations that client calls may produce

ASSUME ConstantsAssumption ==
    /\ NoTask \notin Tasks
    /\ Periodic \subseteq Tasks
    /\ TMMaxTasks \in Nat \ {0}
    /\ QueueSize \in Nat \ {0, 1}
    /\ DrainMax \in Nat \ {0}
    /\ Resolution \in Nat
    /\ CapUS \in Nat
    /\ MaxCatchup \in Nat
    /\ Word \in Nat \ {0}
    /\ Delays \subseteq 0 .. Word - 1
    /\ MaxTime \in Nat
    /\ MaxGen \in Nat

VARIABLES
    now,          \* Microseconds()
    initialized,  \* gInitialized
    eTask,        \* gEntries[s].task
    eDeadline,    \* gEntries[s].absDeadlineUS
    ePeriod,      \* gEntries[s].periodUS
    eGen,         \* gEntries[s].gen
    pending,      \* the slots with inHeap set: the contents of gHeap
    genCounter,   \* gGenCounter
    armed,        \* gTimerState.armed
    nextDeadline, \* gTimerState.nextDeadlineUS
    ring,         \* gDeferredQueue
    head,         \* gDeferredHead
    tail,         \* gDeferredTail
    pc,           \* where the main loop is
    drainAt,      \* which of the loop's two drains is running
    drained,      \* count in TimeManager_DrainDeferred (0 outside it)
    running,      \* the task whose callback is running
    isrNow,       \* the nowUS argument of Core_ExpireDue (0 outside it)
    owed,         \* history: generation of the expiry not yet answered, or 0
    tainted       \* history: tasks inserted while an earlier life was visible

clockVars == <<now>>
tableVars == <<initialized, eTask, eDeadline, ePeriod, eGen, pending, genCounter>>
timerVars == <<armed, nextDeadline>>
ringVars  == <<ring, head, tail>>
loopVars  == <<pc, drainAt, drained, running, isrNow>>
ghostVars == <<owed, tainted>>
vars == <<clockVars, tableVars, timerVars, ringVars, loopVars, ghostVars>>

Slots == 0 .. TMMaxTasks - 1
RingIndex == 0 .. QueueSize - 1
Item == [task : Tasks \cup {NoTask}, gen : Nat]
NoItem == [task |-> NoTask, gen |-> 0]

TypeOK ==
    /\ now \in Nat \ {0}
    /\ initialized \in BOOLEAN
    /\ eTask \in [Slots -> Tasks \cup {NoTask}]
    /\ eDeadline \in [Slots -> Nat]
    /\ ePeriod \in [Slots -> Nat]
    /\ eGen \in [Slots -> Nat]
    /\ pending \subseteq Slots
    /\ genCounter \in Nat \ {0}
    /\ armed \in BOOLEAN
    /\ nextDeadline \in Nat
    /\ ring \in [RingIndex -> Item]
    /\ head \in RingIndex
    /\ tail \in RingIndex
    /\ pc \in {"app", "drain", "callback", "isr", "expire"}
    /\ drainAt \in {1, 2}
    /\ drained \in Nat
    /\ running \in Tasks \cup {NoTask}
    /\ isrNow \in Nat
    /\ owed \in [Tasks -> Nat]
    /\ tainted \subseteq Tasks

-----------------------------------------------------------------------------
(* The table, the heap and the programmed interrupt. *)

\* FindEntry, and the scan for a free entry when t is NoTask: s is the first
\* slot whose task is t.
FoundAt(s, t) ==
    /\ eTask[s] = t
    /\ \A r \in Slots : r < s => eTask[r] # t

Installed(t) == \E s \in Slots : eTask[s] = t

\* The root of the min-heap whose contents are P under the deadlines dl.
Earliest(s, P, dl) ==
    /\ s \in P
    /\ \A r \in P : dl[s] <= dl[r]

\* The clamped distance to a deadline: never negative, nothing below the
\* resolution, never more than one second.
ClampedDelta(d) ==
    LET delta == IF d <= now THEN 0 ELSE d - now
        fine  == IF delta < Resolution THEN 0 ELSE delta
    IN  IF fine > CapUS THEN CapUS ELSE fine

\* ProgramNextTimerInterrupt: deadline 0 disarms.
ProgramNextTimerInterrupt(d) ==
    IF d = 0
    THEN armed' = FALSE /\ nextDeadline' = 0
    ELSE armed' = TRUE /\ nextDeadline' = now + ClampedDelta(d)

\* FAULT for ArmedCoversEarliest and OneShotIsServed: the interrupt is left as
\* it was.
RearmNothing(P, dl) == UNCHANGED timerVars

\* RearmNextInterrupt, for the heap contents P and deadlines dl it is left with.
RearmNextInterrupt(P, dl) ==
    IF P = {}
    THEN ProgramNextTimerInterrupt(0)
    ELSE \E s \in P : Earliest(s, P, dl) /\ ProgramNextTimerInterrupt(dl[s])

-----------------------------------------------------------------------------
(* The ring of deferred callbacks. *)

\* (i + 1) % TM_DEFERRED_QUEUE_SIZE
Succ(i) == IF i + 1 = QueueSize THEN 0 ELSE i + 1

\* The ring positions from b up to e, which is not one of them.
Between(b, e) ==
    {i \in RingIndex : IF b <= e THEN b <= i /\ i < e ELSE b <= i \/ i < e}

Queued == Between(tail, head)

\* FAULT for TypeOK: the head is not wrapped.
EnqueueDeferredNoWrap(t, g) ==
    IF Succ(head) = tail
    THEN UNCHANGED ringVars
    ELSE /\ ring' = [ring EXCEPT ![head] = [task |-> t, gen |-> g]]
         /\ head' = head + 1
         /\ UNCHANGED tail

\* EnqueueDeferred: a full ring drops the callback without a word.
EnqueueDeferred(t, g) ==
    IF Succ(head) = tail
    THEN UNCHANGED ringVars
    ELSE /\ ring' = [ring EXCEPT ![head] = [task |-> t, gen |-> g]]
         /\ head' = Succ(head)
         /\ UNCHANGED tail

\* FAULT for ImplementsService: the generation is not looked at.
TaskIsInstalled(item) == Installed(item.task)

\* Core_GetTaskGeneration, compared with the generation of a queued item.
GenerationMatches(item) ==
    \E s \in Slots : FoundAt(s, item.task) /\ eGen[s] = item.gen

-----------------------------------------------------------------------------
(* The client interface.  Clients run inside the main loop (an event being *)
(* dispatched, a process, boot code) or inside a timer callback.           *)

\* FAULT for QueuedMatchIsDue: the generation stays what it was.
KeepGeneration(s) == UNCHANGED eGen

\* FAULT for QueuedMatchIsOwed: an entry that has left the heap keeps its
\* generation.
BumpGenerationIfPending(s) ==
    eGen' = [eGen EXCEPT ![s] = IF s \in pending THEN @ + 1 ELSE @]

\* entry->gen++: items queued under the old generation are stale from here on.
BumpGeneration(s) == eGen' = [eGen EXCEPT ![s] = @ + 1]

ClientRuns == pc \in {"app", "callback"}

\* InitTimeManager: InitDeferredQueue and Core_Initialize.
InitTimeManager ==
    /\ ClientRuns
    /\ ~initialized
    /\ head' = 0 /\ tail' = 0
    /\ eTask' = [s \in Slots |-> NoTask]
    /\ pending' = {}
    /\ genCounter' = 1
    /\ initialized' = TRUE
    /\ owed' = [t \in Tasks |-> 0]
    /\ tainted' = {}
    /\ UNCHANGED <<clockVars, eDeadline, ePeriod, eGen, timerVars, ring, loopVars>>

\* ShutdownTimeManager: Core_Shutdown and ShutdownDeferredQueue.
ShutdownTimeManager ==
    /\ ClientRuns
    /\ initialized
    /\ initialized' = FALSE
    /\ ProgramNextTimerInterrupt(0)
    /\ head' = 0 /\ tail' = 0
    /\ owed' = [t \in Tasks |-> 0]
    /\ UNCHANGED <<clockVars, eTask, eDeadline, ePeriod, eGen, pending,
                   genCounter, ring, loopVars, tainted>>

\* InsTime: the first free entry takes the next number of gGenCounter.  Nothing
\* checks that the task is not in the table already.
InsTime(t, s) ==
    /\ ClientRuns
    /\ initialized
    /\ genCounter < MaxGen
    /\ FoundAt(s, NoTask)
    /\ eTask' = [eTask EXCEPT ![s] = t]
    /\ eDeadline' = [eDeadline EXCEPT ![s] = 0]
    /\ ePeriod' = [ePeriod EXCEPT ![s] = 0]
    /\ eGen' = [eGen EXCEPT ![s] = genCounter]
    /\ pending' = pending \ {s}
    /\ genCounter' = genCounter + 1
    /\ tainted' = IF Installed(t) \/ \E i \in Queued : ring[i].task = t
                  THEN tainted \cup {t} ELSE tainted
    /\ UNCHANGED <<clockVars, initialized, timerVars, ringVars, loopVars, owed>>

\* RmvTime.
RmvTime(t, s) ==
    /\ ClientRuns
    /\ initialized
    /\ FoundAt(s, t)
    /\ pending' = pending \ {s}
    /\ IF s \in pending THEN RearmNextInterrupt(pending \ {s}, eDeadline)
                        ELSE UNCHANGED timerVars
    /\ eTask' = [eTask EXCEPT ![s] = NoTask]
    /\ BumpGeneration(s)
    /\ owed' = [owed EXCEPT ![t] = 0]
    /\ UNCHANGED <<clockVars, initialized, eDeadline, ePeriod, genCounter,
                   ringVars, loopVars, tainted>>

\* entry->periodUS: the delay repeats only if qType says so.
PeriodOf(t, delay) == IF t \in Periodic THEN delay ELSE 0

\* PrimeTime: a task already pending is taken out of the heap first.
PrimeTime(t, delay, s) ==
    /\ ClientRuns
    /\ initialized
    /\ now + delay <= MaxTime
    /\ FoundAt(s, t)
    /\ eGen[s] < MaxGen
    /\ eDeadline' = [eDeadline EXCEPT ![s] = now + delay]
    /\ ePeriod' = [ePeriod EXCEPT ![s] = PeriodOf(t, delay)]
    /\ BumpGeneration(s)
    /\ pending' = pending \cup {s}
    /\ RearmNextInterrupt(pending \cup {s}, eDeadline')
    /\ owed' = [owed EXCEPT ![t] = 0]
    /\ UNCHANGED <<clockVars, initialized, eTask, genCounter, ringVars,
                   loopVars, tainted>>

\* CancelTime: the generation moves on even when the entry has left the heap.
CancelTime(t, s) ==
    /\ ClientRuns
    /\ initialized
    /\ FoundAt(s, t)
    /\ eGen[s] < MaxGen
    /\ BumpGeneration(s)
    /\ pending' = pending \ {s}
    /\ IF s \in pending THEN RearmNextInterrupt(pending \ {s}, eDeadline)
                        ELSE UNCHANGED timerVars
    /\ owed' = [owed EXCEPT ![t] = 0]
    /\ UNCHANGED <<clockVars, initialized, eTask, eDeadline, ePeriod, genCounter,
                   ringVars, loopVars, tainted>>

ClientCall ==
    \/ InitTimeManager
    \/ ShutdownTimeManager
    \/ \E t \in Tasks, s \in Slots :
          \/ InsTime(t, s) \/ RmvTime(t, s) \/ CancelTime(t, s)
          \/ \E d \in Delays : PrimeTime(t, d, s)

-----------------------------------------------------------------------------
(* The main loop: drain, run the clients, drain, poll the ISR.             *)

\* TimeManager_DrainDeferred, one item: the callback runs only if the item's
\* generation is still the task's.  (Clients set tmAddr before they prime.)
DrainItem ==
    /\ pc = "drain"
    /\ tail # head
    /\ drained < DrainMax
    /\ tail' = Succ(tail)
    /\ drained' = drained + 1
    /\ LET item == ring[tail] IN
       IF GenerationMatches(item)
       THEN /\ pc' = "callback"
            /\ running' = item.task
            /\ owed' = [owed EXCEPT ![item.task] = 0]
       ELSE UNCHANGED <<pc, running, owed>>
    /\ UNCHANGED <<clockVars, tableVars, timerVars, ring, head, drainAt, isrNow,
                   tainted>>

CallbackReturns ==
    /\ pc = "callback"
    /\ pc' = "drain"
    /\ running' = NoTask
    /\ UNCHANGED <<clockVars, tableVars, timerVars, ringVars, drainAt, drained,
                   isrNow, ghostVars>>

\* The drain ends on an empty ring, on its count, or on its time limit, which
\* is looked at only after the first item.
DrainEnds ==
    /\ pc = "drain"
    /\ \/ tail = head
       \/ drained >= DrainMax
       \/ drained > 0
    /\ pc' = IF drainAt = 1 THEN "app" ELSE "isr"
    /\ drained' = 0
    /\ UNCHANGED <<clockVars, tableVars, timerVars, ringVars, drainAt, running,
                   isrNow, ghostVars>>

\* The clients of this round are done; the second drain of the loop starts.
ClientsDone ==
    /\ pc = "app"
    /\ pc' = "drain"
    /\ drainAt' = 2
    /\ UNCHANGED <<clockVars, tableVars, timerVars, ringVars, drained, running,
                   isrNow, ghostVars>>

NextRound == pc' = "drain" /\ drainAt' = 1

\* TimeManager_TimerISR.
TimerISR ==
    /\ pc = "isr"
    /\ IF armed /\ nextDeadline <= now
       THEN /\ armed' = FALSE
            /\ isrNow' = now
            /\ pc' = "expire"
            /\ UNCHANGED drainAt
       ELSE NextRound /\ UNCHANGED <<armed, isrNow>>
    /\ UNCHANGED <<clockVars, tableVars, nextDeadline, ringVars, drained, running,
                   ghostVars>>

\* How late a periodic task may be and still catch up: MaxCatchup periods, as the
\* product of two UInt32.
CatchupLimit(s) == (ePeriod[s] * MaxCatchup) % Word

\* The deadline a periodic task gets: one period on, or, later than that limit,
\* one period from the ISR's time.
NextPeriod(s) ==
    LET next == eDeadline[s] + ePeriod[s]
    IN  IF isrNow - next > CatchupLimit(s) THEN isrNow + ePeriod[s] ELSE next

\* FAULT for CalledInDeadlineOrder: any entry that is due comes next.
AnyDue(s) == eDeadline[s] <= isrNow

\* The loop's next entry: the root of the heap, if it is due.
DueRoot(s) == Earliest(s, pending, eDeadline) /\ eDeadline[s] <= isrNow

\* Core_ExpireDue, one turn of its loop: the earliest entry, if it is due, leaves
\* the heap, its callback is queued, and a periodic entry goes back under the
\* next generation.
ExpireEarliest(s) ==
    /\ pc = "expire"
    /\ s \in pending
    /\ DueRoot(s)
    /\ EnqueueDeferred(eTask[s], eGen[s])
    /\ owed' = [owed EXCEPT ![eTask[s]] = eGen[s]]
    /\ IF ePeriod[s] > 0
       THEN /\ eDeadline' = [eDeadline EXCEPT ![s] = NextPeriod(s)]
            /\ BumpGeneration(s)
            /\ UNCHANGED pending
       ELSE /\ pending' = pending \ {s}
            /\ UNCHANGED <<eDeadline, eGen>>
    /\ UNCHANGED <<clockVars, initialized, eTask, ePeriod, genCounter, timerVars,
                   loopVars, tainted>>

\* Core_ExpireDue, the end: nothing pending is due, the interrupt is programmed.
ExpireDone ==
    /\ pc = "expire"
    /\ \A s \in pending : eDeadline[s] > isrNow
    /\ RearmNextInterrupt(pending, eDeadline)
    /\ NextRound
    /\ isrNow' = 0
    /\ UNCHANGED <<clockVars, tableVars, ringVars, drained, running, ghostVars>>

\* The microsecond counter moves on under everything.
Tick ==
    /\ now < MaxTime
    /\ now' = now + 1
    /\ UNCHANGED <<tableVars, timerVars, ringVars, loopVars, ghostVars>>

MainLoop ==
    \/ DrainItem \/ CallbackReturns \/ DrainEnds
    \/ ClientsDone \/ TimerISR \/ ExpireDone
    \/ \E s \in Slots : ExpireEarliest(s)

Next == ClientCall \/ MainLoop \/ Tick

\* Zeroed storage, boot code about to call InitTimeManager.  The counter never
\* reads 0: deadline 0 means `disarm' to ProgramNextTimerInterrupt.
Init ==
    /\ now = 1
    /\ initialized = FALSE
    /\ eTask = [s \in Slots |-> NoTask]
    /\ eDeadline = [s \in Slots |-> 0]
    /\ ePeriod = [s \in Slots |-> 0]
    /\ eGen = [s \in Slots |-> 0]
    /\ pending = {}
    /\ genCounter = 1
    /\ armed = FALSE /\ nextDeadline = 0
    /\ ring = [i \in RingIndex |-> NoItem]
    /\ head = 0 /\ tail = 0
    /\ pc = "app" /\ drainAt = 1 /\ drained = 0
    /\ running = NoTask
    /\ isrNow = 0
    /\ owed = [t \in Tasks |-> 0]
    /\ tainted = {}

Spec == Init /\ [][Next]_vars

\* Clients that insert a task only when it is in neither the table nor the ring.
\* The main loop never stops and the counter keeps counting; clients owe nothing,
\* except that an event handler or a callback returns.
DisciplinedSpec == Init /\ [][Next /\ tainted' = {}]_vars
FairSpec == DisciplinedSpec /\ WF_vars(MainLoop) /\ WF_vars(Tick)

-----------------------------------------------------------------------------
(* Properties.                                                             *)

\* The interrupt programmed by TimerInterrupts.c is never later than the
\* earliest deadline in the heap, unless that deadline has passed already: no
\* sequence of calls, callbacks and early (capped) interrupts leaves a pending
\* task without an interrupt that will find it.
ArmedCoversEarliest ==
    initialized /\ pc # "expire" =>
        \A s \in pending :
            armed /\ (nextDeadline <= eDeadline[s] \/ nextDeadline <= now)

\* An item of the ring that would be called.
Live(i) == i \in Queued /\ ring[i].task \notin tainted /\ GenerationMatches(ring[i])

\* TimeManager_DrainDeferred's generation check: the item it would call answers
\* the last expiry of that task, which nobody has primed again, cancelled,
\* removed or already called.  A task inserted while an earlier life of it was
\* still in the table or the ring is not covered: see the README.
QueuedMatchIsOwed ==
    \A i \in RingIndex : Live(i) => owed[ring[i].task] = ring[i].gen

\* The callback never runs early: the entry of an item that would be called has
\* left the heap and its deadline has passed.
QueuedMatchIsDue ==
    \A i \in RingIndex, s \in Slots :
        Live(i) /\ eTask[s] = ring[i].task =>
            s \notin pending /\ eDeadline[s] <= now

\* A one-shot task whose expiry is in the ring will not be skipped when its turn
\* comes: its generation is still the one the item carries.
OneShotNotSkipped ==
    \A i \in Queued :
        LET t == ring[i].task IN
        t \notin tainted /\ t \notin Periodic /\ owed[t] = ring[i].gen =>
            GenerationMatches(ring[i])

\* How many items are in front of position i.
Ahead(i) == IF tail <= i THEN i - tail ELSE i + QueueSize - tail

\* Callbacks run in the order of their deadlines, across drains and ISR passes.
CalledInDeadlineOrder ==
    \A i, j \in RingIndex, r, s \in Slots :
        /\ Live(i) /\ eTask[r] = ring[i].task
        /\ Live(j) /\ eTask[s] = ring[j].task
        /\ Ahead(i) < Ahead(j)
        => eDeadline[r] <= eDeadline[s]

\* t has been primed and has been neither called, nor cancelled, nor removed.
Waiting(t) ==
    /\ initialized
    /\ t \notin tainted
    /\ \/ owed[t] # 0
       \/ \E s \in pending : eTask[s] = t

\* With room in the ring, a one-shot task that was primed is called, unless its
\* owner withdraws it: neither the capped interrupt, nor a drain cut short by
\* its limits, nor the calls of others lose it.
OneShotIsServed ==
    \A t \in Tasks \ Periodic : Waiting(t) ~> ~Waiting(t)

\* The detailed module implements TimerService for such clients and their
\* one-shot tasks, whatever the periodic ones do.
OneShots == Tasks \ Periodic

SlotOf(t) == CHOOSE s \in Slots : eTask[s] = t

StateOf(t) ==
    IF ~initialized \/ ~Installed(t) THEN "absent"
    ELSE IF SlotOf(t) \in pending THEN "armed"
    ELSE IF owed[t] # 0 THEN "owed" ELSE "idle"

DueOf(t) == IF StateOf(t) \in {"armed", "owed"} THEN eDeadline[SlotOf(t)] ELSE 0

Service == INSTANCE TimerService WITH
    Tasks   <- OneShots,
    state   <- [t \in OneShots |-> StateOf(t)],
    due     <- [t \in OneShots |-> DueOf(t)],
    running <- IF running \in OneShots THEN running ELSE NoTask

\* Primed one-shot tasks are called once, never early, never after they were
\* withdrawn.
ImplementsService == Service!Spec
=============================================================================
