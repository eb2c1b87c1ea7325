--------------------------- MODULE CoopScheduler ---------------------------
(***************************************************************************)
(* The cooperative scheduler (CooperativeScheduler.c).                     *)
(*                                                                         *)
(* There is one C stack.  Proc_Yield does not switch stacks: it changes    *)
(* gCurrentProcess, and calls the entry function of a process that has     *)
(* never run on top of its caller.  So the state has a process table, the  *)
(* ring of ready processes, the current process and the stack of entry     *)
(* functions that have not returned; the code that runs next is the one on *)
(* top of that stack (the main loop when it is empty), whoever is current. *)
(*                                                                         *)
(* A call runs statement by statement where it touches the ring, because   *)
(* the interrupt handler of a mouse wheel does so too: PostEvent calls     *)
(* Proc_UnblockEvent, and FolderWindow_ScrollWheel calls PostEvent in the  *)
(* handler.  `doing` is where the call is; statements between which the    *)
(* handler finds and changes the same are one step.  A handler that comes  *)
(* where the ends of the ring are being rewritten tears it, which `torn`   *)
(* records; what the program does with a torn ring, once the call it was   *)
(* torn in is over, is not modelled.                                       *)
(*                                                                         *)
(* The Time Manager appears as far as Proc_Sleep and Proc_Wake use it: its *)
(* table of entries, which of them hold a process's wakeTimer, and which   *)
(* of those are primed.                                                    *)
(***************************************************************************)
EXTENDS Integers, Sequences, FiniteSets, SequencesExt

CONSTANTS
    MaxProcesses,   \* MAX_PROCESSES
    Priorities,     \* the priorities clients pass to Proc_New
    MaxAging,       \* the aging bonus stops here
    Kinds,          \* kinds of event
    WheelKinds,     \* those the interrupt handler posts (updateEvt)
    TMMaxTasks      \* TM_MAX_TASKS

ASSUME SchedulerAssumption ==
    /\ MaxProcesses \in Nat \ {0, 1}
    /\ Priorities \subseteq Nat
    /\ MaxAging \in Nat
    /\ WheelKinds \subseteq Kinds
    /\ TMMaxTasks \in Nat

VARIABLES
    state,        \* gProcessTable[p].state
    priority,     \* gProcessTable[p].priority
    aging,        \* gProcessTable[p].aging
    neverStarted, \* gProcessTable[p].neverStarted
    eventMask,    \* gProcessTable[p].eventMask
    next,         \* gProcessTable[p].next
    prev,         \* gProcessTable[p].prev
    head,         \* gReadyQueue
    current,      \* gCurrentProcess
    stack,        \* processes whose entry function has not returned
    doing,        \* where the call in progress is, and its local variables
    wheel,        \* the kind of the event the interrupt handler is posting, if it runs
    timerOf,      \* gEntries of the Time Manager: whose wakeTimer, or NoProc
    primed,       \* the entries that are pending
    orphaned,     \* history: slots whose entry function has returned asleep
    order,        \* history: the processes added to the ring and not removed, in turn
    torn          \* history: the handler came while the ends of the ring were in use

tableVars == <<state, priority, aging, neverStarted, eventMask>>
ringVars == <<next, prev, head, order>>
timerVars == <<timerOf, primed>>
vars == <<tableVars, ringVars, current, stack, doing, wheel, timerVars, orphaned, torn>>

Procs == 0 .. MaxProcesses - 1
Idle == 0
NoProc == -1
TimerEntries == 0 .. TMMaxTasks - 1

Adding == {"add", "link", "close"}
Leaving == {"unlink", "relink", "move"}
Yielding == {"yield", "age", "select", "switch"}
Unblocking == {"scan", "clear"}

\* What the call in progress keeps: the process it is at, the best one so far
\* (SelectNextProcess), the kind of event it unblocks for, the state a process
\* that leaves the ring will have.
At(at, p) == [at |-> at, p |-> p, best |-> NoProc, kinds |-> {}, to |-> "ready"]
AtRest == At("rest", Idle)

InRing(p) == \E i \in DOMAIN order : order[i] = p

TypeOK ==
    /\ state \in [Procs -> {"free", "ready", "running", "blocked", "sleeping"}]
    /\ priority \in [Procs -> Nat]
    /\ aging \in [Procs -> 0 .. MaxAging]
    /\ neverStarted \in [Procs -> BOOLEAN]
    /\ eventMask \in [Procs -> SUBSET Kinds]
    /\ next \in [Procs -> Procs \cup {NoProc}] /\ prev \in [Procs -> Procs \cup {NoProc}]
    /\ head \in Procs /\ current \in Procs
    /\ stack \in Seq(Procs) /\ order \in Seq(Procs)
    /\ doing \in [at : {"rest"} \cup Adding \cup Leaving \cup Yielding \cup Unblocking,
                  p : Procs \cup {NoProc}, best : Procs \cup {NoProc}, kinds : SUBSET Kinds,
                  to : {"ready", "sleeping", "blocked", "free"}]
    /\ wheel \subseteq WheelKinds
    /\ timerOf \in [TimerEntries -> Procs \cup {NoProc}]
    /\ primed \subseteq TimerEntries
    /\ orphaned \subseteq Procs
    /\ torn \in BOOLEAN

\* The handler is not running, so the interrupted code goes on from there; and a
\* new call may begin.
Running(at) == wheel = {} /\ doing.at = at
Quiet == Running("rest") /\ ~torn

-----------------------------------------------------------------------------
(* AddToReadyQueue and RemoveFromReadyQueue.  The ring is never empty, as   *)
(* the idle process never leaves it, and gReadyQueue never NULL: what the   *)
(* code does then is left out.                                              *)

\* Mutant of Hindmost: the ring followed the wrong way.
Second == next[head]

\* The end of the ring, gReadyQueue->prev.
Hindmost == prev[head]

\* AddToReadyQueue, of doing.p: its own links, the last one's, the head's.
LinkNew ==
    /\ Running("add")
    /\ next' = [next EXCEPT ![doing.p] = head]
    /\ prev' = [prev EXCEPT ![doing.p] = Hindmost]
    /\ doing' = [doing EXCEPT !.at = "link"]
    /\ UNCHANGED <<tableVars, head, order, current, stack, wheel, timerVars, orphaned, torn>>

LinkLast ==
    /\ Running("link")
    /\ next' = [next EXCEPT ![Hindmost] = doing.p]
    /\ doing' = [doing EXCEPT !.at = "close"]
    /\ UNCHANGED <<tableVars, prev, head, order, current, stack, wheel, timerVars, orphaned, torn>>

\* Proc_UnblockEvent goes on with its loop; every other caller is done.
CloseRing ==
    /\ Running("close")
    /\ prev' = [prev EXCEPT ![head] = doing.p]
    /\ order' = Append(order, doing.p)
    /\ doing' = IF doing.kinds = {} THEN AtRest ELSE [doing EXCEPT !.at = "scan"]
    /\ UNCHANGED <<tableVars, next, head, current, stack, wheel, timerVars, orphaned, torn>>

\* The links of a process outside the ring are NULL: what is written through them
\* goes to the first bytes of memory, which boot.S leaves without paging and
\* nobody reads.
Written(links, p, q) == [r \in Procs |-> IF r = p THEN q ELSE links[r]]

\* RemoveFromReadyQueue, of doing.p: the link of the one before, the link of the
\* one behind, then gReadyQueue and the links of the process itself.
Unlink ==
    /\ Running("unlink")
    /\ next' = Written(next, prev[doing.p], next[doing.p])
    /\ doing' = [doing EXCEPT !.at = "relink"]
    /\ UNCHANGED <<tableVars, prev, head, order, current, stack, wheel, timerVars, orphaned, torn>>

Relink ==
    /\ Running("relink")
    /\ prev' = Written(prev, next[doing.p], prev[doing.p])
    /\ order' = RemoveFirst(order, doing.p)
    /\ doing' = [doing EXCEPT !.at = "move"]
    /\ UNCHANGED <<tableVars, next, head, current, stack, wheel, timerVars, orphaned, torn>>

\* The process gets the state it leaves for (Proc_Sleep, Proc_BlockOnEvent; that
\* of one whose entry function returned is set before), and the caller yields.
MoveHead ==
    /\ Running("move")
    /\ head' = IF head = doing.p THEN next[doing.p] ELSE head
    /\ next' = [next EXCEPT ![doing.p] = NoProc]
    /\ prev' = [prev EXCEPT ![doing.p] = NoProc]
    /\ state' = [state EXCEPT ![doing.p] = doing.to]
    /\ doing' = At("yield", NoProc)
    /\ UNCHANGED <<priority, aging, neverStarted, eventMask, order, current, stack, wheel,
                   timerVars, orphaned, torn>>

-----------------------------------------------------------------------------
(* Proc_Yield.                                                              *)

\* What SelectNextProcess compares.
Score(p) == priority[p] + aging[p]

\* Mutant of MayAge: the bonus goes past its limit.
MayAgePast(p) == aging[p] <= MaxAging

\* The bonus of p has not reached its limit.
MayAge(p) == aging[p] < MaxAging

\* Mutant of Stopped: the process that yields is still marked as running.
StillRunning == state

\* The process that yields is no longer running.
Stopped == [state EXCEPT ![current] = "ready"]

\* Proc_Yield: the others age if the process that yields was running.
ProcYield ==
    /\ Quiet \/ Running("yield")
    /\ IF state[current] = "running"
       THEN state' = Stopped /\ doing' = At("age", head)
       ELSE doing' = At("select", head) /\ UNCHANGED state
    /\ UNCHANGED <<priority, aging, neverStarted, eventMask, ringVars, current, stack, wheel,
                   timerVars, orphaned, torn>>

\* Its loop over the ring. (A link that is NULL, in a torn ring, is not followed.)
AgeNext ==
    /\ Running("age") /\ doing.p # NoProc
    /\ aging' = IF doing.p # current /\ MayAge(doing.p)
                THEN [aging EXCEPT ![doing.p] = @ + 1] ELSE aging
    /\ doing' = IF next[doing.p] = head THEN At("select", head)
                ELSE [doing EXCEPT !.p = next[doing.p]]
    /\ UNCHANGED <<state, priority, neverStarted, eventMask, ringVars, current, stack, wheel,
                   timerVars, orphaned, torn>>

\* SelectNextProcess: the first process of the ring with the best score.
SelectNext ==
    /\ Running("select") /\ doing.p # NoProc
    /\ doing' = [doing EXCEPT
          !.at = IF next[doing.p] = head THEN "switch" ELSE "select",
          !.p = next[doing.p],
          !.best = IF doing.best = NoProc \/ Score(doing.p) > Score(doing.best)
                   THEN doing.p ELSE doing.best]
    /\ UNCHANGED <<tableVars, ringVars, current, stack, wheel, timerVars, orphaned, torn>>

\* The process that is selected again stays ready: it is not set running. One that
\* never ran is called.
Switch ==
    /\ Running("switch")
    /\ doing' = AtRest
    /\ current' = doing.best
    /\ IF doing.best = current
       THEN UNCHANGED <<state, aging, neverStarted, stack>>
       ELSE /\ state' = [state EXCEPT ![doing.best] = "running"]
            /\ aging' = [aging EXCEPT ![doing.best] = 0]
            /\ neverStarted' = [neverStarted EXCEPT ![doing.best] = FALSE]
            /\ stack' = IF neverStarted[doing.best] THEN Append(stack, doing.best) ELSE stack
    /\ UNCHANGED <<priority, eventMask, ringVars, wheel, timerVars, orphaned, torn>>

-----------------------------------------------------------------------------
(* What the running code may call.                                         *)

\* Mutant of ProcNew: a slot counts as free while its process sleeps.
FreeOrAsleep(p) == state[p] \in {"free", "sleeping"}

\* The test Proc_New makes of a slot.
FreeSlot(p) == state[p] = "free"

\* Proc_New: the first free entry after the idle process.
ProcNew(p, prio) ==
    /\ Quiet
    /\ p # Idle /\ FreeSlot(p)
    /\ \A r \in Procs \ {Idle} : FreeSlot(r) => p <= r
    /\ state' = [state EXCEPT ![p] = "ready"]
    /\ priority' = [priority EXCEPT ![p] = prio % 16]
    /\ aging' = [aging EXCEPT ![p] = 0]
    /\ neverStarted' = [neverStarted EXCEPT ![p] = TRUE]
    /\ eventMask' = [eventMask EXCEPT ![p] = {}]
    /\ doing' = At("add", p)
    /\ UNCHANGED <<ringVars, current, stack, wheel, timerVars, orphaned, torn>>

\* The current process will leave the ring in the state st, and yield.
Leave(st) == doing' = [At("unlink", current) EXCEPT !.to = st]

\* FindEntry: the first entry that holds the wakeTimer of p (none, if p is
\* NoProc: the first that is free), as a set of at most one.
FoundAt(table, p) ==
    {e \in TimerEntries : table[e] = p /\ \A r \in TimerEntries : table[r] = p => e <= r}

\* Proc_Sleep: InsTime fails when the Time Manager's table is full, PrimeTime
\* when no entry holds the timer; neither result is looked at.
ProcSleep ==
    /\ Quiet /\ current # Idle
    /\ timerOf' = [e \in TimerEntries |->
                      IF e \in FoundAt(timerOf, NoProc) THEN current ELSE timerOf[e]]
    /\ primed' = primed \cup FoundAt(timerOf', current)
    /\ Leave("sleeping")
    /\ UNCHANGED <<tableVars, ringVars, current, stack, wheel, orphaned, torn>>

\* Proc_BlockOnEvent.
ProcBlockOnEvent(mask) ==
    /\ Quiet /\ current # Idle
    /\ eventMask' = [eventMask EXCEPT ![current] = mask]
    /\ Leave("blocked")
    /\ UNCHANGED <<state, priority, aging, neverStarted, ringVars, current, stack, wheel,
                   timerVars, orphaned, torn>>

\* Mutant of TimerRemoved: the wake timer of a process woken early stays primed.
TimerKept(p) == UNCHANGED timerVars

\* RmvTime of a sleeper's timer: it frees the first entry that holds the timer,
\* the one PrimeTime found.
TimerRemoved(p) ==
    /\ timerOf' = [e \in TimerEntries |->
                      IF e \in FoundAt(timerOf, p) THEN NoProc ELSE timerOf[e]]
    /\ primed' = primed \ FoundAt(timerOf, p)

\* Proc_Wake, of a process that sleeps.
ProcWakeSleeper(p) ==
    /\ Quiet /\ state[p] = "sleeping"
    /\ TimerRemoved(p)
    /\ state' = [state EXCEPT ![p] = "ready"]
    /\ doing' = At("add", p)
    /\ UNCHANGED <<priority, aging, neverStarted, eventMask, ringVars, current, stack, wheel,
                   orphaned, torn>>

\* Proc_Wake, of a process that is found waiting for an event.
ProcWakeBlocked(p) ==
    /\ Quiet /\ state[p] = "blocked"
    /\ doing' = At("clear", p)
    /\ UNCHANGED <<tableVars, ringVars, current, stack, wheel, timerVars, orphaned, torn>>

\* The processes an event of kind k unblocks.
WaitingFor(k) == {p \in Procs \ {Idle} : state[p] = "blocked" /\ k \in eventMask[p]}

\* Proc_UnblockEvent: its loop over the table begins ...
ProcUnblockEvent(k) ==
    /\ Quiet /\ WaitingFor(k) # {}
    /\ doing' = [At("scan", Idle) EXCEPT !.kinds = {k}]
    /\ UNCHANGED <<tableVars, ringVars, current, stack, wheel, timerVars, orphaned, torn>>

\* ... finds the next process that waits for the event ...
FindWaiting(k, p) ==
    /\ Running("scan") /\ k \in doing.kinds
    /\ p \in WaitingFor(k) /\ p > doing.p
    /\ \A r \in WaitingFor(k) : r > doing.p => p <= r
    /\ doing' = [doing EXCEPT !.at = "clear", !.p = p]
    /\ UNCHANGED <<tableVars, ringVars, current, stack, wheel, timerVars, orphaned, torn>>

\* ... or no other.
NoneWaiting(k) ==
    /\ Running("scan") /\ k \in doing.kinds
    /\ \A r \in WaitingFor(k) : r <= doing.p
    /\ doing' = AtRest
    /\ UNCHANGED <<tableVars, ringVars, current, stack, wheel, timerVars, orphaned, torn>>

\* The process found waiting is made ready, whatever has become of it.
ClearWaiting ==
    /\ Running("clear")
    /\ eventMask' = [eventMask EXCEPT ![doing.p] = {}]
    /\ state' = [state EXCEPT ![doing.p] = "ready"]
    /\ doing' = [doing EXCEPT !.at = "add"]
    /\ UNCHANGED <<priority, aging, neverStarted, ringVars, current, stack, wheel, timerVars,
                   orphaned, torn>>

-----------------------------------------------------------------------------
(* What happens to the processes.                                          *)

\* An entry expires, and WakeTimerCallback is called by the drain of the main
\* loop, which runs when no entry function does. It looks at its process's state;
\* the Time Manager keeps the entry. (A callback of an entry that FindEntry does
\* not find is skipped unless two generations are equal. tmAddr is set in every
\* process that sleeps.)
TimerFires(e) ==
    /\ Quiet /\ stack = <<>>
    /\ e \in primed
    /\ primed' = primed \ {e}
    /\ IF state[timerOf[e]] = "sleeping"
       THEN /\ state' = [state EXCEPT ![timerOf[e]] = "ready"]
            /\ doing' = At("add", timerOf[e])
       ELSE UNCHANGED <<state, doing>>
    /\ UNCHANGED <<priority, aging, neverStarted, eventMask, ringVars, current, stack, wheel,
                   timerOf, orphaned, torn>>

\* The entry function on top of the stack returns into the Proc_Yield that
\* called it: its process is freed, whatever it was doing, and leaves the ring,
\* and Proc_Yield calls itself.
EntryReturns ==
    /\ Quiet /\ stack # <<>>
    /\ state' = [state EXCEPT ![Last(stack)] = "free"]
    /\ stack' = Front(stack)
    /\ doing' = [At("unlink", Last(stack)) EXCEPT !.to = "free"]
    /\ orphaned' = IF state[Last(stack)] = "sleeping"
                   THEN orphaned \cup {Last(stack)} ELSE orphaned
    /\ UNCHANGED <<priority, aging, neverStarted, eventMask, ringVars, current, wheel,
                   timerVars, torn>>

\* The interrupted call has read, or is rewriting, a link that AddToReadyQueue
\* rewrites: it adds a process itself, or takes the last one out. (The first one,
\* the idle process, stays.)
EndsInUse == doing.at \in {"link", "close"} \/ (doing.at = "relink" /\ doing.p = Hindmost)

\* The interrupt handler posts an event of kind k (process_mouse_packet,
\* FolderWindow_ScrollWheel, PostEvent): Proc_UnblockEvent readies each process
\* that waits for it, and nothing else runs until it has.
WheelUnblocks(k, p) ==
    /\ wheel \subseteq {k}
    /\ ~torn \/ wheel # {}
    /\ p \in WaitingFor(k) /\ \A r \in WaitingFor(k) : p <= r
    /\ eventMask' = [eventMask EXCEPT ![p] = {}]
    /\ state' = [state EXCEPT ![p] = "ready"]
    /\ next' = [next EXCEPT ![p] = head, ![Hindmost] = p]
    /\ prev' = [prev EXCEPT ![p] = Hindmost, ![head] = p]
    /\ order' = Append(order, p)
    /\ wheel' = IF WaitingFor(k) = {p} THEN {} ELSE {k}
    /\ torn' = (torn \/ EndsInUse \/ (doing.at = "clear" /\ doing.p = p))
    /\ UNCHANGED <<priority, aging, neverStarted, head, current, stack, doing, timerVars,
                   orphaned>>

-----------------------------------------------------------------------------

\* Proc_Init, which main calls before its loop.
Init ==
    /\ state = [p \in Procs |-> IF p = Idle THEN "ready" ELSE "free"]
    /\ priority = [p \in Procs |-> 0]
    /\ aging = [p \in Procs |-> 0]
    /\ neverStarted = [p \in Procs |-> FALSE]
    /\ eventMask = [p \in Procs |-> {}]
    /\ next = [p \in Procs |-> IF p = Idle THEN Idle ELSE NoProc]
    /\ prev = [p \in Procs |-> IF p = Idle THEN Idle ELSE NoProc]
    /\ head = Idle
    /\ current = Idle
    /\ stack = <<>>
    /\ doing = AtRest /\ wheel = {}
    /\ timerOf = [e \in TimerEntries |-> NoProc]
    /\ primed = {}
    /\ orphaned = {} /\ order = <<Idle>> /\ torn = FALSE

\* The call in progress goes on.
GoOn ==
    \/ LinkNew \/ LinkLast \/ CloseRing
    \/ Unlink \/ Relink \/ MoveHead
    \/ AgeNext \/ SelectNext \/ Switch
    \/ \E k \in Kinds : NoneWaiting(k) \/ \E p \in Procs : FindWaiting(k, p)
    \/ ClearWaiting

\* A call begins. (Proc_Yield is also where the others end.)
Begin ==
    \/ \E p \in Procs, prio \in Priorities : ProcNew(p, prio)
    \/ ProcSleep
    \/ \E mask \in SUBSET Kinds : ProcBlockOnEvent(mask)
    \/ \E p \in Procs : ProcWakeSleeper(p) \/ ProcWakeBlocked(p)
    \/ \E e \in TimerEntries : TimerFires(e)
    \/ \E k \in Kinds : ProcUnblockEvent(k)
    \/ EntryReturns

Wheel == \E k \in WheelKinds, p \in Procs : WheelUnblocks(k, p)

Next == GoOn \/ ProcYield \/ Begin \/ Wheel

Spec == Init /\ [][Next]_vars

\* Code goes on. The main loop calls Proc_Yield in every turn that finds no event,
\* and not every turn finds one; a tasklet that is given the processor calls it or
\* returns sooner or later, whatever else they call. A primed entry expires, and
\* its callback is called once the main loop gets there.
FairSpec == /\ Spec
            /\ WF_vars(GoOn) /\ SF_vars(ProcYield)
            /\ SF_vars(\E e \in TimerEntries : TimerFires(e))

-----------------------------------------------------------------------------
(* Properties.                                                             *)

\* Both chains of links lead through the processes of q and back to the first,
\* which is gReadyQueue, and each is there once.
IsRing(q) ==
    /\ q # <<>> /\ head = q[1]
    /\ \A i, j \in DOMAIN q : q[i] = q[j] => i = j
    /\ \A i \in DOMAIN q : i > 1 => next[q[i - 1]] = q[i] /\ prev[q[i]] = q[i - 1]
    /\ next[Last(q)] = q[1] /\ prev[q[1]] = Last(q)

\* Between two calls, and until the handler has torn it, the ring holds what was
\* added and not removed, in that order: the processes that are ready or running,
\* each once, and none that sleeps, waits for an event or is free. Six operations
\* of four callers and the handler each change the states and the links in
\* several statements.
RingMatchesStates ==
    Quiet => /\ IsRing(order)
             /\ \A p \in Procs : InRing(p) <=> state[p] \in {"ready", "running"}

\* Only gCurrentProcess is running, and it is in the ring whenever a caller can
\* look: Proc_Sleep and Proc_BlockOnEvent unlink it without a test.
OnlyCurrentRuns ==
    /\ Quiet => InRing(current)
    /\ \A p \in Procs : state[p] = "running" => p = current

\* A process that has started and is not free is the process of exactly one
\* entry function on the stack: its slot is not handed out again by Proc_New
\* while the function can still return and free it.
StartedIsOnStack ==
    Quiet =>
        /\ \A i, j \in DOMAIN stack : stack[i] = stack[j] => i = j
        /\ \A p \in Procs \ {Idle} :
              (\E i \in DOMAIN stack : stack[i] = p)
                  <=> (state[p] # "free" /\ ~neverStarted[p])

\* A sleeper that has an entry in the Time Manager's table has it primed, and no
\* other process has: a timer left primed by Proc_Wake would cut a later sleep
\* short. A slot whose entry function once returned asleep has lost its timer to
\* the Time Manager and is left out of the second half.
TimersAreSleepers ==
    Quiet =>
        \A p \in Procs :
            /\ state[p] = "sleeping" => FoundAt(timerOf, p) \subseteq primed
            /\ p \notin orphaned =>
                  \A e \in primed : timerOf[e] = p => state[p] = "sleeping"

\* Checked against the header comment "round-robin scheduling and aging priority
\* system": a new process is started.
NewProcessStarts ==
    \A p \in Procs : (neverStarted[p] /\ state[p] = "ready") ~> ~neverStarted[p]
=============================================================================
