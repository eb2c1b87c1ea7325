----------------------------- MODULE EventQueue -----------------------------
(***************************************************************************)
(* The event queue (EventIntegration.c): a ring with a head, a tail and a  *)
(* count that GetNextEvent searches by rotating it, and that is shared     *)
(* without a lock by the main loop and the mouse interrupt, whose handler  *)
(* posts an update event for a turn of the scroll wheel.                   *)
(*                                                                         *)
(* The main loop's calls are cut into the steps between which an interrupt *)
(* can post. GetNextEvent first lets ProcessModernInput post (PostBegin),  *)
(* and when the queue has nothing for it makes up an update or a null      *)
(* event, which changes nothing here.                                      *)
(***************************************************************************)
EXTENDS Integers, Sequences, FiniteSets

CONSTANTS
    Kinds,      \* event codes
    QueueSize,  \* EVENT_QUEUE_SIZE
    Masks,      \* the masks given to GetNextEvent and EventAvail: sets of kinds
    Flushes,    \* the pairs <<whichMask, stopMask>> given to FlushEvents
    IrqKinds,   \* what the interrupt handler posts ({} without a wheel)
    MaxPosts    \* bound: the events that may be posted

ASSUME QueueAssumption ==
    /\ QueueSize \in Nat \ {0}
    /\ \A mask \in Masks : mask \subseteq Kinds
    /\ Flushes \subseteq (SUBSET Kinds) \X (SUBSET Kinds)
    /\ IrqKinds \subseteq Kinds
    /\ MaxPosts \in Nat
    /\ "null" \notin Kinds

VARIABLES
    slots,     \* gEventQueue
    head,      \* gQueueHead
    tail,      \* gQueueTail
    count,     \* gQueueCount
    ticks,     \* TickCount: each post has its own
    pc,        \* where the main loop is in PostEvent, DequeueEvent or FlushEvents
    posting,   \* evt, while it posts
    wanted,    \* mask, while it dequeues, and whichMask, while it flushes
    rotations, \* the events DequeueEvent has turned round
    stopMask,  \* stopMask, while it flushes
    readIdx,   \* readIdx, writeIdx and count of FlushEvents: the event it looks
    writeIdx,  \* at, where the next one it keeps belongs, and how many are left
    left,      \* to look at
    offered,   \* what EventAvail has shown, and for which mask
    owed,      \* ghost: events accepted and not yet handed out or flushed
    turned     \* ghost: GetNextEvent has taken an event from behind another

ringVars == <<slots, head, tail, count>>
searchVars == <<wanted, rotations, offered>>
flushVars == <<stopMask, readIdx, writeIdx, left>>
callVars == <<pc, posting, searchVars, flushVars>>
ghostVars == <<owed, turned>>
vars == <<ringVars, ticks, callVars, ghostVars>>

Events == [what : Kinds, when : 1 .. MaxPosts]
NoEvent == [what |-> "null", when |-> 0]
NoOffer == [mask |-> {}, event |-> NoEvent]
Indices == 0 .. QueueSize - 1

TypeOK ==
    /\ slots \in [Indices -> Events \cup {NoEvent}]
    /\ head \in Indices
    /\ tail \in Indices
    /\ count \in 0 .. QueueSize
    /\ ticks \in 0 .. MaxPosts
    /\ pc \in {"idle", "store", "tail", "count",
               "scan", "rotHead", "rotTail", "takeHead", "takeCount", "flush"}
    /\ posting \in Events \cup {NoEvent}
    /\ wanted \in SUBSET Kinds
    /\ rotations \in 0 .. QueueSize
    /\ stopMask \in SUBSET Kinds
    /\ readIdx \in Indices
    /\ writeIdx \in Indices
    /\ left \in 0 .. QueueSize
    /\ offered \in [mask : SUBSET Kinds, event : Events \cup {NoEvent}]
    /\ owed \subseteq Events
    /\ turned \in BOOLEAN

-----------------------------------------------------------------------------
(* The ring.                                                               *)

\* i % EVENT_QUEUE_SIZE, for the indices the code forms.
Wrap(i) == IF i < QueueSize THEN i ELSE i - QueueSize

\* Mutant of Succ: the ring is one slot longer than its array.
SuccPastEnd(i) == IF i = QueueSize THEN 0 ELSE i + 1

\* (i + 1) % EVENT_QUEUE_SIZE.
Succ(i) == Wrap(i + 1)

\* The events in the queue, from the head. GetNextEvent advances the head
\* before it lowers the count: the event it has taken is no longer there. While
\* FlushEvents runs, those it has kept are at the head and those it has not looked
\* at yet are where it reads.
Held == IF pc = "takeCount" THEN count - 1 ELSE count
Place(i) ==
    IF pc = "flush" /\ i > count - left
    THEN Wrap(readIdx + i - 1 - (count - left))
    ELSE Wrap(head + i - 1)
Contents == [i \in 1 .. Held |-> slots[Place(i)]]

-----------------------------------------------------------------------------
(* PostEvent.                                                              *)

\* Mutant of HasRoom: one event too many.
RoomForOneMore == count <= QueueSize

\* gQueueCount >= EVENT_QUEUE_SIZE gives evtNotEnb.
HasRoom == count < QueueSize

\* Proc_PostEventWithModifiers, called by the main loop: the test for room and
\* the record it builds.
PostBegin(k) ==
    /\ pc = "idle"
    /\ ticks < MaxPosts
    /\ HasRoom
    /\ ticks' = ticks + 1
    /\ posting' = [what |-> k, when |-> ticks + 1]
    /\ pc' = "store"
    /\ UNCHANGED <<ringVars, searchVars, flushVars, ghostVars>>

\* The copy into the slot of the tail.
PostStore ==
    /\ pc = "store"
    /\ slots' = [slots EXCEPT ![tail] = posting]
    /\ pc' = "tail"
    /\ UNCHANGED <<head, tail, count, ticks, posting, searchVars, flushVars, ghostVars>>

\* The tail moves on.
PostTail ==
    /\ pc = "tail"
    /\ tail' = Succ(tail)
    /\ pc' = "count"
    /\ UNCHANGED <<slots, head, count, ticks, posting, searchVars, flushVars, ghostVars>>

\* The event is counted, and noErr returned.
PostCount ==
    /\ pc = "count"
    /\ count' = count + 1
    /\ owed' = owed \cup {posting}
    /\ posting' = NoEvent
    /\ pc' = "idle"
    /\ UNCHANGED <<slots, head, tail, ticks, searchVars, flushVars, turned>>

\* Proc_PostEventWithModifiers called by the interrupt handler (PollPS2Input,
\* process_mouse_packet, FolderWindow_ScrollWheel): the main loop sees all of it
\* or none.
PostFromInterrupt(k) ==
    /\ ticks < MaxPosts
    /\ HasRoom
    /\ ticks' = ticks + 1
    /\ LET e == [what |-> k, when |-> ticks + 1]
       IN  /\ slots' = [slots EXCEPT ![tail] = e]
           /\ owed' = owed \cup {e}
    /\ tail' = Succ(tail)
    /\ count' = count + 1
    /\ UNCHANGED <<head, callVars, turned>>

-----------------------------------------------------------------------------
(* GetNextEvent.                                                           *)

\* DequeueEvent is entered.
GetBegin(mask) ==
    /\ pc = "idle"
    /\ wanted' = mask
    /\ rotations' = 0
    /\ pc' = "scan"
    /\ UNCHANGED <<ringVars, ticks, posting, offered, flushVars, ghostVars>>

\* Mutant of Searching: the last event is not looked at.
SearchingAllButLast == rotations + 1 < count

\* The loop's condition.
Searching == rotations < count

\* Mutant of Matches: every event will do.
MatchesAny(e) == e.what # "null"

\* (1 << what) & mask.
Matches(e) == e.what \in wanted

\* The event at the head is the caller's: it is copied out.
GetFinds ==
    /\ pc = "scan"
    /\ Searching
    /\ Matches(slots[head])
    /\ owed' = owed \ {slots[head]}
    /\ turned' = (turned \/ rotations > 0)
    /\ pc' = "takeHead"
    /\ UNCHANGED <<ringVars, ticks, posting, searchVars, flushVars>>

\* The head moves past it.
TakeHead ==
    /\ pc = "takeHead"
    /\ head' = Succ(head)
    /\ pc' = "takeCount"
    /\ UNCHANGED <<slots, tail, count, ticks, posting, searchVars, flushVars, ghostVars>>

\* It is no longer counted, and GetNextEvent returns true.
TakeCount ==
    /\ pc = "takeCount"
    /\ count' = count - 1
    /\ wanted' = {}
    /\ rotations' = 0
    /\ offered' = NoOffer
    /\ pc' = "idle"
    /\ UNCHANGED <<slots, head, tail, ticks, posting, flushVars, ghostVars>>

\* The event at the head is not: it is copied to the tail.
Rotate ==
    /\ pc = "scan"
    /\ Searching
    /\ ~Matches(slots[head])
    /\ slots' = [slots EXCEPT ![tail] = slots[head]]
    /\ pc' = "rotHead"
    /\ UNCHANGED <<head, tail, count, ticks, posting, searchVars, flushVars, ghostVars>>

RotateHead ==
    /\ pc = "rotHead"
    /\ head' = Succ(head)
    /\ pc' = "rotTail"
    /\ UNCHANGED <<slots, tail, count, ticks, posting, searchVars, flushVars, ghostVars>>

RotateTail ==
    /\ pc = "rotTail"
    /\ tail' = Succ(tail)
    /\ rotations' = rotations + 1
    /\ pc' = "scan"
    /\ UNCHANGED <<slots, head, count, ticks, posting, wanted, offered, flushVars, ghostVars>>

\* The queue has no event for the caller.
GetNothing ==
    /\ pc = "scan"
    /\ ~Searching
    /\ wanted' = {}
    /\ rotations' = 0
    /\ offered' = NoOffer
    /\ pc' = "idle"
    /\ UNCHANGED <<ringVars, ticks, posting, flushVars, ghostVars>>

-----------------------------------------------------------------------------
(* EventAvail.                                                             *)

\* Proc_EventAvail: the first event of the queue that matches, which stays.
EventAvail(mask) ==
    /\ pc = "idle"
    /\ \E i \in 1 .. Held :
          /\ Contents[i].what \in mask
          /\ \A j \in 1 .. i - 1 : Contents[j].what \notin mask
          /\ offered' = [mask |-> mask, event |-> Contents[i]]
    /\ UNCHANGED <<ringVars, ticks, pc, posting, wanted, rotations, flushVars, ghostVars>>

-----------------------------------------------------------------------------
(* FlushEvents.                                                            *)

\* Proc_FlushEvents is entered.
FlushBegin(which, stop) ==
    /\ pc = "idle"
    /\ wanted' = which
    /\ stopMask' = stop
    /\ readIdx' = head
    /\ writeIdx' = head
    /\ left' = count
    /\ offered' = NoOffer
    /\ pc' = "flush"
    /\ UNCHANGED <<ringVars, ticks, posting, rotations, ghostVars>>

\* The loop goes on: an event is left, and it is not one to stop at.
Flushing == pc = "flush" /\ left > 0 /\ slots[readIdx].what \notin stopMask

\* The event that is looked at stays: it moves up to those kept before it.
FlushKeeps ==
    /\ Flushing
    /\ ~Matches(slots[readIdx])
    /\ slots' = [slots EXCEPT ![writeIdx] = slots[readIdx]]
    /\ writeIdx' = Succ(writeIdx)
    /\ readIdx' = Succ(readIdx)
    /\ left' = left - 1
    /\ UNCHANGED <<head, tail, count, ticks, pc, posting, searchVars,
                   stopMask, ghostVars>>

\* It goes.
FlushDrops ==
    /\ Flushing
    /\ Matches(slots[readIdx])
    /\ count' = count - 1
    /\ owed' = owed \ {slots[readIdx]}
    /\ readIdx' = Succ(readIdx)
    /\ left' = left - 1
    /\ UNCHANGED <<slots, head, tail, ticks, pc, posting, searchVars,
                   stopMask, writeIdx, turned>>

\* Mutant of FlushedTail: the tail stays where it was.
TailStays == tail

\* The tail comes behind the events kept. Nothing is stored when the two indices
\* are equal, as they are when a full queue is emptied.
FlushedTail == IF writeIdx = readIdx THEN tail ELSE writeIdx

FlushEnds ==
    /\ pc = "flush"
    /\ ~Flushing
    /\ tail' = FlushedTail
    /\ wanted' = {}
    /\ stopMask' = {}
    /\ readIdx' = 0
    /\ writeIdx' = 0
    /\ left' = 0
    /\ pc' = "idle"
    /\ UNCHANGED <<slots, head, count, ticks, posting, rotations, offered, ghostVars>>

-----------------------------------------------------------------------------

\* Event_InitQueue.
Init ==
    /\ slots = [i \in Indices |-> NoEvent]
    /\ head = 0
    /\ tail = 0
    /\ count = 0
    /\ ticks = 0
    /\ pc = "idle"
    /\ posting = NoEvent
    /\ wanted = {}
    /\ rotations = 0
    /\ stopMask = {}
    /\ readIdx = 0
    /\ writeIdx = 0
    /\ left = 0
    /\ offered = NoOffer
    /\ owed = {}
    /\ turned = FALSE

Next ==
    \/ \E k \in Kinds : PostBegin(k)
    \/ PostStore
    \/ PostTail
    \/ PostCount
    \/ \E k \in IrqKinds : PostFromInterrupt(k)
    \/ \E mask \in Masks : GetBegin(mask) \/ EventAvail(mask)
    \/ GetFinds
    \/ TakeHead
    \/ TakeCount
    \/ Rotate
    \/ RotateHead
    \/ RotateTail
    \/ GetNothing
    \/ \E f \in Flushes : FlushBegin(f[1], f[2])
    \/ FlushKeeps
    \/ FlushDrops
    \/ FlushEnds

Spec == Init /\ [][Next]_vars

-----------------------------------------------------------------------------
(* Properties.                                                             *)

\* Head, tail and count agree wherever the main loop is: the tail is count slots
\* behind the head, but for the one step by which a call is ahead with one of
\* the three, and while FlushEvents moves events up, when what it has not looked
\* at ends at the tail and what stays will end count slots behind the head. The
\* copies of a rotation never land on an event that waits.
RingAgrees ==
    IF pc = "flush"
    THEN /\ tail = Wrap(readIdx + left)
         /\ Wrap(writeIdx + left) = Wrap(head + count)
    ELSE tail = Wrap(head + (IF pc = "count" THEN count + 1
                             ELSE IF pc \in {"rotTail", "takeCount"} THEN count - 1
                             ELSE count))

\* Every event PostEvent has accepted is in the queue exactly once until
\* GetNextEvent hands it out or FlushEvents removes it, however the ring is
\* turned; nothing else is in it.
EachOnce ==
    pc = "idle" =>
        /\ {Contents[i] : i \in 1 .. count} = owed
        /\ \A i, j \in 1 .. count : Contents[i] = Contents[j] => i = j

\* What EventAvail has shown is what the next GetNextEvent with that mask takes,
\* whatever was posted in between; desktop_manager.c drains a mouseUp that way.
OfferIsKept ==
    (pc = "takeHead" /\ offered.mask = wanted /\ offered # NoOffer)
        => slots[head] = offered.event

\* The queue keeps the order of the posts until a GetNextEvent with a selective
\* mask takes an event from behind others: a search that finds nothing turns the
\* ring all the way round, and FlushEvents keeps the order of what it leaves.
PostOrderIsKept ==
    (pc = "idle" /\ ~turned) =>
        \A i, j \in 1 .. count : i < j => Contents[i].when < Contents[j].when

\* Checked against "if (gQueueCount >= EVENT_QUEUE_SIZE) ... Queue full, dropping
\* event": an event is lost only when the queue is full, and then evtNotEnb says
\* so; one for which PostEvent returns noErr is in the queue.
AcceptedIsQueued ==
    pc = "idle" => owed \subseteq {Contents[i] : i \in 1 .. count}

\* The ring implements a set of events: a call takes one event it asked for, and
\* takes none only when the set has none, so a rotation that ended early, or that
\* lost or doubled an event, would not be a step of EventStore.
Store == {Contents[i] : i \in 1 .. Held}
Asking == IF pc \in {"scan", "rotHead", "rotTail", "takeHead"} THEN <<wanted>> ELSE <<>>
Dropping == IF pc = "flush" THEN <<wanted>> ELSE <<>>
Service == INSTANCE EventStore WITH
    Capacity <- QueueSize,
    store <- Store,
    asked <- Asking,
    flushing <- Dropping
ImplementsStore == Service!Spec
=============================================================================
