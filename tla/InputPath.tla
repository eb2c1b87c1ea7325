----------------------------- MODULE InputPath ------------------------------
(***************************************************************************)
(* The path of the user's input on x86: the PS/2 interrupt handler         *)
(* (ps2.c) records what the mouse and the keyboard do, and                 *)
(* ProcessModernInput (ModernInput.c), called by the main loop and by      *)
(* every GetNextEvent, turns it into calls of PostEvent.                   *)
(*                                                                         *)
(* The handler runs to its end between two steps of the main loop. The     *)
(* mouse is a level with a latch of presses, the keyboard a ring of        *)
(* transitions with one producer and one consumer. Scancodes, positions,   *)
(* click counts and caps lock are left out; what becomes of a posted event *)
(* is the subject of EventQueue, and `posted' is the last call.            *)
(***************************************************************************)
EXTENDS Naturals, FiniteSets

CONSTANTS
    Buttons,    \* mouse buttons
    Left,       \* the one that ModernInput reports
    Keys,       \* keys
    Modifiers,  \* those that are modifiers
    RingSize,   \* kKeyRingSize
    MaxMoves    \* bound: what the user may do

ASSUME InputAssumption ==
    /\ Left \in Buttons
    /\ Modifiers \subseteq Keys
    /\ RingSize \in Nat \ {0, 1}
    /\ MaxMoves \in Nat

VARIABLES
    buttons,        \* g_mouseState.buttons
    pendingPress,   \* g_pendingPress
    keyMap,         \* the keys that are down
    keyRing,        \* g_keyRing
    keyHead,        \* g_keyRingHead
    keyTail,        \* g_keyRingTail
    moves,          \* what the user has done
    lastButtons,    \* g_modernInput.lastButtonState
    currentButtons, \* gCurrentButtons
    lastKeyMap,     \* g_modernInput.lastKeyMap, and `running' while it replays
    downThisTick,   \* the last mouseDown was in this tick, at this position
    tracking,       \* gInMouseTracking
    pc,             \* where ProcessModernInput is
    level, pending, \* the locals of GetMouseButtonsLatched
    transition,     \* the local v of PS2_DequeueKeyTransition
    posted,         \* the last event given to PostEvent
    unreported,     \* ghost: pressed since GetMouseButtonsLatched last returned it down
    late,           \* ghost: of those, pressed after a poll had read the latch it cleared
    keysLost        \* ghost: the ring was full

irqVars == <<buttons, pendingPress, keyMap, keyRing, keyHead, keyTail, moves>>
inputVars == <<lastButtons, currentButtons, lastKeyMap, downThisTick, tracking>>
localVars == <<pc, level, pending, transition, posted>>
pressVars == <<unreported, late>>
ghostVars == <<pressVars, keysLost>>
vars == <<irqVars, inputVars, localVars, ghostVars>>

RingIndices == 0 .. RingSize - 1
\* `held' is a ghost: the modifiers that were down after the transition.
Transitions == [key : Keys, down : BOOLEAN, held : SUBSET Modifiers]
NoTransition == [key |-> "none", down |-> FALSE, held |-> {}]
KeyEvents == [what : {"keyDown", "keyUp"}, modifiers : SUBSET Modifiers,
              held : SUBSET Modifiers]
MouseEvent(what) == [what |-> what, modifiers |-> {}, held |-> {}]

TypeOK ==
    /\ buttons \subseteq Buttons
    /\ pendingPress \subseteq Buttons
    /\ keyMap \subseteq Keys
    /\ keyRing \in [RingIndices -> Transitions \cup {NoTransition}]
    /\ keyHead \in RingIndices
    /\ keyTail \in RingIndices
    /\ moves \in 0 .. MaxMoves
    /\ lastButtons \subseteq Buttons
    /\ currentButtons \subseteq Buttons
    /\ lastKeyMap \subseteq Keys
    /\ downThisTick \in BOOLEAN
    /\ tracking \in BOOLEAN
    /\ pc \in {"idle", "pending", "buttons", "keys", "replay"}
    /\ level \subseteq Buttons
    /\ pending \subseteq Buttons
    /\ transition \in Transitions \cup {NoTransition}
    /\ posted \in KeyEvents \cup {MouseEvent(w) : w \in {"none", "mouseDown", "mouseUp"}}
    /\ unreported \subseteq Buttons
    /\ late \subseteq unreported
    /\ keysLost \in BOOLEAN

-----------------------------------------------------------------------------
(* The PS/2 interrupt.                                                     *)

\* The presses latched after a packet that brings the buttons new.
Latched(new) == pendingPress \cup (new \ buttons)

\* process_mouse_packet, for a packet in which the buttons have changed.
MouseInterrupt(new) ==
    /\ moves < MaxMoves
    /\ new # buttons
    /\ buttons' = new
    /\ pendingPress' = Latched(new)
    /\ moves' = moves + 1
    /\ unreported' = unreported \cup (new \ buttons)
    /\ late' = IF pc = "buttons" THEN late \cup (new \ buttons) ELSE late \ (new \ buttons)
    /\ UNCHANGED <<keyMap, keyRing, keyHead, keyTail, inputVars, localVars, keysLost>>

\* Mutant of NextIndex: the index does not wrap.
IndexPastEnd(i) == i + 1

\* (i + 1) % kKeyRingSize.
NextIndex(i) == IF i + 1 = RingSize THEN 0 ELSE i + 1

\* Mutant of RingIsFull: the slot that tells a full ring from an empty one is used.
RingNeverFull == FALSE

RingIsFull == NextIndex(keyHead) = keyTail

\* process_keyboard_scancode, for the code of a key that goes down (or repeats)
\* or up: UpdateKeyMapState and PushKeyTransition.
KeyInterrupt(k, down) ==
    /\ moves < MaxMoves
    /\ down \/ k \in keyMap
    /\ keyMap' = IF down THEN keyMap \cup {k} ELSE keyMap \ {k}
    /\ moves' = moves + 1
    /\ IF RingIsFull
       THEN /\ keysLost' = TRUE
            /\ UNCHANGED <<keyRing, keyHead>>
       ELSE /\ keyRing' = [keyRing EXCEPT ![keyHead] =
                  [key |-> k, down |-> down, held |-> keyMap' \cap Modifiers]]
            /\ keyHead' = NextIndex(keyHead)
            /\ UNCHANGED keysLost
    /\ UNCHANGED <<buttons, pendingPress, keyTail, inputVars, localVars, pressVars>>

\* The tick counter or the pointer moves on.
TickPasses ==
    /\ downThisTick
    /\ downThisTick' = FALSE
    /\ UNCHANGED <<irqVars, lastButtons, currentButtons, lastKeyMap, tracking,
                   localVars, ghostVars>>

-----------------------------------------------------------------------------
(* ProcessModernInput.                                                     *)

\* It is called: GetMouseButtonsLatched reads the level. A drag loop calls it
\* only while it sees the button down.
PollLevel ==
    /\ pc = "idle"
    /\ tracking => Left \in currentButtons
    /\ level' = buttons
    /\ late' = late \ buttons
    /\ pc' = "pending"
    /\ UNCHANGED <<irqVars, inputVars, pending, transition, posted, unreported, keysLost>>

\* ... then the latch ...
PollPending ==
    /\ pc = "pending"
    /\ pending' = pendingPress
    /\ pc' = "buttons"
    /\ UNCHANGED <<irqVars, inputVars, level, transition, posted, ghostVars>>

\* What GetMouseButtonsLatched returns.
Sampled == level \cup pending

\* PostEvent, unless a drag loop tracks the mouse.
PostMouse(what) == posted' = IF tracking THEN posted ELSE MouseEvent(what)

\* The button was up in the last poll and is not now. A second press in the same
\* tick and place is taken for a bounce, and the call returns at once.
ReportDown ==
    /\ Left \in Sampled \ lastButtons
    /\ \/ /\ downThisTick
          /\ pc' = "idle"
          /\ UNCHANGED <<posted, downThisTick>>
       \/ /\ ~downThisTick
          /\ PostMouse("mouseDown")
          /\ downThisTick' = TRUE
          /\ pc' = "keys"

\* The button was down and is not now.
ReportUp ==
    /\ Left \in lastButtons \ Sampled
    /\ PostMouse("mouseUp")
    /\ pc' = "keys"
    /\ UNCHANGED downThisTick

ReportNothing ==
    /\ Left \in Sampled <=> Left \in lastButtons
    /\ pc' = "keys"
    /\ UNCHANGED <<posted, downThisTick>>

\* Mutants of Cleared: the latch is left as it is; it is cleared in every call.
StillLatched == pendingPress
AlwaysCleared == {}

\* ... which it clears if there was a press in it when it was read.
Cleared == IF pending # {} THEN {} ELSE pendingPress

\* The poll goes on with what GetMouseButtonsLatched returns.
PollButtons ==
    /\ pc = "buttons"
    /\ pendingPress' = Cleared
    /\ currentButtons' = Sampled
    /\ lastButtons' = Sampled
    /\ ReportDown \/ ReportUp \/ ReportNothing
    /\ unreported' = unreported \ (Sampled \ late)
    /\ late' = IF pending # {} THEN late ELSE late \ pendingPress
    /\ level' = {}
    /\ pending' = {}
    /\ UNCHANGED <<buttons, keyMap, keyRing, keyHead, keyTail, moves, lastKeyMap,
                   tracking, transition, keysLost>>

\* PS2_DequeueKeyTransition reads the slot of the tail.
KeyRead ==
    /\ pc = "keys"
    /\ keyTail # keyHead
    /\ transition' = keyRing[keyTail]
    /\ pc' = "replay"
    /\ UNCHANGED <<irqVars, inputVars, level, pending, posted, ghostVars>>

\* Mutant of Replayed: one sample of the keyboard serves for all transitions.
SampledKeyMap == keyMap

\* The key map with the transition applied to it.
Replayed ==
    IF transition.down THEN lastKeyMap \cup {transition.key}
                       ELSE lastKeyMap \ {transition.key}

\* The tail moves on, the key map follows, and an event is posted with the
\* modifiers of that key map, unless the key is a modifier. (The side table of
\* KeyboardEvents.c is never initialised: ProcessRawKeyboardEvent returns 0.)
KeyReplay ==
    /\ pc = "replay"
    /\ keyTail' = NextIndex(keyTail)
    /\ lastKeyMap' = Replayed
    /\ posted' = IF transition.key \in Modifiers THEN posted
                 ELSE [what |-> IF transition.down THEN "keyDown" ELSE "keyUp",
                       modifiers |-> Replayed \cap Modifiers,
                       held |-> transition.held]
    /\ transition' = NoTransition
    /\ pc' = "keys"
    /\ UNCHANGED <<buttons, pendingPress, keyMap, keyRing, keyHead, moves,
                   lastButtons, currentButtons, downThisTick, tracking, level,
                   pending, ghostVars>>

\* The ring is empty, and ProcessModernInput returns.
KeysDone ==
    /\ pc = "keys"
    /\ keyTail = keyHead
    /\ pc' = "idle"
    /\ UNCHANGED <<irqVars, inputVars, level, pending, transition, posted, ghostVars>>

\* TrackIconDragSync sets and clears gInMouseTracking; it gives up a drag after
\* MAX_DRAG_ITERATIONS polls.
TrackBegin ==
    /\ pc = "idle" /\ ~tracking
    /\ Left \in currentButtons
    /\ tracking' = TRUE
    /\ UNCHANGED <<irqVars, lastButtons, currentButtons, lastKeyMap, downThisTick,
                   localVars, ghostVars>>

TrackEnd ==
    /\ pc = "idle" /\ tracking
    /\ tracking' = FALSE
    /\ UNCHANGED <<irqVars, lastButtons, currentButtons, lastKeyMap, downThisTick,
                   localVars, ghostVars>>

-----------------------------------------------------------------------------

\* After InitPS2Controller and InitModernInput.
Init ==
    /\ buttons = {}
    /\ pendingPress = {}
    /\ keyMap = {}
    /\ keyRing = [i \in RingIndices |-> NoTransition]
    /\ keyHead = 0
    /\ keyTail = 0
    /\ moves = 0
    /\ lastButtons = {}
    /\ currentButtons = {}
    /\ lastKeyMap = {}
    /\ downThisTick = FALSE
    /\ tracking = FALSE
    /\ pc = "idle"
    /\ level = {}
    /\ pending = {}
    /\ transition = NoTransition
    /\ posted = MouseEvent("none")
    /\ unreported = {}
    /\ late = {}
    /\ keysLost = FALSE

Poll ==
    \/ PollLevel
    \/ PollPending
    \/ PollButtons
    \/ KeyRead
    \/ KeyReplay
    \/ KeysDone

Next ==
    \/ \E new \in SUBSET Buttons : MouseInterrupt(new)
    \/ \E k \in Keys, down \in BOOLEAN : KeyInterrupt(k, down)
    \/ TickPasses
    \/ Poll
    \/ TrackBegin
    \/ TrackEnd

Spec == Init /\ [][Next]_vars

\* The main loop calls ProcessModernInput in every turn, and a drag loop ends.
FairSpec == Spec /\ WF_vars(Poll) /\ WF_vars(TrackEnd)

-----------------------------------------------------------------------------
(* Properties.                                                             *)

\* The key transitions on their way, oldest first.
InRing == IF keyHead >= keyTail THEN keyHead - keyTail ELSE keyHead + RingSize - keyTail
OnTheWay(i) == keyRing[IF keyTail + i < RingSize THEN keyTail + i
                                               ELSE keyTail + i - RingSize]

\* Nothing is lost, doubled or put out of order between the interrupt and the
\* replay, wherever the interrupt falls: the replayed key map with the
\* transitions that wait applied to it is the keyboard's, until the ring has
\* overflowed.
RingCarriesKeyMap ==
    keysLost \/ \A k \in Keys :
        LET of == {i \in 0 .. InRing - 1 : OnTheWay(i).key = k}
        IN  k \in keyMap <=>
              IF of = {} THEN k \in lastKeyMap
              ELSE OnTheWay(CHOOSE i \in of : \A j \in of : j <= i).down

\* A key event carries the modifiers that were down when its key moved, however
\* late it is replayed and whatever is down by then, until the ring has overflowed.
ModifiersWereInEffect == keysLost \/ posted.modifiers = posted.held

\* A press that no GetMouseButtonsLatched has returned yet is in the latch, or has
\* been read by the call under way, although the button may be up again: whenever
\* it comes, but for one that comes after a call has read the latch and before the
\* same call clears it: that one is lost, unless its button is still down (ps2.c:119
\* has "reported at least once whatever the poll timing").
PressStaysLatched == unreported \ late \subseteq pendingPress \cup level \cup pending

\* When the user's hands rest, what ProcessModernInput has reported comes to agree
\* with the mouse and the keyboard: no button or key stays down for it, and every
\* press has been returned but those that came between a read and its clear.
ReportSettles ==
    <>[](/\ lastButtons = buttons
         /\ keysLost \/ lastKeyMap = keyMap
         /\ unreported \subseteq late)
=============================================================================
