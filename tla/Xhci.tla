------------------------------- MODULE Xhci -------------------------------
(***************************************************************************)
(* The USB 3 host controller driver of the x86 build (Platform/x86/xhci.c) *)
(* after enumeration, with keyboards and mice on interrupt pipes and one   *)
(* bulk-only disk.  Driver and controller share rings of transfer request  *)
(* blocks (TRBs) in memory: a TRB belongs to the controller when its cycle *)
(* bit is the one the controller expects, which a link TRB at the end of   *)
(* the ring toggles; completions come back the same way in one event ring  *)
(* for all devices.  The driver is polled: by the main loop for the        *)
(* keyboards and mice, and by a disk transfer that waits for its own.      *)
(*                                                                         *)
(* Every enqueue is followed by the endpoint's doorbell in the same step,  *)
(* so a TRB the controller can see is one it may take.  Controller and     *)
(* devices are not part of the tree: they are as slow as they like, and    *)
(* the disk follows the bulk-only protocol and refuses what is out of turn.*)
(***************************************************************************)
EXTENDS Integers, Sequences, FiniteSets, SequencesExt

CONSTANTS
    Keyboards, Mice,  \* devices of g_hid_kbd and g_hid_mouse
    SlotOf,           \* the slot of each
    DiskSlot,         \* the disk's
    RingSize,         \* TRBs in a transfer ring, the last one for the link (32)
    EventRingSize,    \* TRBs in the event ring (32)
    Burst,            \* events xhci_hid_poll_events takes at most (32)
    HaltsCleared,     \* endpoints xhci_msc_recover_bot clears
    Retries,          \* tests of xhci_msc_retry_not_ready (3)
    Blocks,           \* blocks of the disk
    MaxCalls,         \* bound: reads and writes of the disk
    MaxTimeouts       \* bound: transfers that time out before the disk takes no more

Hids == Keyboards \cup Mice
HidSlots == {SlotOf[h] : h \in Hids}
Bulk == {"out", "in"}
Endpoints == Hids \cup Bulk

ASSUME XhciAssumption ==
    /\ Keyboards \cap Mice = {} /\ Hids \cap (Bulk \cup {"ep0"}) = {}
    /\ DOMAIN SlotOf = Hids /\ \A h \in Hids : SlotOf[h] # DiskSlot
    /\ \A g, h \in Keyboards : SlotOf[g] = SlotOf[h] => g = h
    /\ \A g, h \in Mice : SlotOf[g] = SlotOf[h] => g = h
    /\ RingSize \in Nat \ {0, 1, 2} /\ EventRingSize \in Nat \ {0, 1}
    /\ Burst \in Nat \ {0} /\ HaltsCleared \in Nat \ {0} /\ Retries \in Nat \ {0}
    /\ MaxCalls \in Nat /\ MaxTimeouts \in Nat

VARIABLES
    ring,       \* the driver's rings: TRBs, ring_index and cycle of each endpoint
    taker,      \* where the controller is in each of them, and the cycle bit it expects
    control,    \* the requests on EP0's ring that are not done
    events,     \* the event ring, g_evt_ring_index and g_evt_cycle
    poster,     \* where the controller posts the next event, and with which cycle bit
    fifo,       \* history: the endpoints whose events were posted and not yet taken
    pending,    \* of each keyboard and mouse: a report is asked for
    swallowed,  \* history: how many reports of each slot a waiting disk transfer took
    polls       \* events the main loop's poll may still take; 0 outside it

VARIABLES
    call,       \* the disk call: its stage, or its result when it has returned
    buffer,     \* what its caller's buffer holds
    csw,        \* what the driver's status buffer holds
    sense,      \* what its buffer for sense data holds
    senseKey,   \* last_sense_key: that of the last REQUEST SENSE that succeeded
    device,     \* the disk's side of the protocol
    disk,       \* what its blocks hold
    calm,       \* history: no transfer of the disk timed out, and no recovery was tried
    patience    \* of MaxTimeouts

usbVars == <<ring, taker, control, events, poster, fifo>>
hidVars == <<pending, swallowed, polls>>
diskVars == <<call, buffer, csw, sense, senseKey, device, disk, calm, patience>>
vars == <<usbVars, hidVars, diskVars>>

Data == {<<"data", n>> : n \in 0..MaxCalls} \cup {<<"junk">>}
Commands == {<<"cbw", op, b>> : op \in {"read", "write"}, b \in Blocks} 
            \cup {<<"cbw", "sense">>, <<"cbw", "test">>}
Targets == {<<"caller", n>> : n \in 1..MaxCalls} \cup {<<"sense">>, <<"csw">>, <<"report">>}
TRBs == [type : {"none", "normal", "link"}, cycle : 0..1,
         what : Data \cup Commands \cup Targets \cup {<<>>}]
Waiting == {"cbw", "data", "csw", "sense", "sense_data", "sense_csw", "test", "test_csw",
            "reset", "clear"}
Over == {"none", "noErr", "ioErr"}
Keys == {"notReady", "other"}

\* Rings, indices and buffers hold what the code's types allow, each index in
\* its ring.
TypeOK ==
    /\ \A e \in Endpoints : /\ ring[e].trbs \in [0..(RingSize - 1) -> TRBs]
                            /\ ring[e].index \in 0..(RingSize - 1) /\ ring[e].cycle \in 0..1
    /\ taker \in [Endpoints -> [at : 0..(RingSize - 1), cycle : 0..1]]
    /\ control \in Seq({"reset", "clear"})
    /\ events.trbs \in [0..(EventRingSize - 1) -> [cycle : 0..1, ep : Endpoints \cup {"ep0", "none"}]]
    /\ events.index \in 0..(EventRingSize - 1) /\ events.cycle \in 0..1
    /\ poster \in [at : 0..(EventRingSize - 1), cycle : 0..1]
    /\ fifo \in Seq(Endpoints \cup {"ep0"})
    /\ pending \in [Hids -> BOOLEAN] /\ swallowed \in [HidSlots -> Nat]
    /\ polls \in 0..Burst
    /\ call.stage \in Waiting \cup {"failed"} \cup Over /\ call.n \in 0..MaxCalls
    /\ call.within \in Seq([left : 0..(Retries - 1), recovered : BOOLEAN])
    /\ buffer \in Data \cup {<<>>, <<"sense">>, <<"good">>, <<"bad">>}
    /\ csw \in {<<>>, <<"good">>, <<"bad">>, <<"junk">>}
    /\ sense \in Keys \cup {"none"} /\ senseKey \in Keys
    /\ device.phase \in {"idle", "out", "in", "status", "hung"}
    /\ disk \in [Blocks -> Data] /\ calm \in BOOLEAN /\ patience \in 0..MaxTimeouts

----------------------------------------------------------------------------
(* The rings. *)

Trb(type, cycle, what) == [type |-> type, cycle |-> cycle, what |-> what]

\* Mutants: the link is written one TRB too late, past the end of the ring; and,
\* as on the bulk rings, always with cycle bit 1.
HidEnqueuePastEnd(r, what) ==
    [trbs |-> [r.trbs EXCEPT ![r.index % RingSize] = Trb("normal", r.cycle, what)],
     index |-> r.index + 1, cycle |-> r.cycle]
HidEnqueueLinkOfOne(r, what) ==
    LET turned == r.index >= RingSize - 1
        i == IF turned THEN 0 ELSE r.index
        c == IF turned THEN 1 - r.cycle ELSE r.cycle
        linked == IF turned THEN [r.trbs EXCEPT ![r.index] = Trb("link", 1, <<>>)] ELSE r.trbs
    IN [trbs |-> [linked EXCEPT ![i] = Trb("normal", c, what)], index |-> i + 1, cycle |-> c]

\* xhci_hid_enqueue_interrupt_in: the link is written when the next TRB would
\* take its place, with the cycle bit of the lap it ends.
HidEnqueue(r, what) ==
    LET turned == r.index >= RingSize - 1
        i == IF turned THEN 0 ELSE r.index
        c == IF turned THEN 1 - r.cycle ELSE r.cycle
        linked == IF turned
                  THEN [r.trbs EXCEPT ![r.index] = Trb("link", r.cycle, <<>>)]
                  ELSE r.trbs
    IN [trbs |-> [linked EXCEPT ![i] = Trb("normal", c, what)], index |-> i + 1, cycle |-> c]

\* xhci_msc_enqueue_out and xhci_msc_enqueue_in: the link is written behind the
\* last TRB, with cycle bit 1 in every lap.
MscEnqueue(r, what) ==
    LET put == [r.trbs EXCEPT ![r.index] = Trb("normal", r.cycle, what)]
        i == r.index + 1
    IN IF i >= RingSize - 1
       THEN [trbs |-> [put EXCEPT ![i] = Trb("link", 1, <<>>)], index |-> 0, cycle |-> 1 - r.cycle]
       ELSE [trbs |-> put, index |-> i, cycle |-> r.cycle]

\* What the controller does with a ring: it follows a link that is its own and
\* takes the TRB it finds there if that one is.
Followed(trbs, t) ==
    IF trbs[t.at].type = "link" /\ trbs[t.at].cycle = t.cycle
    THEN [at |-> 0, cycle |-> 1 - t.cycle] ELSE t
Ready(trbs, t) ==
    LET f == Followed(trbs, t) IN trbs[f.at].type = "normal" /\ trbs[f.at].cycle = f.cycle
Passed(trbs, t) == [Followed(trbs, t) EXCEPT !.at = @ + 1]
Taken(e) == ring[e].trbs[Followed(ring[e].trbs, taker[e]).at].what

\* Mutant: the cycle bit is not toggled at the end of the ring.
AdvancedSameCycle(p, size) == [p EXCEPT !.at = (@ + 1) % size]

\* The next place of the event ring, for the driver and for the controller.
Advanced(p, size) == IF p.at + 1 >= size THEN [at |-> 0, cycle |-> 1 - p.cycle]
                     ELSE [p EXCEPT !.at = @ + 1]

EventThere == events.trbs[events.index].cycle = events.cycle
EventSlot == LET e == events.trbs[events.index].ep IN IF e \in Hids THEN SlotOf[e] ELSE DiskSlot

\* Taking an event: the index moves on, and the controller is told by ERDP.
TakeEvent ==
    /\ EventThere
    /\ LET next == Advanced([at |-> events.index, cycle |-> events.cycle], EventRingSize)
       IN events' = [events EXCEPT !.index = next.at, !.cycle = next.cycle]
    /\ fifo' = Tail(fifo)

\* The controller keeps one place free, so that full is not empty.
PostEvent(e) ==
    /\ (poster.at + 1) % EventRingSize # events.index
    /\ events' = [events EXCEPT !.trbs[poster.at] = [cycle |-> poster.cycle, ep |-> e]]
    /\ poster' = Advanced(poster, EventRingSize)
    /\ fifo' = Append(fifo, e)

----------------------------------------------------------------------------
(* The main loop's poll, xhci_poll_hid_x86. *)

Idle == polls = 0 /\ call.stage \in Over

\* xhci_hid_submit: one report is asked for at a time.
Submitted(h) == IF pending[h] THEN ring[h] ELSE HidEnqueue(ring[h], <<"report">>)

PollHid ==
    /\ Idle
    /\ ring' = [e \in Endpoints |-> IF e \in Hids THEN Submitted(e) ELSE ring[e]]
    /\ pending' = [h \in Hids |-> TRUE]
    /\ polls' = Burst
    /\ UNCHANGED <<taker, control, events, poster, fifo, swallowed, diskVars>>

\* xhci_hid_find_by_slot: a pending keyboard is tried before a mouse, and only
\* the slot of the event is looked at.
Receiver(h) ==
    /\ SlotOf[h] = EventSlot
    /\ IF h \in Keyboards THEN pending[h]
       ELSE \A k \in Keyboards : SlotOf[k] = EventSlot => ~pending[k]

\* xhci_hid_poll_events: the report is handled and the next one asked for.
HandleReport(h) ==
    /\ polls > 0 /\ EventThere /\ Receiver(h)
    /\ TakeEvent
    /\ ring' = [ring EXCEPT ![h] = HidEnqueue(@, <<"report">>)]
    /\ pending' = [pending EXCEPT ![h] = TRUE]
    /\ polls' = polls - 1
    /\ UNCHANGED <<taker, control, poster, swallowed, diskVars>>

\* A late event of the disk is dropped.
DropEvent ==
    /\ polls > 0 /\ EventThere /\ \A h \in Hids : ~Receiver(h)
    /\ TakeEvent
    /\ polls' = polls - 1
    /\ UNCHANGED <<ring, taker, control, poster, pending, swallowed, diskVars>>

PollEnds ==
    /\ polls > 0 /\ ~EventThere
    /\ polls' = 0
    /\ UNCHANGED <<usbVars, pending, swallowed, diskVars>>

----------------------------------------------------------------------------
(* A disk call: xhci_msc_read_blocks_internal or _write_blocks_internal, of *)
(* one chunk.  Each transfer is put on a ring and waited for.  When one     *)
(* fails, the driver asks for sense data, and on a disk that is not ready   *)
(* xhci_msc_retry_not_ready runs TEST UNIT READY a few times, which does    *)
(* the same when it fails: `within` has the tests that go on, one inside    *)
(* the other, the tests left to each and whether it tried a recovery.       *)

\* xhci_msc_send_cbw, xhci_msc_bulk_transfer and xhci_ep0_control_no_data: the
\* endpoint the transfer of a stage goes to, and what its TRB names.
PipeOf(c) ==
    CASE c.stage \in {"cbw", "sense", "test"} -> "out"
      [] c.stage = "data" -> IF c.op = "write" THEN "out" ELSE "in"
      [] c.stage \in {"csw", "sense_data", "sense_csw", "test_csw"} -> "in"
      [] OTHER -> "ep0"
Payload(c) ==
    CASE c.stage = "cbw" -> <<"cbw", c.op, c.block>>
      [] c.stage = "data" -> IF c.op = "write" THEN <<"data", c.n>> ELSE <<"caller", c.n>>
      [] c.stage = "sense" -> <<"cbw", "sense">>
      [] c.stage = "test" -> <<"cbw", "test">>
      [] c.stage = "sense_data" -> <<"sense">>
      [] c.stage \in {"csw", "sense_csw", "test_csw"} -> <<"csw">>
Enqueued(c, rings) ==
    IF PipeOf(c) \in Bulk THEN [rings EXCEPT ![PipeOf(c)] = MscEnqueue(@, Payload(c))] ELSE rings

\* xhci_msc_recover_bot ends with both rings at their first TRB; the controller
\* is not told.
Rewound(rings) == [e \in Endpoints |-> IF e \in Bulk THEN [rings[e] EXCEPT !.index = 0, !.cycle = 1]
                                      ELSE rings[e]]

\* xhci_msc_test_unit_ready is called, with `left` more calls to follow if it fails.
Testing(c, within, left) ==
    [c EXCEPT !.stage = "test", !.within = Append(within, [left |-> left, recovered |-> FALSE])]

\* The command, or the test, has failed and its disk is not "not ready": recovered
\* once (tried_fallback, recovered), and it is tried again; the next time it is over.
Recovery(c) ==
    IF c.within = <<>>
    THEN [c EXCEPT !.stage = IF c.tried THEN "ioErr" ELSE "reset", !.halts = HaltsCleared]
    ELSE [c EXCEPT !.stage = IF Last(c.within).recovered THEN "failed" ELSE "reset",
                   !.halts = HaltsCleared]
Clearing(c) ==
    IF c.halts > 0 THEN [c EXCEPT !.stage = "clear", !.halts = @ - 1]
    ELSE IF c.within = <<>> THEN [c EXCEPT !.stage = "cbw", !.tried = TRUE]
    ELSE [c EXCEPT !.stage = "test",
                   !.within = Append(Front(@), [Last(@) EXCEPT !.recovered = TRUE])]

\* xhci_msc_retry_not_ready, after REQUEST SENSE has succeeded or failed.
Sensed(c, key) == IF key = "notReady" THEN Testing(c, c.within, Retries - 1) ELSE Recovery(c)

\* xhci_msc_parse_sense, when the status block of REQUEST SENSE is good.
Parsed == IF call.stage = "sense_csw" /\ csw = <<"good">> /\ sense \in Keys THEN sense ELSE senseKey

\* Mutant: the status block of a command is received and not looked at.
StatusUnread(c) ==
    LET after == [cbw |-> "data", data |-> "csw", csw |-> "noErr", sense |-> "sense_data",
                  sense_data |-> "sense_csw", test |-> "test_csw"]
    IN CASE c.stage \in DOMAIN after -> [c EXCEPT !.stage = after[c.stage]]
         [] c.stage = "sense_csw" -> Sensed(c, Parsed)
         [] c.stage = "test_csw" -> IF csw = <<"good">> THEN [c EXCEPT !.stage = "cbw", !.within = <<>>]
                                    ELSE [c EXCEPT !.stage = "sense"]
         [] c.stage \in {"reset", "clear"} -> Clearing(c)

\* What follows a transfer that completed, and one that timed out.  A status
\* block passes if it has the signature and reports success; its tag is not
\* compared.  A test that passes ends those it runs within, and the command is
\* tried again.
Completed(c) ==
    CASE c.stage = "cbw" -> [c EXCEPT !.stage = "data"]
      [] c.stage = "data" -> [c EXCEPT !.stage = "csw"]
      [] c.stage = "csw" -> [c EXCEPT !.stage = IF csw = <<"good">> THEN "noErr" ELSE "sense"]
      [] c.stage = "sense" -> [c EXCEPT !.stage = "sense_data"]
      [] c.stage = "sense_data" -> [c EXCEPT !.stage = "sense_csw"]
      [] c.stage = "sense_csw" -> Sensed(c, Parsed)
      [] c.stage = "test" -> [c EXCEPT !.stage = "test_csw"]
      [] c.stage = "test_csw" -> IF csw = <<"good">> THEN [c EXCEPT !.stage = "cbw", !.within = <<>>]
                                 ELSE [c EXCEPT !.stage = "sense"]
      [] c.stage \in {"reset", "clear"} -> Clearing(c)


TimedOut(c) ==
    CASE c.stage \in {"cbw", "data", "csw", "test_csw"} -> [c EXCEPT !.stage = "sense"]
      [] c.stage \in {"sense", "sense_data", "sense_csw"} -> Sensed(c, senseKey)
      [] c.stage = "test" -> Recovery(c)
      [] c.stage = "reset" -> [c EXCEPT !.stage = IF c.within = <<>> THEN "ioErr" ELSE "failed"]
      [] c.stage = "clear" -> Clearing(c)

\* A test has returned false: the next of its loop, or none, and what it was for
\* has failed as well.
Untested(c) ==
    IF Last(c.within).left > 0
    THEN Testing(c, Front(c.within), Last(c.within).left - 1)
    ELSE Recovery([c EXCEPT !.within = Front(@)])

Continue(next) ==
    LET rings == IF call.stage = "clear" /\ next.stage # "clear" THEN Rewound(ring) ELSE ring
    IN /\ call' = next
       /\ ring' = Enqueued(next, rings)
       /\ control' = IF next.stage \in {"reset", "clear"} THEN Append(control, next.stage) ELSE control

BeginCall(op, b) ==
    /\ Idle /\ call.n < MaxCalls
    /\ LET c == [stage |-> "cbw", op |-> op, block |-> b, n |-> call.n + 1,
                 tried |-> FALSE, halts |-> 0, within |-> <<>>]
       IN call' = c /\ ring' = Enqueued(c, ring)
    /\ buffer' = <<>>
    /\ UNCHANGED <<taker, control, events, poster, fifo, hidVars, csw, sense, senseKey, device, disk, calm,
                   patience>>

\* xhci_poll_transfer_complete looks at the slot of an event, not at its endpoint
\* or its code, and takes every event it sees.
IsAwaited(slot) == slot = DiskSlot

TransferCompletes ==
    /\ call.stage \in Waiting /\ EventThere /\ IsAwaited(EventSlot)
    /\ TakeEvent
    /\ Continue(Completed(call))
    /\ senseKey' = Parsed
    /\ calm' = (calm /\ call'.stage # "reset")
    /\ UNCHANGED <<taker, poster, hidVars, buffer, csw, sense, device, disk, patience>>

SwallowEvent ==
    /\ call.stage \in Waiting /\ EventThere /\ ~IsAwaited(EventSlot)
    /\ TakeEvent
    /\ swallowed' = [swallowed EXCEPT ![EventSlot] = @ + 1]
    /\ UNCHANGED <<ring, taker, control, poster, pending, polls, diskVars>>

\* Two million looks at the ring found nothing more.
TransferTimesOut ==
    /\ call.stage \in Waiting /\ ~EventThere
    /\ Continue(TimedOut(call))
    /\ calm' = FALSE
    /\ IF patience > 0 THEN patience' = patience - 1 /\ UNCHANGED device
       ELSE device' = [device EXCEPT !.phase = "hung"] /\ UNCHANGED patience
    /\ UNCHANGED <<taker, events, poster, fifo, hidVars, buffer, csw, sense, senseKey, disk>>

TestFails ==
    /\ call.stage = "failed"
    /\ Continue(Untested(call))
    /\ calm' = (calm /\ call'.stage # "reset")
    /\ UNCHANGED <<taker, events, poster, fifo, hidVars, buffer, csw, sense, senseKey, device, disk,
                   patience>>

----------------------------------------------------------------------------
(* The controller and the devices. *)

\* The controller takes the next TRB of endpoint e and posts its completion.
Takes(e) ==
    /\ Ready(ring[e].trbs, taker[e])
    /\ taker' = [taker EXCEPT ![e] = Passed(ring[e].trbs, @)]
    /\ PostEvent(e)
    /\ UNCHANGED <<ring, hidVars, call, senseKey, calm, patience>>

Report(h) == Takes(h) /\ UNCHANGED <<control, buffer, csw, sense, device, disk>>

\* The disk accepts a command when it has none; a test of it passes or fails.
DiskAccepts(good) ==
    /\ Takes("out")
    /\ device.phase = "idle" /\ Taken("out") \in Commands
    /\ good \/ Taken("out")[2] = "test"
    /\ device' = [phase |-> CASE Taken("out")[2] = "write" -> "out"
                               [] Taken("out")[2] = "test" -> "status"
                               [] OTHER -> "in",
                  command |-> Taken("out"), good |-> good]
    /\ UNCHANGED <<control, buffer, csw, sense, disk>>

\* It writes whatever comes next to the block, or fails.
DiskWrites(good) ==
    /\ Takes("out")
    /\ device.phase = "out"
    /\ disk' = [disk EXCEPT ![device.command[3]] =
                   IF ~good THEN @ ELSE IF Taken("out") \in Data THEN Taken("out") ELSE <<"junk">>]
    /\ device' = [device EXCEPT !.phase = "status", !.good = good]
    /\ UNCHANGED <<control, buffer, csw, sense>>

\* Data of the disk lands in the buffer its TRB names: the caller's, unless that
\* call is over, the driver's status buffer, or the one for sense data, which has
\* a key if it is sense data that lands there.
Lands(target, content, key) ==
    /\ buffer' = IF target = <<"caller", call.n>> /\ call.stage \in Waiting THEN content ELSE buffer
    /\ csw' = IF target # <<"csw">> THEN csw
              ELSE IF content \in {<<"good">>, <<"bad">>} THEN content ELSE <<"junk">>
    /\ sense' = IF target # <<"sense">> THEN sense
                ELSE IF content = <<"sense">> THEN key ELSE "none"

\* The sense data says why, "not ready" or anything else.
DiskSends(good, key) ==
    /\ Takes("in")
    /\ device.phase = "in"
    /\ key = "notReady" => device.command[2] = "sense"
    /\ Lands(Taken("in"), IF ~good THEN <<"junk">>
                          ELSE IF device.command[2] = "read" THEN disk[device.command[3]]
                          ELSE <<"sense">>, key)
    /\ device' = [device EXCEPT !.phase = "status", !.good = good]
    /\ UNCHANGED <<control, disk>>

DiskConcludes ==
    /\ Takes("in")
    /\ device.phase = "status"
    /\ Lands(Taken("in"), IF device.good THEN <<"good">> ELSE <<"bad">>, "other")
    /\ device' = [device EXCEPT !.phase = "idle"]
    /\ UNCHANGED <<control, disk>>

\* A control request: mass storage reset, or a halt cleared.
DiskObeys ==
    /\ control # <<>> /\ device.phase # "hung"
    /\ device' = IF Head(control) = "reset" THEN [device EXCEPT !.phase = "idle"] ELSE device
    /\ control' = Tail(control)
    /\ PostEvent("ep0")
    /\ UNCHANGED <<ring, taker, hidVars, call, buffer, csw, sense, senseKey, disk, calm, patience>>

----------------------------------------------------------------------------
\* xhci_ring_init: rings of zeros, every cycle bit 1.
Init ==
    /\ ring = [e \in Endpoints |-> [trbs |-> [i \in 0..(RingSize - 1) |-> Trb("none", 0, <<>>)],
                                    index |-> 0, cycle |-> 1]]
    /\ taker = [e \in Endpoints |-> [at |-> 0, cycle |-> 1]]
    /\ control = <<>>
    /\ events = [trbs |-> [i \in 0..(EventRingSize - 1) |-> [cycle |-> 0, ep |-> "none"]],
                 index |-> 0, cycle |-> 1]
    /\ poster = [at |-> 0, cycle |-> 1]
    /\ fifo = <<>>
    /\ pending = [h \in Hids |-> FALSE] /\ swallowed = [s \in HidSlots |-> 0]
    /\ polls = 0
    /\ call = [stage |-> "none", op |-> "read", block |-> CHOOSE b \in Blocks : TRUE, n |-> 0,
               tried |-> FALSE, halts |-> 0, within |-> <<>>]
    /\ buffer = <<>> /\ csw = <<>> /\ sense = "none" /\ senseKey \in Keys
    /\ device = [phase |-> "idle", command |-> <<"cbw", "sense">>, good |-> TRUE]
    /\ disk = [b \in Blocks |-> <<"data", 0>>]
    /\ calm = TRUE /\ patience = MaxTimeouts

MainLoop ==
    \/ PollHid
    \/ \E h \in Hids : HandleReport(h)
    \/ DropEvent
    \/ PollEnds

DiskCall == TransferCompletes \/ SwallowEvent \/ TransferTimesOut \/ TestFails

Devices ==
    \/ \E h \in Hids : Report(h)
    \/ \E good \in BOOLEAN : \/ DiskAccepts(good) \/ DiskWrites(good)
                            \/ \E key \in Keys : DiskSends(good, key)
    \/ DiskConcludes
    \/ DiskObeys

Next ==
    \/ MainLoop
    \/ \E op \in {"read", "write"}, b \in Blocks : BeginCall(op, b)
    \/ DiskCall
    \/ Devices

\* The loop that waits for a transfer ends after its two million looks.
Spec == Init /\ [][Next]_vars /\ WF_vars(DiskCall)

----------------------------------------------------------------------------
(* What the driver may rely on. *)

\* How many events the driver would find one after the other.
Place(k) == (events.index + k) % EventRingSize
Fresh(k) == events.trbs[Place(k)].cycle
              = IF events.index + k < EventRingSize THEN events.cycle ELSE 1 - events.cycle

\* The cycle bits make a queue of the event ring: from the driver's index on it
\* sees the events that were posted and not taken, in their order, none twice
\* and none from an earlier lap (g_evt_ring_index, g_evt_cycle and ERDP).
EventsAreFifo ==
    /\ \A k \in 0..(EventRingSize - 1) : Fresh(k) <=> k < Len(fifo)
    /\ \A k \in 1..Len(fifo) : events.trbs[Place(k - 1)].ep = fifo[k]

\* The TRBs of endpoint e the controller can see (3 for three or more), and its
\* events the driver has not taken.
OnRing(e) ==
    LET trbs == ring[e].trbs
        second == Passed(trbs, taker[e])
    IN CASE ~Ready(trbs, taker[e]) -> 0
         [] Ready(trbs, taker[e]) /\ ~Ready(trbs, second) -> 1
         [] Ready(trbs, taker[e]) /\ Ready(trbs, second) /\ ~Ready(trbs, Passed(trbs, second)) -> 2
         [] OTHER -> 3
InFlight(e) == OnRing(e) + Cardinality({k \in DOMAIN fifo : fifo[k] = e})

\* The controller is at a link TRB of the bulk rings that has the wrong cycle bit.
AtForeignLink(e) ==
    LET t == ring[e].trbs[taker[e].at] IN t.type = "link" /\ t.cycle # taker[e].cycle

\* A keyboard or mouse that is pending has one request in flight, on its ring for
\* the controller to see or in the event ring, unless a disk transfer swallowed its
\* completion; one that is not has none.  Of a keyboard and a mouse in one slot the
\* driver takes either's report for the keyboard's, and it holds of the two together.
\* The same for the transfer a disk call waits for, until a recovery rewinds the
\* rings or a link with the wrong cycle bit stops the controller.
Asked(h) == IF pending[h] THEN 1 ELSE 0
TransferInFlight ==
    /\ \A h \in Hids : (\A g \in Hids : SlotOf[g] = SlotOf[h] => g = h)
                         => InFlight(h) + swallowed[SlotOf[h]] = Asked(h)
    /\ \A k \in Keyboards, m \in Mice : SlotOf[k] = SlotOf[m]
           => InFlight(k) + InFlight(m) + swallowed[SlotOf[k]] = Asked(k) + Asked(m)
    /\ calm => \A e \in Bulk : \/ AtForeignLink(e)
                               \/ InFlight(e) = IF PipeOf(call) = e THEN 1 ELSE 0

\* While no transfer has timed out and no recovery was tried, a call that
\* returns noErr has read what the block holds, or the block holds what it wrote.
CalmCallsAreRight ==
    calm /\ call.stage = "noErr" =>
        IF call.op = "read" THEN buffer = disk[call.block]
                            ELSE disk[call.block] = <<"data", call.n>>


\* xhci.c:1532: "Re-submit immediately so the pipe never goes dry": a device
\* that is pending has a request that can still be answered.
PipeNeverDry == \A h \in Hids : pending[h] => InFlight(h) > 0
============================================================================
