----------------------------- MODULE XhciProofs -----------------------------
(***************************************************************************)
(* Theorems about Xhci, for every set of keyboards, mice and blocks, every *)
(* size of the rings and every number of calls.                            *)
(***************************************************************************)
EXTENDS Xhci, SequenceTheorems, FiniteSetTheorems, FunctionTheorems, TLAPS

-----------------------------------------------------------------------------
(* The event ring is a queue.                                              *)

EventPlaces == 0 .. EventRingSize - 1
EventRing == [trbs : [EventPlaces -> [cycle : 0..1, ep : Endpoints \cup {"ep0", "none"}]],
              index : EventPlaces, cycle : 0..1]

\* The bit an event has that is posted k places behind the driver's index.
Bit(i, c, k) == IF i + k < EventRingSize THEN c ELSE 1 - c
At(i, k) == IF i + k < EventRingSize THEN i + k ELSE i + k - EventRingSize

\* Controller and driver agree: the controller posts behind the last event that
\* was not taken, and the places before that hold the driver's bit.
EventInv ==
    /\ events \in EventRing
    /\ poster \in [at : EventPlaces, cycle : 0..1]
    /\ fifo \in Seq(Endpoints \cup {"ep0"})
    /\ Len(fifo) < EventRingSize
    /\ poster.at = At(events.index, Len(fifo))
    /\ poster.cycle = Bit(events.index, events.cycle, Len(fifo))
    /\ \A k \in EventPlaces :
          events.trbs[At(events.index, k)].cycle = Bit(events.index, events.cycle, k)
             <=> k < Len(fifo)
    /\ \A k \in 1 .. Len(fifo) : events.trbs[At(events.index, k - 1)].ep = fifo[k]

LEMMA AtIsPlace ==
    ASSUME NEW i \in EventPlaces, NEW k \in EventPlaces
    PROVE  /\ At(i, k) = (i + k) % EventRingSize
           /\ At(i, k) \in EventPlaces
BY XhciAssumption DEF At, EventPlaces

LEMMA EventInvMeans == EventInv => EventsAreFifo
<1> SUFFICES ASSUME EventInv PROVE EventsAreFifo
  OBVIOUS
<1>1. events.index \in EventPlaces
  BY DEF EventInv, EventRing
<1>2. \A k \in EventPlaces : Place(k) = At(events.index, k)
  BY <1>1, AtIsPlace DEF Place
<1>3. \A k \in 1 .. Len(fifo) : k - 1 \in EventPlaces
  BY XhciAssumption DEF EventInv, EventPlaces
<1>4. \A k \in EventPlaces : Fresh(k) <=> k < Len(fifo)
  BY <1>2 DEF Fresh, EventInv, Bit
<1> QED
  BY <1>2, <1>3, <1>4 DEF EventsAreFifo, EventInv, EventPlaces

LEMMA PostKeepsEvents ==
    ASSUME EventInv, NEW e \in Endpoints \cup {"ep0"}, PostEvent(e)
    PROVE  EventInv'
<1> DEFINE n == Len(fifo)
           i == events.index
           c == events.cycle
           S == EventRingSize
<1>1. /\ events \in EventRing /\ i \in EventPlaces /\ c \in 0..1
      /\ n \in Nat /\ n < S /\ S \in Nat \ {0, 1}
      /\ poster.at = At(i, n) /\ poster.cycle = Bit(i, c, n)
      /\ poster \in [at : EventPlaces, cycle : 0..1]
      /\ fifo \in Seq(Endpoints \cup {"ep0"})
  BY XhciAssumption DEF EventInv, EventRing
<1>2. /\ (poster.at + 1) % EventRingSize # i
      /\ events' = [events EXCEPT !.trbs[poster.at] = [cycle |-> poster.cycle, ep |-> e]]
      /\ poster' = Advanced(poster, EventRingSize)
      /\ fifo' = Append(fifo, e)
  BY DEF PostEvent
<1>3. (poster.at + 1) % EventRingSize = IF poster.at + 1 < S THEN poster.at + 1 ELSE 0
  <2>1. poster.at \in EventPlaces /\ 1 \in EventPlaces
    BY <1>1 DEF EventPlaces
  <2>2. (poster.at + 1) % EventRingSize = At(poster.at, 1)
    BY <2>1, AtIsPlace
  <2> QED
    BY <1>1, <2>1, <2>2 DEF At, EventPlaces
<1>4. n + 1 < S
  BY <1>1, <1>2, <1>3 DEF At, EventPlaces
<1>5. /\ events' \in EventRing /\ events'.index = i /\ events'.cycle = c
      /\ events'.trbs = [events.trbs EXCEPT ![poster.at] = [cycle |-> poster.cycle, ep |-> e]]
  BY <1>1, <1>2 DEF EventRing
<1>6. /\ fifo' \in Seq(Endpoints \cup {"ep0"}) /\ Len(fifo') = n + 1
      /\ \A k \in 1 .. n : fifo'[k] = fifo[k]
      /\ fifo'[n + 1] = e
  BY <1>1, <1>2
<1>7. /\ poster' \in [at : EventPlaces, cycle : 0..1]
      /\ poster'.at = At(i, n + 1) /\ poster'.cycle = Bit(i, c, n + 1)
  <2> DEFINE a == poster.at
             b == poster.cycle
  <2>1. a \in EventPlaces /\ b \in 0..1 /\ poster = [at |-> a, cycle |-> b]
    BY <1>1
  <2>2. poster' = IF a + 1 >= S THEN [at |-> 0, cycle |-> 1 - b] ELSE [at |-> a + 1, cycle |-> b]
    BY <1>2, <2>1 DEF Advanced
  <2>3. /\ poster'.at = IF a + 1 >= S THEN 0 ELSE a + 1
        /\ poster'.cycle = IF a + 1 >= S THEN 1 - b ELSE b
        /\ poster' = [at |-> poster'.at, cycle |-> poster'.cycle]
    BY <2>2
  <2>4. poster'.at \in EventPlaces /\ poster'.cycle \in 0..1
    BY <1>1, <2>1, <2>3 DEF EventPlaces
  <2>5. a = At(i, n) /\ b = Bit(i, c, n)
    BY <1>1
  <2> HIDE DEF a, b, i, c, n
  <2>6. (IF a + 1 >= S THEN 0 ELSE a + 1) = At(i, n + 1)
    BY <1>1, <1>4, <2>5 DEF At, EventPlaces
  <2>7. (IF a + 1 >= S THEN 1 - b ELSE b) = Bit(i, c, n + 1)
    BY <1>1, <1>4, <2>5 DEF At, Bit, EventPlaces
  <2> QED
    BY <2>3, <2>4, <2>6, <2>7
<1>8. \A k \in EventPlaces : At(i, k) = At(i, n) => k = n
  BY <1>1 DEF At, EventPlaces
<1>9. \A k \in EventPlaces : /\ At(i, k) \in EventPlaces
                             /\ events'.trbs[At(i, k)] = IF k = n THEN [cycle |-> Bit(i, c, n), ep |-> e]
                                                        ELSE events.trbs[At(i, k)]
  BY <1>1, <1>5, <1>8, AtIsPlace DEF EventRing
<1>10. \A k \in EventPlaces : events'.trbs[At(i, k)].cycle = Bit(i, c, k) <=> k < n + 1
  <2> TAKE k \in EventPlaces
  <2>1. CASE k = n
    BY <1>1, <1>9, <2>1
  <2>2. CASE k # n
    <3>1. k < n <=> k < n + 1
      BY <1>1, <2>2 DEF EventPlaces
    <3> QED
      BY <1>9, <2>2, <3>1 DEF EventInv
  <2> QED
    BY <2>1, <2>2
<1>11. \A k \in 1 .. n + 1 : k - 1 \in EventPlaces /\ (k - 1 = n <=> k = n + 1)
  BY <1>1 DEF EventPlaces
<1>12. \A k \in 1 .. n + 1 : events'.trbs[At(i, k - 1)].ep = fifo'[k]
  <2> TAKE k \in 1 .. n + 1
  <2>1. CASE k = n + 1
    BY <1>6, <1>9, <1>11, <2>1
  <2>2. CASE k # n + 1
    <3>1. k \in 1 .. n
      BY <1>1, <2>2
    <3>2. events'.trbs[At(i, k - 1)] = events.trbs[At(i, k - 1)]
      BY <1>9, <1>11, <2>2
    <3> QED
      BY <1>6, <3>1, <3>2 DEF EventInv
  <2> QED
    BY <2>1, <2>2
<1> QED
  BY <1>4, <1>5, <1>6, <1>7, <1>10, <1>12 DEF EventInv

\* The driver sees an event exactly when one was posted and not taken, and it is
\* the oldest of those.
LEMMA ThereIsHead ==
    ASSUME EventInv
    PROVE  /\ EventThere <=> fifo # <<>>
           /\ EventThere => /\ Len(fifo) > 0
                            /\ events.trbs[events.index].ep = fifo[1]
                            /\ fifo[1] \in Endpoints \cup {"ep0"}
<1>1. /\ events.index \in EventPlaces /\ events.cycle \in 0..1 /\ Len(fifo) \in Nat
      /\ fifo \in Seq(Endpoints \cup {"ep0"})
  BY DEF EventInv, EventRing
<1>2. 0 \in EventPlaces /\ At(events.index, 0) = events.index /\ Bit(events.index, events.cycle, 0) = events.cycle
  BY <1>1, XhciAssumption DEF At, Bit, EventPlaces
<1>3. EventThere <=> 0 < Len(fifo)
  BY <1>2 DEF EventInv, EventThere
<1>4. Len(fifo) > 0 => events.trbs[events.index].ep = fifo[1]
  <2>1. 1 - 1 = 0
    OBVIOUS
  <2> QED
    BY <1>1, <1>2, <2>1 DEF EventInv
<1> QED
  BY <1>1, <1>3, <1>4, EmptySeq

\* The place k behind the next index is the place k + 1 behind this one.
LEMMA NextAt ==
    ASSUME NEW i \in EventPlaces, NEW c \in 0..1, NEW k \in EventPlaces, k + 1 < EventRingSize,
           NEW j, NEW d,
           \/ i + 1 >= EventRingSize /\ j = 0 /\ d = 1 - c
           \/ i + 1 < EventRingSize /\ j = i + 1 /\ d = c
    PROVE  At(j, k) = At(i, k + 1) /\ Bit(j, d, k) = Bit(i, c, k + 1)
<1>1. EventRingSize \in Nat /\ i \in Nat /\ i < EventRingSize /\ k \in Nat
  BY XhciAssumption DEF EventPlaces
<1>2. CASE i + 1 >= EventRingSize /\ j = 0 /\ d = 1 - c
  BY <1>1, <1>2 DEF At, Bit
<1>3. CASE i + 1 < EventRingSize /\ j = i + 1 /\ d = c
  <2>1. j + k = i + (k + 1)
    BY <1>1, <1>3
  <2> QED
    BY <1>1, <1>3, <2>1 DEF At, Bit
<1> QED
  BY <1>2, <1>3

LEMMA TakeKeepsEvents ==
    ASSUME EventInv, TakeEvent, poster' = poster
    PROVE  EventInv'
<1> DEFINE n == Len(fifo)
           i == events.index
           c == events.cycle
           S == EventRingSize
           j == IF i + 1 >= S THEN 0 ELSE i + 1
           d == IF i + 1 >= S THEN 1 - c ELSE c
<1>1. /\ events \in EventRing /\ i \in EventPlaces /\ c \in 0..1
      /\ n \in Nat /\ n < S /\ S \in Nat \ {0, 1}
      /\ poster.at = At(i, n) /\ poster.cycle = Bit(i, c, n)
      /\ poster \in [at : EventPlaces, cycle : 0..1]
      /\ fifo \in Seq(Endpoints \cup {"ep0"})
  BY XhciAssumption DEF EventInv, EventRing
<1>2. n > 0 /\ fifo # <<>>
  BY ThereIsHead DEF TakeEvent
<1>3. events' = [events EXCEPT !.index = j, !.cycle = d]
  BY DEF TakeEvent, Advanced
<1>4. j \in EventPlaces /\ d \in 0..1
  BY <1>1 DEF EventPlaces
<1>5. /\ events' \in EventRing /\ events'.index = j /\ events'.cycle = d
      /\ events'.trbs = events.trbs
  BY <1>1, <1>3, <1>4 DEF EventRing
<1>6. /\ fifo' \in Seq(Endpoints \cup {"ep0"}) /\ Len(fifo') = n - 1
      /\ \A k \in 1 .. n - 1 : fifo'[k] = fifo[k + 1]
  BY <1>1, <1>2 DEF TakeEvent
<1>7. \A k \in EventPlaces : k + 1 < S => At(j, k) = At(i, k + 1) /\ Bit(j, d, k) = Bit(i, c, k + 1)
  <2>1. \/ i + 1 >= S /\ j = 0 /\ d = 1 - c
        \/ i + 1 < S /\ j = i + 1 /\ d = c
    BY <1>1 DEF EventPlaces
  <2> HIDE DEF i, c, j, d
  <2> QED
    BY <1>1, <2>1, NextAt
<1>8. /\ At(j, n - 1) = At(i, n) /\ Bit(j, d, n - 1) = Bit(i, c, n)
  <2>1. n - 1 \in EventPlaces /\ (n - 1) + 1 = n
    BY <1>1, <1>2 DEF EventPlaces
  <2> HIDE DEF i, c, j, d, n
  <2> QED
    BY <1>1, <1>7, <2>1
<1>9. At(j, S - 1) = i /\ Bit(j, d, S - 1) = 1 - c /\ At(i, 0) = i /\ Bit(i, c, 0) = c
  BY <1>1 DEF At, Bit, EventPlaces
<1>10. events.trbs[i].cycle = c /\ c # 1 - c
  <2>1. 0 \in EventPlaces
    BY <1>1 DEF EventPlaces
  <2> QED
    BY <1>1, <1>2, <1>9, <2>1 DEF EventInv
<1>11. \A k \in EventPlaces : events.trbs[At(j, k)].cycle = Bit(j, d, k) <=> k < n - 1
  <2> TAKE k \in EventPlaces
  <2>1. CASE k + 1 < S
    <3>1. k + 1 \in EventPlaces /\ (k + 1 < n <=> k < n - 1)
      BY <1>1, <2>1 DEF EventPlaces
    <3> QED
      BY <1>7, <2>1, <3>1 DEF EventInv
  <2>2. CASE k = S - 1
    BY <1>1, <1>9, <1>10, <2>2
  <2> QED
    BY <1>1, <2>1, <2>2 DEF EventPlaces
<1>12. \A k \in 1 .. n - 1 : events.trbs[At(j, k - 1)].ep = fifo'[k]
  <2> TAKE k \in 1 .. n - 1
  <2>1. /\ k - 1 \in EventPlaces /\ (k - 1) + 1 = k /\ k < S
        /\ k + 1 \in 1 .. n /\ (k + 1) - 1 = k
    BY <1>1 DEF EventPlaces
  <2>2. At(j, k - 1) = At(i, k)
    BY <1>7, <2>1
  <2>3. events.trbs[At(i, k)].ep = fifo[k + 1]
    BY <2>1 DEF EventInv
  <2> QED
    BY <1>6, <2>2, <2>3
<1>13. n - 1 \in Nat /\ n - 1 < S
  BY <1>1, <1>2
<1> HIDE DEF n, i, c, S, j, d
<1> QED
  BY <1>1, <1>5, <1>6, <1>8, <1>11, <1>12, <1>13 DEF EventInv, S

-----------------------------------------------------------------------------
(* The types, with the facts about the rings they rest on: the last TRB is *)
(* the link's, and no index of a bulk ring stays there.                    *)

RingPlaces == 0 .. RingSize - 1
Whats == Data \cup Commands \cup Targets \cup {<<>>}
Ring == [trbs : [RingPlaces -> TRBs], index : RingPlaces, cycle : 0..1]
Taker == [at : RingPlaces, cycle : 0..1]
Tests == [left : 0..(Retries - 1), recovered : BOOLEAN]
Stages == Waiting \cup {"failed"} \cup Over
Call == [stage : Stages, op : {"read", "write"},
         block : Blocks \cup {CHOOSE b \in Blocks : TRUE}, n : 0..MaxCalls,
         tried : BOOLEAN, halts : 0..HaltsCleared, within : Seq(Tests)]
Begun(c) == c.block \in Blocks /\ c.n \in 1 .. MaxCalls /\ (c.stage = "failed" => c.within # <<>>)
Device == [phase : {"idle", "out", "in", "status", "hung"}, command : Commands, good : BOOLEAN]
Contents == Data \cup {<<>>, <<"sense">>, <<"good">>, <<"bad">>}

EndsInLink(r) == r.trbs[RingSize - 1].type # "normal"
GoodRings(rings) ==
    /\ rings \in [Endpoints -> Ring]
    /\ \A e \in Endpoints : EndsInLink(rings[e])
    /\ \A e \in Bulk : rings[e].index < RingSize - 1

UsbTypes == GoodRings(ring) /\ taker \in [Endpoints -> Taker] /\ control \in Seq({"reset", "clear"})
HidTypes == /\ pending \in [Hids -> BOOLEAN] /\ swallowed \in [HidSlots -> Nat]
            /\ polls \in 0..Burst
CallTypes == call \in Call /\ (call.stage # "none" => Begun(call))
DiskTypes == /\ buffer \in Contents /\ csw \in {<<>>, <<"good">>, <<"bad">>, <<"junk">>}
             /\ sense \in Keys \cup {"none"} /\ senseKey \in Keys
             /\ device \in Device
             /\ disk \in [Blocks -> Data] /\ calm \in BOOLEAN /\ patience \in 0..MaxTimeouts
TypeInv == UsbTypes /\ HidTypes /\ CallTypes /\ DiskTypes /\ (polls = 0 \/ call.stage \in Over)

LEMMA RingBounds ==
    /\ RingSize \in Nat /\ RingSize >= 3
    /\ 0 \in RingPlaces /\ 1 \in RingPlaces /\ RingSize - 1 \in RingPlaces
    /\ \A i \in RingPlaces : i \in Nat /\ i <= RingSize - 1
    /\ \A i \in RingPlaces : i < RingSize - 1 => i + 1 \in RingPlaces
    /\ \A i \in Nat : i <= RingSize - 1 => i \in RingPlaces
    /\ \A c \in 0..1 : 1 - c \in 0..1 /\ 1 - c # c
BY XhciAssumption DEF RingPlaces

LEMMA TrbType ==
    ASSUME NEW type \in {"none", "normal", "link"}, NEW c \in 0..1, NEW what \in Whats
    PROVE  Trb(type, c, what) \in TRBs
BY DEF Trb, TRBs, Whats

LEMMA HidEnqueueType ==
    ASSUME NEW r \in Ring, EndsInLink(r), NEW what \in Whats
    PROVE  HidEnqueue(r, what) \in Ring /\ EndsInLink(HidEnqueue(r, what))
<1> DEFINE turned == r.index >= RingSize - 1
           i == IF turned THEN 0 ELSE r.index
           c == IF turned THEN 1 - r.cycle ELSE r.cycle
           linked == IF turned THEN [r.trbs EXCEPT ![r.index] = Trb("link", r.cycle, <<>>)] ELSE r.trbs
           trbs == [linked EXCEPT ![i] = Trb("normal", c, what)]
<1>1. HidEnqueue(r, what) = [trbs |-> trbs, index |-> i + 1, cycle |-> c]
  BY DEF HidEnqueue
<1>2. r.index \in RingPlaces /\ r.cycle \in 0..1 /\ r.trbs \in [RingPlaces -> TRBs]
  BY DEF Ring
<1>3. i \in RingPlaces /\ i < RingSize - 1 /\ c \in 0..1
  BY <1>2, RingBounds
<1>4. <<>> \in Whats
  BY DEF Whats
<1>5. Trb("link", r.cycle, <<>>) \in TRBs /\ Trb("normal", c, what) \in TRBs
  BY <1>2, <1>3, <1>4, TrbType
<1>6. /\ linked \in [RingPlaces -> TRBs]
      /\ turned => r.index = RingSize - 1
  BY <1>2, <1>5, RingBounds
<1>7. linked[RingSize - 1].type # "normal"
  BY <1>2, <1>6, RingBounds DEF EndsInLink, Trb
<1>8. trbs \in [RingPlaces -> TRBs] /\ trbs[RingSize - 1].type # "normal"
  BY <1>3, <1>5, <1>6, <1>7, RingBounds
<1>9. i + 1 \in RingPlaces
  BY <1>3, RingBounds
<1> HIDE DEF i, c, trbs
<1> QED
  BY <1>1, <1>3, <1>8, <1>9 DEF Ring, EndsInLink

LEMMA MscEnqueueType ==
    ASSUME NEW r \in Ring, EndsInLink(r), r.index < RingSize - 1, NEW what \in Whats
    PROVE  /\ MscEnqueue(r, what) \in Ring /\ EndsInLink(MscEnqueue(r, what))
           /\ MscEnqueue(r, what).index < RingSize - 1
<1> DEFINE put == [r.trbs EXCEPT ![r.index] = Trb("normal", r.cycle, what)]
           i == r.index + 1
           full == [put EXCEPT ![i] = Trb("link", 1, <<>>)]
<1>1. MscEnqueue(r, what) = IF i >= RingSize - 1
                            THEN [trbs |-> full, index |-> 0, cycle |-> 1 - r.cycle]
                            ELSE [trbs |-> put, index |-> i, cycle |-> r.cycle]
  BY DEF MscEnqueue
<1>2. r.index \in RingPlaces /\ r.cycle \in 0..1 /\ r.trbs \in [RingPlaces -> TRBs]
  BY DEF Ring
<1>3. <<>> \in Whats /\ 1 \in 0..1
  BY DEF Whats
<1>4. Trb("link", 1, <<>>) \in TRBs /\ Trb("normal", r.cycle, what) \in TRBs
  BY <1>2, <1>3, TrbType
<1>5. i \in RingPlaces
  BY <1>2, RingBounds
<1>6. put \in [RingPlaces -> TRBs] /\ put[RingSize - 1].type # "normal"
  BY <1>2, <1>4, RingBounds DEF EndsInLink
<1>7. full \in [RingPlaces -> TRBs] /\ full[RingSize - 1].type # "normal"
  BY <1>4, <1>5, <1>6, RingBounds DEF Trb
<1>8. 1 - r.cycle \in 0..1 /\ 0 \in RingPlaces /\ 0 < RingSize - 1
  BY <1>2, RingBounds
<1> HIDE DEF i, put, full
<1>9. CASE i >= RingSize - 1
  BY <1>1, <1>7, <1>8, <1>9 DEF Ring, EndsInLink
<1>10. CASE ~(i >= RingSize - 1)
  <2>1. i < RingSize - 1
    BY <1>5, <1>10, RingBounds
  <2> QED
    BY <1>1, <1>2, <1>5, <1>6, <1>10, <2>1 DEF Ring, EndsInLink
<1> QED
  BY <1>9, <1>10

\* What a stage puts on its pipe.
LEMMA PayloadType ==
    ASSUME NEW c \in Call, c.stage \in Waiting, Begun(c), PipeOf(c) \in Bulk
    PROVE  Payload(c) \in Whats
<1>1. c.op \in {"read", "write"} /\ c.block \in Blocks /\ c.n \in 1..MaxCalls /\ c.n \in 0..MaxCalls
  BY XhciAssumption DEF Call, Begun
<1>2. /\ <<"cbw", c.op, c.block>> \in Whats /\ <<"cbw", "sense">> \in Whats
      /\ <<"cbw", "test">> \in Whats
      /\ <<"data", c.n>> \in Whats /\ <<"caller", c.n>> \in Whats
      /\ <<"sense">> \in Whats /\ <<"csw">> \in Whats
  BY <1>1 DEF Whats, Data, Commands, Targets
<1>3. c.stage \notin {"reset", "clear"}
  BY DEF PipeOf, Bulk
<1>4. c.stage \in {"cbw", "data", "csw", "sense", "sense_data", "sense_csw", "test", "test_csw"}
  BY <1>3 DEF Waiting
<1> QED
  BY <1>2, <1>4 DEF Payload

LEMMA EnqueuedType ==
    ASSUME NEW rings, GoodRings(rings), NEW c \in Call, Begun(c)
    PROVE  GoodRings(Enqueued(c, rings))
<1>1. CASE PipeOf(c) \in Bulk
  <2> DEFINE e == PipeOf(c)
  <2>1. c.stage \in Waiting
    BY <1>1 DEF PipeOf, Bulk, Waiting
  <2>2. Payload(c) \in Whats
    BY <1>1, <2>1, PayloadType
  <2>3. e \in Endpoints /\ rings[e] \in Ring /\ EndsInLink(rings[e]) /\ rings[e].index < RingSize - 1
    BY <1>1 DEF GoodRings, Endpoints
  <2> DEFINE m == MscEnqueue(rings[e], Payload(c))
  <2>4. m \in Ring /\ EndsInLink(m) /\ m.index < RingSize - 1
    BY <2>2, <2>3, MscEnqueueType
  <2>5. Enqueued(c, rings) = [rings EXCEPT ![e] = m]
    BY <1>1 DEF Enqueued
  <2> HIDE DEF e, m
  <2> QED
    BY <2>3, <2>4, <2>5 DEF GoodRings, Endpoints
<1>2. CASE PipeOf(c) \notin Bulk
  BY <1>2 DEF Enqueued
<1> QED
  BY <1>1, <1>2

LEMMA RewoundType ==
    ASSUME NEW rings, GoodRings(rings)
    PROVE  GoodRings(Rewound(rings))
<1>1. \A r \in Ring : EndsInLink(r) =>
         LET w == [r EXCEPT !.index = 0, !.cycle = 1]
         IN w \in Ring /\ EndsInLink(w) /\ w.index = 0
  <2> TAKE r \in Ring
  <2> DEFINE w == [r EXCEPT !.index = 0, !.cycle = 1]
  <2>1. 0 \in RingPlaces /\ 1 \in 0..1
    BY RingBounds
  <2>2. w \in Ring /\ w.trbs = r.trbs /\ w.index = 0
    BY <2>1 DEF Ring
  <2> QED
    BY <2>2 DEF EndsInLink
<1>2. 0 < RingSize - 1
  BY RingBounds
<1> QED
  BY <1>1, <1>2 DEF GoodRings, Rewound, Endpoints

\* What follows a transfer, or a test that failed, is a stage of the same call.
Follows(d, c) == d \in Call /\ d.op = c.op /\ d.block = c.block /\ d.n = c.n
                 /\ d.stage # "none" /\ (d.stage = "failed" => d.within # <<>>)

LEMMA LastTest ==
    ASSUME NEW w \in Seq(Tests), w # <<>>
    PROVE  /\ Front(w) \in Seq(Tests) /\ Last(w) \in Tests
           /\ Append(Front(w), [Last(w) EXCEPT !.recovered = TRUE]) \in Seq(Tests)
<1>1. Len(w) \in Nat /\ Len(w) > 0
  BY EmptySeq
<1>2. Front(w) \in Seq(Tests)
  BY <1>1 DEF Front
<1>3. Last(w) \in Tests
  BY <1>1 DEF Last
<1>4. [Last(w) EXCEPT !.recovered = TRUE] \in Tests
  BY <1>3 DEF Tests
<1> QED
  BY <1>2, <1>3, <1>4

LEMMA TestingFollows ==
    ASSUME NEW c \in Call, NEW w \in Seq(Tests), NEW l \in 0..(Retries - 1)
    PROVE  Follows(Testing(c, w, l), c)
<1>1. [left |-> l, recovered |-> FALSE] \in Tests
  BY DEF Tests
<1>2. Append(w, [left |-> l, recovered |-> FALSE]) \in Seq(Tests)
  BY <1>1
<1>3. "test" \in Stages
  BY DEF Stages, Waiting
<1> QED
  BY <1>2, <1>3 DEF Follows, Testing, Call

LEMMA RecoveryFollows ==
    ASSUME NEW c \in Call
    PROVE  Follows(Recovery(c), c)
<1>1. HaltsCleared \in 0..HaltsCleared
  BY XhciAssumption
<1>2. {"ioErr", "reset", "failed"} \subseteq Stages
  BY DEF Stages, Waiting, Over
<1>3. \A s \in {"ioErr", "reset"} :
         Follows([c EXCEPT !.stage = s, !.halts = HaltsCleared], c)
  BY <1>1, <1>2 DEF Follows, Call
<1>4. c.within # <<>> => Follows([c EXCEPT !.stage = "failed", !.halts = HaltsCleared], c)
  BY <1>1, <1>2 DEF Follows, Call
<1>5. CASE c.within = <<>>
  BY <1>3, <1>5 DEF Recovery
<1>6. CASE c.within # <<>>
  BY <1>3, <1>4, <1>6 DEF Recovery
<1> QED
  BY <1>5, <1>6

LEMMA ClearingFollows ==
    ASSUME NEW c \in Call
    PROVE  Follows(Clearing(c), c)
<1>1. c.halts \in 0..HaltsCleared /\ (c.halts > 0 => c.halts - 1 \in 0..HaltsCleared)
  BY XhciAssumption DEF Call
<1>2. {"clear", "cbw", "test"} \subseteq Stages
  BY DEF Stages, Waiting
<1>3. CASE c.halts > 0
  <2>1. Clearing(c) = [c EXCEPT !.stage = "clear", !.halts = c.halts - 1]
    BY <1>3 DEF Clearing
  <2> QED
    BY <1>1, <1>2, <1>3, <2>1 DEF Follows, Call
<1>4. CASE ~(c.halts > 0) /\ c.within = <<>>
  <2>1. Clearing(c) = [c EXCEPT !.stage = "cbw", !.tried = TRUE]
    BY <1>4 DEF Clearing
  <2> QED
    BY <1>2, <2>1 DEF Follows, Call
<1>5. CASE ~(c.halts > 0) /\ c.within # <<>>
  <2> DEFINE w == Append(Front(c.within), [Last(c.within) EXCEPT !.recovered = TRUE])
  <2>1. Clearing(c) = [c EXCEPT !.stage = "test", !.within = w]
    BY <1>5 DEF Clearing
  <2>2. w \in Seq(Tests)
    BY <1>5, LastTest DEF Call
  <2> HIDE DEF w
  <2> QED
    BY <1>2, <2>1, <2>2 DEF Follows, Call
<1> QED
  BY <1>3, <1>4, <1>5

LEMMA SensedFollows ==
    ASSUME NEW c \in Call, NEW key
    PROVE  Follows(Sensed(c, key), c)
<1>1. Retries - 1 \in 0..(Retries - 1) /\ c.within \in Seq(Tests)
  BY XhciAssumption DEF Call
<1> QED
  BY <1>1, TestingFollows, RecoveryFollows DEF Sensed

LEMMA UntestedFollows ==
    ASSUME NEW c \in Call, c.within # <<>>
    PROVE  Follows(Untested(c), c)
<1>1. Front(c.within) \in Seq(Tests) /\ Last(c.within) \in Tests
  BY LastTest DEF Call
<1>2. CASE Last(c.within).left > 0
  <2>1. Last(c.within).left - 1 \in 0..(Retries - 1)
    BY <1>1, <1>2, XhciAssumption DEF Tests
  <2> QED
    BY <1>1, <1>2, <2>1, TestingFollows DEF Untested
<1>3. CASE ~(Last(c.within).left > 0)
  <2> DEFINE b == [c EXCEPT !.within = Front(c.within)]
  <2>1. b \in Call /\ b.op = c.op /\ b.block = c.block /\ b.n = c.n
    BY <1>1 DEF Call
  <2>2. Untested(c) = Recovery(b)
    BY <1>3 DEF Untested
  <2> HIDE DEF b
  <2> QED
    BY <2>1, <2>2, RecoveryFollows DEF Follows
<1> QED
  BY <1>2, <1>3

LEMMA NextStage ==
    ASSUME NEW c \in Call, NEW d,
           \/ c.stage \in Waiting /\ (d = Completed(c) \/ d = TimedOut(c))
           \/ c.stage = "failed" /\ c.within # <<>> /\ d = Untested(c)
    PROVE  Follows(d, c)
<1>1. \A s \in Stages \ {"none", "failed"} : Follows([c EXCEPT !.stage = s], c)
  BY DEF Follows, Call
<1>2. {"data", "csw", "noErr", "sense", "sense_data", "sense_csw", "test_csw", "ioErr", "cbw"}
         \subseteq Stages \ {"none", "failed"}
  BY DEF Stages, Waiting, Over
<1>3. Follows([c EXCEPT !.stage = "cbw", !.within = <<>>], c)
  <2>1. <<>> \in Seq(Tests) /\ "cbw" \in Stages
    BY DEF Stages, Waiting
  <2> QED
    BY <2>1 DEF Follows, Call
<1>4. c.within # <<>> => Follows([c EXCEPT !.stage = "failed"], c)
  <2>1. "failed" \in Stages
    BY DEF Stages
  <2> QED
    BY <2>1 DEF Follows, Call
<1>5. ASSUME c.stage \in Waiting
      PROVE  Follows(Completed(c), c)
  <2>1. CASE c.stage \in {"cbw", "data", "csw", "sense", "sense_data", "test"}
    BY <1>1, <1>2, <2>1 DEF Completed
  <2>2. CASE c.stage = "sense_csw"
    <3>1. Completed(c) = Sensed(c, Parsed)
      BY <2>2 DEF Completed
    <3> QED
      BY <3>1, SensedFollows
  <2>3. CASE c.stage = "test_csw"
    BY <1>1, <1>2, <1>3, <2>3 DEF Completed
  <2>4. CASE c.stage \in {"reset", "clear"}
    <3>1. Completed(c) = Clearing(c)
      BY <2>4 DEF Completed
    <3> QED
      BY <3>1, ClearingFollows
  <2> QED
    BY <1>5, <2>1, <2>2, <2>3, <2>4 DEF Waiting
<1>6. ASSUME c.stage \in Waiting
      PROVE  Follows(TimedOut(c), c)
  <2>1. CASE c.stage \in {"cbw", "data", "csw", "test_csw"}
    BY <1>1, <1>2, <2>1 DEF TimedOut
  <2>2. CASE c.stage \in {"sense", "sense_data", "sense_csw"}
    <3>1. TimedOut(c) = Sensed(c, senseKey)
      BY <2>2 DEF TimedOut
    <3> QED
      BY <3>1, SensedFollows
  <2>3. CASE c.stage = "test"
    BY <2>3, RecoveryFollows DEF TimedOut
  <2>4. CASE c.stage = "reset"
    BY <1>1, <1>2, <1>4, <2>4 DEF TimedOut
  <2>5. CASE c.stage = "clear"
    BY <2>5, ClearingFollows DEF TimedOut
  <2> QED
    BY <1>6, <2>1, <2>2, <2>3, <2>4, <2>5 DEF Waiting
<1> QED
  BY <1>5, <1>6, UntestedFollows

\* The driver goes on to the next stage.
LEMMA ContinueType ==
    ASSUME UsbTypes, CallTypes, NEW d, Continue(d),
           \/ call.stage \in Waiting /\ (d = Completed(call) \/ d = TimedOut(call))
           \/ call.stage = "failed" /\ d = Untested(call)
    PROVE  GoodRings(ring') /\ control' \in Seq({"reset", "clear"}) /\ CallTypes'
<1>1. call \in Call /\ Begun(call)
  BY DEF CallTypes, Waiting
<1>2. Follows(d, call)
  BY <1>1, NextStage DEF Begun
<1>3. d \in Call /\ Begun(d)
  BY <1>1, <1>2 DEF Begun, Follows
<1> DEFINE rings == IF call.stage = "clear" /\ d.stage # "clear" THEN Rewound(ring) ELSE ring
<1>4. call' = d /\ ring' = Enqueued(d, rings)
  BY DEF Continue
<1>5. control' = IF d.stage \in {"reset", "clear"} THEN Append(control, d.stage) ELSE control
  BY DEF Continue
<1>6. GoodRings(rings)
  BY RewoundType DEF UsbTypes
<1> HIDE DEF rings
<1>7. GoodRings(ring')
  BY <1>3, <1>4, <1>6, EnqueuedType
<1>8. control' \in Seq({"reset", "clear"})
  BY <1>5 DEF UsbTypes
<1> QED
  BY <1>3, <1>4, <1>7, <1>8 DEF CallTypes

\* The controller never leaves its ring: what it takes is in front of the link.
LEMMA TakerType ==
    ASSUME NEW r \in Ring, EndsInLink(r), NEW t \in Taker, Ready(r.trbs, t)
    PROVE  /\ Followed(r.trbs, t) \in Taker /\ Passed(r.trbs, t) \in Taker
           /\ Followed(r.trbs, t).at < RingSize - 1
           /\ Passed(r.trbs, t).at = Followed(r.trbs, t).at + 1
           /\ Passed(r.trbs, t).cycle = Followed(r.trbs, t).cycle
           /\ r.trbs[Followed(r.trbs, t).at].what \in Whats
<1> DEFINE f == Followed(r.trbs, t)
<1>1. t.cycle \in 0..1 /\ 1 - t.cycle \in 0..1 /\ 0 \in RingPlaces
  BY RingBounds DEF Taker
<1>2. f \in Taker
  BY <1>1 DEF Followed, Taker
<1>3. r.trbs[f.at].type = "normal"
  BY DEF Ready
<1>4. Passed(r.trbs, t) = [f EXCEPT !.at = @ + 1]
  BY DEF Passed
<1>5. r.trbs[f.at] \in TRBs
  BY <1>2 DEF Ring, Taker
<1> HIDE DEF f
<1>6. f.at \in RingPlaces /\ f.at # RingSize - 1
  BY <1>2, <1>3 DEF EndsInLink, Taker
<1>7. f.at < RingSize - 1 /\ f.at + 1 \in RingPlaces
  BY <1>6, RingBounds
<1> QED
  BY <1>2, <1>4, <1>5, <1>7 DEF Taker, f, TRBs, Whats

LEMMA TakesType ==
    ASSUME UsbTypes, NEW e \in Endpoints, Takes(e)
    PROVE  /\ ring' = ring /\ GoodRings(ring') /\ taker' \in [Endpoints -> Taker]
           /\ Taken(e) \in Whats /\ hidVars' = hidVars /\ call' = call /\ calm' = calm
           /\ patience' = patience /\ senseKey' = senseKey
<1>1. ring[e] \in Ring /\ EndsInLink(ring[e]) /\ taker[e] \in Taker
  BY DEF UsbTypes, GoodRings
<1>2. Ready(ring[e].trbs, taker[e])
  BY DEF Takes
<1>3. /\ Passed(ring[e].trbs, taker[e]) \in Taker
      /\ ring[e].trbs[Followed(ring[e].trbs, taker[e]).at].what \in Whats
  BY <1>1, <1>2, TakerType
<1>4. /\ ring' = ring /\ hidVars' = hidVars /\ call' = call /\ calm' = calm
      /\ patience' = patience /\ senseKey' = senseKey
      /\ taker' = [taker EXCEPT ![e] = Passed(ring[e].trbs, taker[e])]
  BY DEF Takes
<1> QED
  BY <1>3, <1>4 DEF UsbTypes, Taken

LEMMA LandsType ==
    ASSUME DiskTypes, NEW target, NEW content \in Contents, NEW key \in Keys,
           Lands(target, content, key)
    PROVE  /\ buffer' \in Contents /\ csw' \in {<<>>, <<"good">>, <<"bad">>, <<"junk">>}
           /\ sense' \in Keys \cup {"none"}
BY DEF Lands, DiskTypes

LEMMA ReportTrb == <<"report">> \in Whats
BY DEF Whats, Targets

LEMMA MainLoopTypes ==
    ASSUME TypeInv, MainLoop
    PROVE  TypeInv'
<1> USE DEF TypeInv
<1>1. UNCHANGED diskVars
  BY DEF MainLoop, PollHid, HandleReport, DropEvent, PollEnds
<1>2. CallTypes' /\ DiskTypes'
  BY <1>1 DEF CallTypes, DiskTypes, diskVars
<1>3. \A h \in Hids : LET m == HidEnqueue(ring[h], <<"report">>)
                      IN m \in Ring /\ EndsInLink(m)
  BY ReportTrb, HidEnqueueType DEF UsbTypes, GoodRings, Endpoints
<1>4. Hids \cap Bulk = {} /\ \A e \in Endpoints : e \notin Hids => e \in Bulk
  BY XhciAssumption DEF Endpoints
<1>5. Burst \in 0..Burst /\ 0 \in 0..Burst
  BY XhciAssumption
<1>6. CASE PollHid
  <2>1. /\ ring' = [e \in Endpoints |-> IF e \in Hids THEN Submitted(e) ELSE ring[e]]
        /\ pending' = [h \in Hids |-> TRUE] /\ polls' = Burst
        /\ taker' = taker /\ control' = control /\ swallowed' = swallowed
        /\ call.stage \in Over
    BY <1>6 DEF PollHid, Idle
  <2>2. \A h \in Hids : Submitted(h) \in Ring /\ EndsInLink(Submitted(h))
    BY <1>3 DEF Submitted, UsbTypes, GoodRings, Endpoints
  <2>3. GoodRings(ring')
    BY <1>4, <2>1, <2>2 DEF UsbTypes, GoodRings, Endpoints
  <2>4. UsbTypes' /\ HidTypes'
    BY <1>5, <2>1, <2>3 DEF UsbTypes, HidTypes
  <2> QED
    BY <1>1, <1>2, <2>1, <2>4 DEF diskVars
<1>7. ASSUME NEW h \in Hids, HandleReport(h)
      PROVE  TypeInv'
  <2>1. /\ ring' = [ring EXCEPT ![h] = HidEnqueue(ring[h], <<"report">>)]
        /\ pending' = [pending EXCEPT ![h] = TRUE] /\ polls > 0 /\ polls' = polls - 1
        /\ taker' = taker /\ control' = control /\ swallowed' = swallowed
    BY <1>7 DEF HandleReport
  <2>2. h \in Endpoints /\ h \notin Bulk
    BY <1>4 DEF Endpoints
  <2> DEFINE m == HidEnqueue(ring[h], <<"report">>)
  <2>3. m \in Ring /\ EndsInLink(m)
    BY <1>3
  <2> HIDE DEF m
  <2>4. GoodRings(ring')
    BY <2>1, <2>2, <2>3 DEF UsbTypes, GoodRings, m
  <2>5. polls' \in 0..Burst
    BY <2>1, XhciAssumption DEF HidTypes
  <2>6. call.stage \in Over
    BY <2>1
  <2>7. UsbTypes' /\ HidTypes'
    BY <2>1, <2>4, <2>5 DEF UsbTypes, HidTypes
  <2> QED
    BY <1>1, <1>2, <2>6, <2>7 DEF diskVars
<1>8. CASE DropEvent \/ PollEnds
  <2>1. /\ ring' = ring /\ pending' = pending /\ polls > 0 /\ polls' \in {0, polls - 1}
        /\ taker' = taker /\ control' = control /\ swallowed' = swallowed
    BY <1>8 DEF DropEvent, PollEnds, usbVars
  <2>2. polls' \in 0..Burst
    BY <2>1, XhciAssumption DEF HidTypes
  <2>3. UsbTypes' /\ HidTypes'
    BY <2>1, <2>2 DEF UsbTypes, HidTypes
  <2> QED
    BY <1>1, <1>2, <2>1, <2>3 DEF diskVars
<1> QED
  BY <1>6, <1>7, <1>8 DEF MainLoop

LEMMA DiskCallTypes ==
    ASSUME TypeInv, DiskCall
    PROVE  TypeInv'
<1> USE DEF TypeInv
<1>1. call.stage \in Waiting \cup {"failed"}
  BY DEF DiskCall, TransferCompletes, SwallowEvent, TransferTimesOut, TestFails
<1>2. polls = 0
  BY <1>1 DEF Waiting, Over
<1>3. CASE TransferCompletes
  <2>1. /\ call.stage \in Waiting
        /\ Continue(Completed(call)) /\ calm' = (calm /\ call'.stage # "reset")
        /\ taker' = taker /\ UNCHANGED hidVars /\ buffer' = buffer /\ csw' = csw
        /\ sense' = sense /\ senseKey' = Parsed
        /\ device' = device /\ disk' = disk /\ patience' = patience
    BY <1>3 DEF TransferCompletes
  <2>2. GoodRings(ring') /\ control' \in Seq({"reset", "clear"}) /\ CallTypes'
    BY <2>1, ContinueType
  <2>3. calm' \in BOOLEAN
    BY <2>1
  <2>4. senseKey' \in Keys
    BY <2>1 DEF Parsed, DiskTypes
  <2> QED
    BY <1>2, <2>1, <2>2, <2>3, <2>4 DEF UsbTypes, HidTypes, DiskTypes, hidVars
<1>4. CASE SwallowEvent
  <2>1. /\ ring' = ring /\ taker' = taker /\ control' = control /\ pending' = pending
        /\ polls' = polls /\ UNCHANGED diskVars
        /\ swallowed' = [swallowed EXCEPT ![EventSlot] = swallowed[EventSlot] + 1]
    BY <1>4 DEF SwallowEvent
  <2>2. swallowed' \in [HidSlots -> Nat]
    <3> DEFINE s == EventSlot
    <3>1. swallowed' = [swallowed EXCEPT ![s] = swallowed[s] + 1]
      BY <2>1
    <3> HIDE DEF s
    <3>2. CASE s \in HidSlots
      BY <3>1, <3>2 DEF HidTypes
    <3>3. CASE s \notin HidSlots
      BY <3>1, <3>3 DEF HidTypes
    <3> QED
      BY <3>2, <3>3
  <2> QED
    BY <1>2, <2>1, <2>2 DEF UsbTypes, HidTypes, DiskTypes, CallTypes, diskVars
<1>5. CASE TransferTimesOut
  <2>1. /\ call.stage \in Waiting /\ Continue(TimedOut(call)) /\ calm' = FALSE
        /\ taker' = taker /\ UNCHANGED hidVars /\ buffer' = buffer /\ csw' = csw
        /\ sense' = sense /\ senseKey' = senseKey /\ disk' = disk
        /\ \/ patience > 0 /\ patience' = patience - 1 /\ device' = device
           \/ device' = [device EXCEPT !.phase = "hung"] /\ patience' = patience
    BY <1>5 DEF TransferTimesOut
  <2>2. GoodRings(ring') /\ control' \in Seq({"reset", "clear"}) /\ CallTypes'
    BY <2>1, ContinueType
  <2>3. patience' \in 0..MaxTimeouts /\ device' \in Device
    BY <2>1, XhciAssumption DEF DiskTypes, Device
  <2> QED
    BY <1>2, <2>1, <2>2, <2>3 DEF UsbTypes, HidTypes, DiskTypes, hidVars
<1>6. CASE TestFails
  <2>1. /\ call.stage = "failed" /\ Continue(Untested(call))
        /\ calm' = (calm /\ call'.stage # "reset")
        /\ taker' = taker /\ UNCHANGED hidVars /\ buffer' = buffer /\ csw' = csw
        /\ sense' = sense /\ senseKey' = senseKey
        /\ device' = device /\ disk' = disk /\ patience' = patience
    BY <1>6 DEF TestFails
  <2>2. GoodRings(ring') /\ control' \in Seq({"reset", "clear"}) /\ CallTypes'
    BY <2>1, ContinueType
  <2>3. calm' \in BOOLEAN
    BY <2>1
  <2> QED
    BY <1>2, <2>1, <2>2, <2>3 DEF UsbTypes, HidTypes, DiskTypes, hidVars
<1> QED
  BY <1>3, <1>4, <1>5, <1>6 DEF DiskCall

LEMMA BeginTypes ==
    ASSUME TypeInv, NEW op \in {"read", "write"}, NEW b \in Blocks, BeginCall(op, b)
    PROVE  TypeInv'
<1> USE DEF TypeInv
<1> DEFINE c == [stage |-> "cbw", op |-> op, block |-> b, n |-> call.n + 1,
                 tried |-> FALSE, halts |-> 0, within |-> <<>>]
<1>1. /\ polls = 0 /\ call.n < MaxCalls /\ call' = c /\ ring' = Enqueued(c, ring)
      /\ buffer' = <<>>
      /\ taker' = taker /\ control' = control /\ UNCHANGED hidVars /\ csw' = csw
      /\ sense' = sense /\ senseKey' = senseKey
      /\ device' = device /\ disk' = disk /\ calm' = calm /\ patience' = patience
  BY DEF BeginCall, Idle
<1>2. call.n + 1 \in 1..MaxCalls /\ call.n + 1 \in 0..MaxCalls /\ 0 \in 0..HaltsCleared
  BY <1>1, XhciAssumption DEF CallTypes, Call
<1>3. c \in Call /\ Begun(c)
  <2>1. <<>> \in Seq(Tests) /\ "cbw" \in Stages
    BY DEF Stages, Waiting
  <2> QED
    BY <1>2, <2>1 DEF Call, Begun
<1> HIDE DEF c
<1>4. GoodRings(ring')
  BY <1>1, <1>3, EnqueuedType DEF UsbTypes
<1>5. buffer' \in Contents
  BY <1>1 DEF Contents
<1> QED
  BY <1>1, <1>3, <1>4, <1>5 DEF UsbTypes, HidTypes, CallTypes, DiskTypes, hidVars

LEMMA DevicesTypes ==
    ASSUME TypeInv, Devices
    PROVE  TypeInv'
<1> USE DEF TypeInv
<1>1. Hids \subseteq Endpoints /\ "out" \in Endpoints /\ "in" \in Endpoints
  BY DEF Endpoints, Bulk
<1>2. ASSUME NEW e \in Endpoints, Takes(e)
      PROVE  /\ Taken(e) \in Whats /\ GoodRings(ring') /\ taker' \in [Endpoints -> Taker]
             /\ HidTypes' /\ CallTypes' /\ calm' \in BOOLEAN /\ patience' \in 0..MaxTimeouts
             /\ senseKey' \in Keys
             /\ (polls = 0 \/ call.stage \in Over)'
  BY <1>2, TakesType DEF HidTypes, CallTypes, DiskTypes, hidVars
<1>3. ASSUME NEW h \in Hids, Report(h)
      PROVE  TypeInv'
  BY <1>1, <1>2, <1>3 DEF Report, UsbTypes, DiskTypes
<1>4. ASSUME NEW good \in BOOLEAN, DiskAccepts(good)
      PROVE  TypeInv'
  <2> DEFINE phase == CASE Taken("out")[2] = "write" -> "out"
                        [] Taken("out")[2] = "test" -> "status"
                        [] OTHER -> "in"
  <2>1. /\ Takes("out") /\ Taken("out") \in Commands
        /\ device' = [phase |-> phase, command |-> Taken("out"), good |-> good]
        /\ control' = control /\ buffer' = buffer /\ csw' = csw /\ sense' = sense /\ disk' = disk
    BY <1>4 DEF DiskAccepts
  <2>2. phase \in {"out", "status", "in"}
    OBVIOUS
  <2> HIDE DEF phase
  <2>3. device' \in Device
    BY <2>1, <2>2 DEF Device
  <2> QED
    BY <1>1, <1>2, <2>1, <2>3 DEF UsbTypes, DiskTypes
<1>5. ASSUME NEW good \in BOOLEAN, DiskWrites(good)
      PROVE  TypeInv'
  <2>1. /\ Takes("out")
        /\ disk' = [disk EXCEPT ![device.command[3]] =
                       IF ~good THEN @ ELSE IF Taken("out") \in Data THEN Taken("out") ELSE <<"junk">>]
        /\ device' = [device EXCEPT !.phase = "status", !.good = good]
        /\ control' = control /\ buffer' = buffer /\ csw' = csw /\ sense' = sense
    BY <1>5 DEF DiskWrites
  <2>2. device' \in Device
    BY <2>1 DEF DiskTypes, Device
  <2>3. <<"junk">> \in Data
    BY DEF Data
  <2>4. disk' \in [Blocks -> Data]
    <3>1. CASE device.command[3] \in Blocks
      BY <2>1, <2>3, <3>1 DEF DiskTypes
    <3>2. CASE device.command[3] \notin Blocks
      BY <2>1, <3>2 DEF DiskTypes
    <3> QED
      BY <3>1, <3>2
  <2> QED
    BY <1>1, <1>2, <2>1, <2>2, <2>4 DEF UsbTypes, DiskTypes
<1>6. ASSUME NEW good \in BOOLEAN, NEW key \in Keys, DiskSends(good, key)
      PROVE  TypeInv'
  <2> DEFINE content == IF ~good THEN <<"junk">>
                        ELSE IF device.command[2] = "read" THEN disk[device.command[3]]
                        ELSE <<"sense">>
  <2>1. /\ Takes("in") /\ Lands(Taken("in"), content, key)
        /\ device' = [device EXCEPT !.phase = "status", !.good = good]
        /\ control' = control /\ disk' = disk
    BY <1>6 DEF DiskSends
  <2>2. device' \in Device
    BY <2>1 DEF DiskTypes, Device
  <2>3. device.command[2] = "read" => device.command[3] \in Blocks
    <3>1. device.command \in Commands
      BY DEF DiskTypes, Device
    <3> QED
      BY <3>1 DEF Commands
  <2>4. content \in Contents
    BY <2>3 DEF DiskTypes, Contents, Data
  <2> HIDE DEF content
  <2>5. /\ buffer' \in Contents /\ csw' \in {<<>>, <<"good">>, <<"bad">>, <<"junk">>}
        /\ sense' \in Keys \cup {"none"}
    BY <2>1, <2>4, LandsType
  <2> QED
    BY <1>1, <1>2, <2>1, <2>2, <2>5 DEF UsbTypes, DiskTypes
<1>7. CASE DiskConcludes
  <2> DEFINE content == IF device.good THEN <<"good">> ELSE <<"bad">>
  <2>1. /\ Takes("in") /\ Lands(Taken("in"), content, "other")
        /\ device' = [device EXCEPT !.phase = "idle"]
        /\ control' = control /\ disk' = disk
    BY <1>7 DEF DiskConcludes
  <2>2. device' \in Device
    BY <2>1 DEF DiskTypes, Device
  <2>3. content \in Contents /\ "other" \in Keys
    BY DEF Contents, Keys
  <2> HIDE DEF content
  <2>4. /\ buffer' \in Contents /\ csw' \in {<<>>, <<"good">>, <<"bad">>, <<"junk">>}
        /\ sense' \in Keys \cup {"none"}
    BY <2>1, <2>3, LandsType
  <2> QED
    BY <1>1, <1>2, <2>1, <2>2, <2>4 DEF UsbTypes, DiskTypes
<1>8. CASE DiskObeys
  <2>1. /\ control # <<>> /\ control' = Tail(control)
        /\ device' \in {device, [device EXCEPT !.phase = "idle"]}
        /\ ring' = ring /\ taker' = taker /\ hidVars' = hidVars /\ call' = call
        /\ buffer' = buffer /\ csw' = csw /\ disk' = disk /\ calm' = calm
        /\ patience' = patience /\ sense' = sense /\ senseKey' = senseKey
    BY <1>8 DEF DiskObeys
  <2>2. device' \in Device
    BY <2>1 DEF DiskTypes, Device
  <2>3. control' \in Seq({"reset", "clear"})
    BY <2>1 DEF UsbTypes
  <2> QED
    BY <2>1, <2>2, <2>3 DEF UsbTypes, HidTypes, CallTypes, DiskTypes, hidVars
<1> QED
  BY <1>3, <1>4, <1>5, <1>6, <1>7, <1>8 DEF Devices

LEMMA TypesInit == Init => TypeInv
<1> SUFFICES ASSUME Init PROVE TypeInv
  OBVIOUS
<1> USE DEF Init
<1>1. /\ <<>> \in Whats /\ 0 \in 0..1 /\ 1 \in 0..1 /\ 0 \in 0..Burst /\ 0 \in 0..MaxCalls
      /\ 0 \in 0..HaltsCleared /\ MaxTimeouts \in 0..MaxTimeouts
  BY XhciAssumption DEF Whats
<1>2. Trb("none", 0, <<>>) \in TRBs
  BY <1>1, TrbType
<1>3. GoodRings(ring)
  BY <1>1, <1>2, RingBounds DEF GoodRings, Ring, EndsInLink, Trb, RingPlaces, Endpoints
<1>4. taker \in [Endpoints -> Taker]
  BY <1>1, RingBounds DEF Taker
<1>5. UsbTypes
  BY <1>3, <1>4 DEF UsbTypes
<1>6. HidTypes
  BY <1>1 DEF HidTypes
<1>7. CallTypes /\ call.stage \in Over
  <2>1. <<>> \in Seq(Tests) /\ "none" \in Stages /\ "none" \in Over
    BY DEF Stages, Over
  <2> QED
    BY <1>1, <2>1 DEF CallTypes, Call
<1>8. <<"cbw", "sense">> \in Commands /\ <<"data", 0>> \in Data
  BY <1>1 DEF Commands, Data
<1>9. DiskTypes
  BY <1>1, <1>8 DEF DiskTypes, Device, Contents
<1> QED
  BY <1>5, <1>6, <1>7, <1>9 DEF TypeInv

LEMMA TypesStep == TypeInv /\ [Next]_vars => TypeInv'
<1> SUFFICES ASSUME TypeInv, [Next]_vars PROVE TypeInv'
  OBVIOUS
<1>1. ASSUME NEW op \in {"read", "write"}, NEW b \in Blocks, BeginCall(op, b)
      PROVE  TypeInv'
  BY <1>1, BeginTypes
<1>2. CASE UNCHANGED vars
  BY <1>2 DEF TypeInv, UsbTypes, HidTypes, CallTypes, DiskTypes, vars, usbVars, hidVars, diskVars
<1> QED
  BY <1>1, <1>2, MainLoopTypes, DiskCallTypes, DevicesTypes DEF Next

LEMMA EventsInit == Init => EventInv
<1> SUFFICES ASSUME Init PROVE EventInv
  OBVIOUS
<1> USE DEF Init
<1>1. 0 \in EventPlaces /\ 0 < EventRingSize /\ 0 \in 0..1 /\ 1 \in 0..1
  BY XhciAssumption DEF EventPlaces
<1>2. /\ events.trbs = [i \in EventPlaces |-> [cycle |-> 0, ep |-> "none"]]
      /\ events.index = 0 /\ events.cycle = 1
      /\ events = [trbs |-> [i \in EventPlaces |-> [cycle |-> 0, ep |-> "none"]],
                   index |-> 0, cycle |-> 1]
  BY DEF EventPlaces
<1>3. events \in EventRing
  BY <1>1, <1>2 DEF EventRing
<1>4. /\ fifo \in Seq(Endpoints \cup {"ep0"}) /\ Len(fifo) = 0
      /\ poster \in [at : EventPlaces, cycle : 0..1] /\ poster.at = 0 /\ poster.cycle = 1
  BY <1>1
<1> HIDE DEF Init
<1>5. \A k \in EventPlaces : At(0, k) = k /\ Bit(0, 1, k) = 1 /\ ~(k < 0)
  BY XhciAssumption DEF At, Bit, EventPlaces
<1>6. \A k \in EventPlaces :
         events.trbs[At(events.index, k)].cycle = Bit(events.index, events.cycle, k)
            <=> k < Len(fifo)
  <2>1. \A k \in EventPlaces : events.trbs[k] = [cycle |-> 0, ep |-> "none"]
    BY <1>2
  <2> QED
    BY <1>2, <1>4, <1>5, <2>1
<1>7. \A k \in 1 .. Len(fifo) : FALSE
  BY <1>4
<1>8. poster.at = At(events.index, Len(fifo)) /\ poster.cycle = Bit(events.index, events.cycle, Len(fifo))
  BY <1>1, <1>2, <1>4, <1>5
<1> QED
  BY <1>1, <1>3, <1>4, <1>6, <1>7, <1>8 DEF EventInv

\* An action posts one event, takes one, or leaves the event ring alone.
LEMMA EventMoves ==
    ASSUME TypeInv, [Next]_vars
    PROVE  \/ UNCHANGED <<events, poster, fifo>>
           \/ TakeEvent /\ poster' = poster
           \/ \E e \in Endpoints \cup {"ep0"} : PostEvent(e)
<1>1. Hids \subseteq Endpoints /\ "out" \in Endpoints /\ "in" \in Endpoints
  BY DEF Endpoints, Bulk
<1>2. CASE MainLoop
  BY <1>2 DEF MainLoop, PollHid, HandleReport, DropEvent, PollEnds, usbVars
<1>3. CASE DiskCall
  BY <1>3 DEF DiskCall, TransferCompletes, SwallowEvent, TransferTimesOut, TestFails
<1>4. CASE \E op \in {"read", "write"}, b \in Blocks : BeginCall(op, b)
  BY <1>4 DEF BeginCall
<1>5. CASE Devices
  <2>1. ASSUME NEW e \in Endpoints, Takes(e)
        PROVE  \E d \in Endpoints \cup {"ep0"} : PostEvent(d)
    BY <2>1 DEF Takes
  <2>2. DiskObeys => PostEvent("ep0")
    BY DEF DiskObeys
  <2>3. \/ \E e \in Endpoints : Takes(e)
        \/ DiskObeys
    BY <1>1, <1>5 DEF Devices, Report, DiskAccepts, DiskWrites, DiskSends, DiskConcludes
  <2> QED
    BY <2>1, <2>2, <2>3
<1>6. CASE UNCHANGED vars
  BY <1>6 DEF vars, usbVars
<1> QED
  BY <1>2, <1>3, <1>4, <1>5, <1>6 DEF Next

LEMMA EventsStep == TypeInv /\ EventInv /\ [Next]_vars => EventInv'
<1> SUFFICES ASSUME TypeInv, EventInv, [Next]_vars PROVE EventInv'
  OBVIOUS
<1>1. CASE UNCHANGED <<events, poster, fifo>>
  BY <1>1 DEF EventInv
<1> QED
  BY <1>1, EventMoves, TakeKeepsEvents, PostKeepsEvents

LEMMA RingsInvariant == Spec => [](TypeInv /\ EventInv)
BY TypesInit, TypesStep, EventsInit, EventsStep, PTL DEF Spec

\* The driver's and the controller's indices stay inside their rings, a TRB is
\* never written over or behind the link's place, and every buffer and record
\* holds what its type allows.
THEOREM XhciTypeCorrect == Spec => []TypeOK
<1>1. TypeInv /\ EventInv => TypeOK
  <2> SUFFICES ASSUME TypeInv, EventInv PROVE TypeOK
    OBVIOUS
  <2> USE DEF TypeInv
  <2>1. \A e \in Endpoints : /\ ring[e].trbs \in [0..(RingSize - 1) -> TRBs]
                             /\ ring[e].index \in 0..(RingSize - 1) /\ ring[e].cycle \in 0..1
    BY DEF UsbTypes, GoodRings, Ring, RingPlaces
  <2>2. taker \in [Endpoints -> [at : 0..(RingSize - 1), cycle : 0..1]]
    BY DEF UsbTypes, Taker, RingPlaces
  <2>3. /\ events.trbs \in [0..(EventRingSize - 1) -> [cycle : 0..1, ep : Endpoints \cup {"ep0", "none"}]]
        /\ events.index \in 0..(EventRingSize - 1) /\ events.cycle \in 0..1
        /\ poster \in [at : 0..(EventRingSize - 1), cycle : 0..1]
        /\ fifo \in Seq(Endpoints \cup {"ep0"})
    BY DEF EventInv, EventRing, EventPlaces
  <2>4. /\ call.stage \in Waiting \cup {"failed"} \cup Over /\ call.n \in 0..MaxCalls
        /\ call.within \in Seq([left : 0..(Retries - 1), recovered : BOOLEAN])
    BY DEF CallTypes, Call, Stages, Tests
  <2>5. device.phase \in {"idle", "out", "in", "status", "hung"}
    BY DEF DiskTypes, Device
  <2> QED
    BY <2>1, <2>2, <2>3, <2>4, <2>5 DEF TypeOK, UsbTypes, HidTypes, DiskTypes, Contents
<1> QED
  BY <1>1, RingsInvariant, PTL

\* Whatever number of events the ring holds and however often it has turned,
\* the cycle bits show the driver the events the controller has posted and it has
\* not taken, in order, and nothing else.
THEOREM EventRingIsQueue == Spec => []EventsAreFifo
BY RingsInvariant, EventInvMeans, PTL

-----------------------------------------------------------------------------
(* How often an endpoint is in the event ring: never, once, or how often.  *)

None(f, e) == \A k \in DOMAIN f : f[k] # e
One(f, e) == \E k \in DOMAIN f : f[k] = e /\ \A j \in DOMAIN f : f[j] = e => j = k

LEMMA Counted ==
    ASSUME NEW f, NEW e
    PROVE  /\ None(f, e) => Cardinality({k \in DOMAIN f : f[k] = e}) = 0
           /\ One(f, e) => Cardinality({k \in DOMAIN f : f[k] = e}) = 1
<1>1. ASSUME None(f, e)
      PROVE  Cardinality({k \in DOMAIN f : f[k] = e}) = 0
  <2>1. {k \in DOMAIN f : f[k] = e} = {}
    BY <1>1 DEF None
  <2> QED
    BY <2>1, FS_EmptySet
<1>2. ASSUME One(f, e)
      PROVE  Cardinality({k \in DOMAIN f : f[k] = e}) = 1
  <2>1. PICK k \in DOMAIN f : f[k] = e /\ \A j \in DOMAIN f : f[j] = e => j = k
    BY <1>2 DEF One
  <2>2. {j \in DOMAIN f : f[j] = e} = {k}
    BY <2>1
  <2> QED
    BY <2>2, FS_Singleton
<1> QED
  BY <1>1, <1>2

LEMMA AppendCounts ==
    ASSUME NEW S, NEW f \in Seq(S), NEW e \in S
    PROVE  /\ None(f, e) => One(Append(f, e), e)
           /\ \A x : x # e => /\ None(f, x) => None(Append(f, e), x)
                              /\ One(f, x) => One(Append(f, e), x)
<1> DEFINE g == Append(f, e)
           n == Len(f)
<1>1. /\ n \in Nat /\ DOMAIN f = 1 .. n /\ DOMAIN g = 1 .. n + 1
      /\ \A k \in 1 .. n : g[k] = f[k]
      /\ g[n + 1] = e
  OBVIOUS
<1> HIDE DEF g, n
<1>2. \A k \in DOMAIN g : k = n + 1 \/ (k \in DOMAIN f /\ g[k] = f[k])
  BY <1>1
<1>3. n + 1 \in DOMAIN g /\ \A k \in DOMAIN f : k \in DOMAIN g /\ g[k] = f[k]
  BY <1>1
<1>4. None(f, e) => One(g, e)
  BY <1>1, <1>2, <1>3 DEF None, One
<1>5. \A x : x # e => /\ None(f, x) => None(g, x)
                      /\ One(f, x) => One(g, x)
  BY <1>1, <1>2, <1>3 DEF None, One
<1> QED
  BY <1>4, <1>5 DEF g

LEMMA TailCounts ==
    ASSUME NEW S, NEW f \in Seq(S), f # <<>>
    PROVE  /\ One(f, f[1]) => None(Tail(f), f[1])
           /\ ~None(f, f[1])
           /\ \A x : None(f, x) => None(Tail(f), x)
           /\ \A x : x # f[1] => (One(f, x) => One(Tail(f), x))
<1> DEFINE g == Tail(f)
           n == Len(f)
<1>1. /\ n \in Nat /\ n > 0 /\ DOMAIN f = 1 .. n /\ DOMAIN g = 1 .. n - 1
      /\ \A k \in 1 .. n - 1 : g[k] = f[k + 1]
  BY EmptySeq
<1> HIDE DEF g, n
<1>2. \A k \in DOMAIN g : k + 1 \in DOMAIN f /\ g[k] = f[k + 1] /\ k + 1 # 1
  BY <1>1
<1>3. \A k \in DOMAIN f : k = 1 \/ (k - 1 \in DOMAIN g /\ g[k - 1] = f[k])
  BY <1>1
<1>4. 1 \in DOMAIN f
  BY <1>1
<1>5. ~None(f, f[1])
  BY <1>4 DEF None
<1>6. One(f, f[1]) => None(g, f[1])
  BY <1>2, <1>4 DEF One, None
<1>7. \A x : None(f, x) => None(g, x)
  BY <1>2 DEF None
<1>8. ASSUME NEW x, x # f[1], One(f, x)
      PROVE  One(g, x)
  <2>1. PICK k \in DOMAIN f : f[k] = x /\ \A j \in DOMAIN f : f[j] = x => j = k
    BY <1>8 DEF One
  <2>2. k - 1 \in DOMAIN g /\ g[k - 1] = x
    BY <1>3, <1>8, <2>1
  <2>3. \A j \in DOMAIN g : g[j] = x => j + 1 = k
    BY <1>2, <2>1
  <2>4. \A j \in DOMAIN g : g[j] = x => j = k - 1
    BY <1>1, <2>1, <2>3
  <2> QED
    BY <2>2, <2>4 DEF One
<1> QED
  BY <1>5, <1>6, <1>7, <1>8 DEF g

\* How many events of endpoint e are in the event ring.
EventsOf(f, e) == {k \in DOMAIN f : f[k] = e}
Count(f, e) == Cardinality(EventsOf(f, e))

LEMMA CountType ==
    ASSUME NEW S, NEW f \in Seq(S), NEW x
    PROVE  IsFiniteSet(EventsOf(f, x)) /\ Count(f, x) \in Nat
<1>1. IsFiniteSet(1 .. Len(f)) /\ DOMAIN f = 1 .. Len(f)
  BY FS_Interval
<1>2. EventsOf(f, x) \in SUBSET (1 .. Len(f))
  BY <1>1 DEF EventsOf
<1>3. IsFiniteSet(EventsOf(f, x))
  BY <1>1, <1>2, FS_Subset
<1> QED
  BY <1>3, FS_CardinalityType DEF Count

LEMMA CountAppend ==
    ASSUME NEW S, NEW f \in Seq(S), NEW e \in S, NEW x
    PROVE  Count(Append(f, e), x) = Count(f, x) + (IF x = e THEN 1 ELSE 0)
<1> DEFINE g == Append(f, e)
           n == Len(f)
<1>1. /\ n \in Nat /\ DOMAIN f = 1 .. n /\ DOMAIN g = 1 .. n + 1
      /\ \A k \in 1 .. n : g[k] = f[k]
      /\ g[n + 1] = e
  OBVIOUS
<1>2. IsFiniteSet(EventsOf(f, x)) /\ Count(f, x) \in Nat
  BY CountType
<1> HIDE DEF g, n
<1>3. 1 .. n + 1 = (1 .. n) \cup {n + 1} /\ n + 1 \notin 1 .. n
  BY <1>1
<1>4. CASE x = e
  <2>1. EventsOf(g, x) = EventsOf(f, x) \cup {n + 1} /\ n + 1 \notin EventsOf(f, x)
    BY <1>1, <1>3, <1>4 DEF EventsOf
  <2>2. Cardinality(EventsOf(f, x) \cup {n + 1}) = Cardinality(EventsOf(f, x)) + 1
    BY <1>2, <2>1, FS_AddElement
  <2> QED
    BY <1>4, <2>1, <2>2 DEF Count, g
<1>5. CASE x # e
  <2>1. EventsOf(g, x) = EventsOf(f, x)
    BY <1>1, <1>3, <1>5 DEF EventsOf
  <2> QED
    BY <1>2, <1>5, <2>1 DEF Count, g
<1> QED
  BY <1>4, <1>5

LEMMA CountTail ==
    ASSUME NEW S, NEW f \in Seq(S), f # <<>>, NEW x
    PROVE  /\ Count(f, f[1]) >= 1
           /\ Count(Tail(f), x) = Count(f, x) - (IF x = f[1] THEN 1 ELSE 0)
<1> DEFINE g == Tail(f)
           n == Len(f)
           T == EventsOf(g, x)
           B == EventsOf(f, x) \ {1}
           next == [k \in T |-> k + 1]
<1>1. /\ n \in Nat /\ n > 0 /\ DOMAIN f = 1 .. n /\ DOMAIN g = 1 .. n - 1
      /\ \A k \in 1 .. n - 1 : g[k] = f[k + 1]
      /\ g \in Seq(S)
  BY EmptySeq
<1>2. /\ IsFiniteSet(EventsOf(f, x)) /\ Count(f, x) \in Nat
      /\ IsFiniteSet(EventsOf(f, f[1])) /\ Count(f, f[1]) \in Nat
  BY CountType
<1>3. IsFiniteSet(T)
  BY <1>1, CountType
<1>4. T \subseteq 1 .. n - 1 /\ \A k \in T : k + 1 \in B
  BY <1>1 DEF EventsOf
<1>5. \A j \in B : j - 1 \in T /\ j \in Int
  BY <1>1 DEF EventsOf
<1>6. Cardinality(B) = Cardinality(T)
  <2> HIDE DEF T, B, g, n
  <2>1. next \in [T -> B]
    BY <1>4
  <2>2. \A j, k \in T : next[j] = next[k] => j = k
    BY <1>1, <1>4
  <2>3. \A j \in B : \E k \in T : next[k] = j
    <3> TAKE j \in B
    <3>1. j - 1 \in T /\ next[j - 1] = j
      BY <1>5
    <3> QED
      BY <3>1
  <2> HIDE DEF next
  <2>4. next \in Bijection(T, B)
    BY <2>1, <2>2, <2>3, Fun_IsBij
  <2>5. ExistsBijection(T, B)
    BY <2>4, Fun_ExistsBij
  <2> QED
    BY <1>3, <2>5, FS_Bijection
<1>7. 1 \in EventsOf(f, f[1]) /\ (x # f[1] => 1 \notin EventsOf(f, x))
  BY <1>1 DEF EventsOf
<1>8. Cardinality(B) = IF 1 \in EventsOf(f, x) THEN Cardinality(EventsOf(f, x)) - 1
                       ELSE Cardinality(EventsOf(f, x))
  BY <1>2, FS_RemoveElement
<1>9. Count(f, f[1]) >= 1
  BY <1>2, <1>7, FS_EmptySet DEF Count
<1>10. Count(f, x) = Cardinality(EventsOf(f, x)) /\ Count(g, x) = Cardinality(T)
  BY DEF Count
<1> HIDE DEF T, B, g
<1>11. CASE x = f[1]
  BY <1>2, <1>6, <1>7, <1>8, <1>9, <1>10, <1>11 DEF g
<1>12. CASE x # f[1]
  BY <1>2, <1>6, <1>7, <1>8, <1>9, <1>10, <1>12 DEF g
<1> QED
  BY <1>11, <1>12

-----------------------------------------------------------------------------
(* A keyboard's or mouse's ring.  The TRBs in front of the driver's index  *)
(* carry its cycle bit, the others the other one; so the controller finds  *)
(* one TRB when it is one behind, and none when it has caught up, in every *)
(* lap.                                                                    *)

HidShape(r) ==
    \A j \in RingPlaces : /\ r.trbs[j].cycle = r.cycle <=> j < r.index
                          /\ j < r.index => r.trbs[j].type = "normal"
                          /\ j < RingSize - 1 => r.trbs[j].type # "link"
Caught(r, t) == t.at = r.index /\ t.cycle = r.cycle
Waits(r, t) == Ready(r.trbs, t) /\ Caught(r, Passed(r.trbs, t))

LEMMA CaughtIsQuiet ==
    ASSUME NEW r \in Ring, NEW t \in Taker, HidShape(r), Caught(r, t)
    PROVE  ~Ready(r.trbs, t) /\ Followed(r.trbs, t) = t
<1>1. t.at \in RingPlaces /\ r.trbs[t.at].cycle # t.cycle
  BY RingBounds DEF HidShape, Caught, Taker
<1>2. Followed(r.trbs, t) = t
  BY <1>1 DEF Followed
<1> QED
  BY <1>1, <1>2 DEF Ready

LEMMA HidEnqueueWaits ==
    ASSUME NEW r \in Ring, EndsInLink(r), HidShape(r), NEW t \in Taker, Caught(r, t),
           NEW what \in Whats
    PROVE  HidShape(HidEnqueue(r, what)) /\ Waits(HidEnqueue(r, what), t)
<1> DEFINE turned == r.index >= RingSize - 1
           i == IF turned THEN 0 ELSE r.index
           c == IF turned THEN 1 - r.cycle ELSE r.cycle
           linked == IF turned THEN [r.trbs EXCEPT ![r.index] = Trb("link", r.cycle, <<>>)] ELSE r.trbs
           trbs == [linked EXCEPT ![i] = Trb("normal", c, what)]
           q == HidEnqueue(r, what)
<1>1. q.trbs = trbs /\ q.index = i + 1 /\ q.cycle = c
  BY DEF HidEnqueue
<1>2. /\ r.index \in RingPlaces /\ r.cycle \in 0..1 /\ r.trbs \in [RingPlaces -> TRBs]
      /\ t.at \in RingPlaces /\ t.cycle \in 0..1 /\ t = [at |-> t.at, cycle |-> t.cycle]
      /\ t.at = r.index /\ t.cycle = r.cycle
  BY DEF Ring, Taker, Caught
<1>3. i \in RingPlaces /\ i < RingSize - 1 /\ c \in 0..1 /\ 1 - c # c /\ i + 1 \in RingPlaces
  BY <1>2, RingBounds
<1>4. turned => r.index = RingSize - 1
  BY <1>2, RingBounds
<1>5. linked \in [RingPlaces -> TRBs] \/ DOMAIN linked = RingPlaces
  BY <1>2
<1>6. \A j \in RingPlaces : trbs[j] = IF j = i THEN Trb("normal", c, what) ELSE linked[j]
  BY <1>2, <1>3
<1>7. \A j \in RingPlaces : linked[j] = IF turned /\ j = RingSize - 1 THEN Trb("link", r.cycle, <<>>)
                                        ELSE r.trbs[j]
  BY <1>2, <1>4
<1>8. \A j \in RingPlaces : trbs[j].cycle \in 0..1
  BY <1>2, <1>3, <1>6, <1>7 DEF Trb, TRBs
<1> HIDE DEF trbs, linked, q, HidEnqueue
<1>9. CASE turned
  <2>1. i = 0 /\ c = 1 - r.cycle /\ r.index = RingSize - 1 /\ r.cycle # c /\ 1 - t.cycle = c
    BY <1>2, <1>4, <1>9, RingBounds
  <2> HIDE DEF turned, i, c
  <2>2. \A j \in RingPlaces : j # 0 => trbs[j].cycle = r.cycle
    <3> SUFFICES ASSUME NEW j \in RingPlaces, j # 0 PROVE trbs[j].cycle = r.cycle
      OBVIOUS
    <3>1. CASE j = RingSize - 1
      BY <1>3, <1>6, <1>7, <1>9, <2>1, <3>1, RingBounds DEF Trb
    <3>2. CASE j # RingSize - 1
      <4>1. j < RingSize - 1
        BY <3>2, RingBounds
      <4> QED
        BY <1>6, <1>7, <2>1, <3>2, <4>1 DEF HidShape
    <3> QED
      BY <3>1, <3>2
  <2>3. trbs[0].cycle = c /\ trbs[0].type = "normal"
    BY <1>3, <1>6, <2>1 DEF Trb
  <2>4. HidShape(q)
    <3> SUFFICES ASSUME NEW j \in RingPlaces
                 PROVE  /\ trbs[j].cycle = c <=> j < i + 1
                        /\ j < i + 1 => trbs[j].type = "normal"
                        /\ j < RingSize - 1 => trbs[j].type # "link"
      BY <1>1 DEF HidShape
    <3>1. j < i + 1 <=> j = 0
      BY <2>1, RingBounds
    <3>2. j < RingSize - 1 => trbs[j].type # "link"
      BY <1>6, <1>7, RingBounds DEF HidShape, Trb
    <3> QED
      BY <2>1, <2>2, <2>3, <3>1, <3>2
  <2>5. trbs[t.at].type = "link" /\ trbs[t.at].cycle = t.cycle
    <3>1. t.at = RingSize - 1 /\ t.at # i
      BY <1>2, <1>3, <2>1, RingBounds
    <3> QED
      BY <1>2, <1>6, <1>7, <1>9, <3>1 DEF Trb
  <2>6. Followed(trbs, t) = [at |-> 0, cycle |-> c]
    BY <2>1, <2>5 DEF Followed
  <2>7. Ready(trbs, t)
    BY <2>3, <2>6 DEF Ready
  <2>8. Passed(trbs, t).at = i + 1 /\ Passed(trbs, t).cycle = c
    BY <2>1, <2>6 DEF Passed
  <2> QED
    BY <1>1, <2>4, <2>7, <2>8 DEF Waits, Caught, q
<1>10. CASE ~turned
  <2>1. i = r.index /\ c = r.cycle /\ t.at = i /\ t.cycle = c
    BY <1>2, <1>10
  <2>2. \A j \in RingPlaces : linked[j] = r.trbs[j]
    BY <1>7, <1>10
  <2> HIDE DEF turned, i, c
  <2>3. trbs[i].cycle = c /\ trbs[i].type = "normal"
    BY <1>3, <1>6 DEF Trb
  <2>4. HidShape(q)
    <3> SUFFICES ASSUME NEW j \in RingPlaces
                 PROVE  /\ trbs[j].cycle = c <=> j < i + 1
                        /\ j < i + 1 => trbs[j].type = "normal"
                        /\ j < RingSize - 1 => trbs[j].type # "link"
      BY <1>1 DEF HidShape
    <3>1. CASE j = i
      BY <2>3, <3>1, <1>3, RingBounds
    <3>2. CASE j # i
      <4>1. j < i + 1 <=> j < i
        BY <1>3, <3>2, RingBounds
      <4>2. trbs[j] = r.trbs[j]
        BY <1>6, <2>2, <3>2
      <4> QED
        BY <2>1, <4>1, <4>2 DEF HidShape
    <3> QED
      BY <3>1, <3>2
  <2>5. Followed(trbs, t) = t
    BY <2>1, <2>3 DEF Followed
  <2>6. Ready(trbs, t)
    BY <2>1, <2>3, <2>5 DEF Ready
  <2>7. Passed(trbs, t).at = i + 1 /\ Passed(trbs, t).cycle = c
    BY <1>2, <2>1, <2>5 DEF Passed
  <2> QED
    BY <1>1, <2>4, <2>6, <2>7 DEF Waits, Caught, q
<1> QED
  BY <1>9, <1>10

\* A ring with room for two requests: of a keyboard and a mouse in one slot, one
\* may get the other's as well.
Behind(r, t, n) ==
    \/ n = 0 /\ Caught(r, t)
    \/ n = 1 /\ Waits(r, t)
    \/ n = 2 /\ Ready(r.trbs, t) /\ Waits(r, Passed(r.trbs, t))

\* The TRBs a controller at t can see: OnRing of a ring.
Depth(r, t) ==
    LET second == Passed(r.trbs, t)
    IN CASE ~Ready(r.trbs, t) -> 0
         [] Ready(r.trbs, t) /\ ~Ready(r.trbs, second) -> 1
         [] Ready(r.trbs, t) /\ Ready(r.trbs, second) /\ ~Ready(r.trbs, Passed(r.trbs, second)) -> 2
         [] OTHER -> 3

LEMMA BehindDepth ==
    ASSUME NEW r \in Ring, EndsInLink(r), HidShape(r), NEW t \in Taker, NEW n \in 0..2,
           Behind(r, t, n)
    PROVE  Depth(r, t) = n /\ (Ready(r.trbs, t) <=> n > 0)
<1> DEFINE p == Passed(r.trbs, t)
           q == Passed(r.trbs, p)
<1>1. CASE n = 0
  <2>1. ~Ready(r.trbs, t)
    BY <1>1, CaughtIsQuiet DEF Behind
  <2> QED
    BY <1>1, <2>1 DEF Depth
<1>2. CASE n = 1
  <2>1. Ready(r.trbs, t) /\ Caught(r, p)
    BY <1>2 DEF Behind, Waits
  <2>2. p \in Taker
    BY <2>1, TakerType
  <2>3. ~Ready(r.trbs, p)
    BY <2>1, <2>2, CaughtIsQuiet
  <2> QED
    BY <1>2, <2>1, <2>3 DEF Depth
<1>3. CASE n = 2
  <2>1. Ready(r.trbs, t) /\ Ready(r.trbs, p) /\ Caught(r, q)
    BY <1>3 DEF Behind, Waits
  <2>2. p \in Taker
    BY <2>1, TakerType
  <2>3. q \in Taker
    BY <2>1, <2>2, TakerType
  <2>4. ~Ready(r.trbs, q)
    BY <2>1, <2>3, CaughtIsQuiet
  <2> QED
    BY <1>3, <2>1, <2>4 DEF Depth
<1> QED
  BY <1>1, <1>2, <1>3

\* A request behind one that waits leaves that one where it is.
LEMMA SecondWaits ==
    ASSUME NEW r \in Ring, EndsInLink(r), HidShape(r), NEW t \in Taker, Waits(r, t),
           NEW what \in Whats
    PROVE  /\ Ready(HidEnqueue(r, what).trbs, t)
           /\ Passed(HidEnqueue(r, what).trbs, t) = Passed(r.trbs, t)
<1> DEFINE x == r.index
           last == RingSize - 1
           turned == x >= last
           i == IF turned THEN 0 ELSE x
           c == IF turned THEN 1 - r.cycle ELSE r.cycle
           linked == IF turned THEN [r.trbs EXCEPT ![x] = Trb("link", r.cycle, <<>>)] ELSE r.trbs
           q == HidEnqueue(r, what)
           f == Followed(r.trbs, t)
<1>1. q.trbs = [linked EXCEPT ![i] = Trb("normal", c, what)]
  BY DEF HidEnqueue
<1>2. /\ x \in RingPlaces /\ r.cycle \in 0..1 /\ r.trbs \in [RingPlaces -> TRBs]
      /\ t.at \in RingPlaces /\ t.cycle \in 0..1 /\ last \in RingPlaces /\ 0 \in RingPlaces
  BY RingBounds DEF Ring, Taker
<1>3. /\ Ready(r.trbs, t) /\ Passed(r.trbs, t).at = x /\ Passed(r.trbs, t).cycle = r.cycle
  BY DEF Waits, Caught
<1>4. /\ f.at + 1 = x /\ f.cycle = r.cycle /\ f \in Taker /\ f.at < last
      /\ r.trbs[f.at].type = "normal" /\ r.trbs[f.at].cycle = f.cycle
  BY <1>3, TakerType DEF Ready
<1>5. \/ f = t
      \/ /\ t.at = last /\ f.at = 0
         /\ r.trbs[t.at].type = "link" /\ r.trbs[t.at].cycle = t.cycle
         /\ f = [at |-> 0, cycle |-> 1 - t.cycle]
  <2>1. t.at # last => r.trbs[t.at].type # "link"
    BY <1>2, RingBounds DEF HidShape
  <2> QED
    BY <2>1 DEF Followed
<1>6. \A j \in RingPlaces : j # i /\ (turned => j # x) => q.trbs[j] = r.trbs[j]
  BY <1>1, <1>2
<1>7. f.at # i /\ (turned => f.at # x)
  BY <1>2, <1>4, RingBounds DEF Taker
<1>8. q.trbs[f.at] = r.trbs[f.at]
  BY <1>4, <1>6, <1>7 DEF Taker
<1>9. f # t => q.trbs[t.at] = r.trbs[t.at]
  BY <1>2, <1>4, <1>5, <1>6, RingBounds
<1> HIDE DEF q, i, c, linked
<1>10. Followed(q.trbs, t) = f
  <2>1. CASE f = t
    BY <1>4, <1>8, <2>1 DEF Followed
  <2>2. CASE f # t
    BY <1>5, <1>9, <2>2 DEF Followed
  <2> QED
    BY <2>1, <2>2
<1>11. Ready(q.trbs, t)
  BY <1>4, <1>8, <1>10 DEF Ready
<1>12. Passed(q.trbs, t) = Passed(r.trbs, t)
  BY <1>10 DEF Passed
<1> QED
  BY <1>11, <1>12 DEF q

LEMMA HidEnqueueBehind ==
    ASSUME NEW r \in Ring, EndsInLink(r), HidShape(r), NEW t \in Taker, NEW n \in {0, 1},
           Behind(r, t, n), NEW what \in Whats
    PROVE  HidShape(HidEnqueue(r, what)) /\ Behind(HidEnqueue(r, what), t, n + 1)
<1>1. CASE n = 0
  BY <1>1, HidEnqueueWaits DEF Behind
<1>2. CASE n = 1
  <2>1. Waits(r, t) /\ Ready(r.trbs, t) /\ Caught(r, Passed(r.trbs, t))
    BY <1>2 DEF Behind, Waits
  <2>2. Passed(r.trbs, t) \in Taker
    BY <2>1, TakerType
  <2>3. HidShape(HidEnqueue(r, what)) /\ Waits(HidEnqueue(r, what), Passed(r.trbs, t))
    BY <2>1, <2>2, HidEnqueueWaits
  <2>4. /\ Ready(HidEnqueue(r, what).trbs, t)
        /\ Passed(HidEnqueue(r, what).trbs, t) = Passed(r.trbs, t)
    BY <2>1, SecondWaits
  <2> QED
    BY <1>2, <2>3, <2>4 DEF Behind
<1> QED
  BY <1>1, <1>2

LEMMA PassedBehind ==
    ASSUME NEW r, NEW t, NEW n \in 1..2, Behind(r, t, n)
    PROVE  Behind(r, Passed(r.trbs, t), n - 1)
BY DEF Behind, Waits

-----------------------------------------------------------------------------
(* A bulk ring.  Its link is written with the last TRB in front of it, and *)
(* with cycle bit 1: the first lap ends in a link the controller follows,  *)
(* the second in one it does not, and there it stays.                      *)

BulkShape(r) ==
    /\ \A j \in RingPlaces : j < RingSize - 1 =>
          /\ r.trbs[j].type # "link"
          /\ r.trbs[j].cycle = r.cycle <=> j < r.index
    /\ \/ r.cycle = 1 /\ r.trbs[RingSize - 1].type = "none"
       \/ r.cycle = 0 /\ r.trbs[RingSize - 1].type = "link" /\ r.trbs[RingSize - 1].cycle = 1
InStep(r, t) == BulkShape(r) /\ Caught(r, Followed(r.trbs, t))
Stuck(r, t) == /\ t.at = RingSize - 1 /\ t.cycle = 0
               /\ r.trbs[RingSize - 1].type = "link" /\ r.trbs[RingSize - 1].cycle = 1
Done(r, t) == InStep(r, t) \/ Stuck(r, t)
BulkWaits(r, t, what) ==
    /\ Ready(r.trbs, t)
    /\ r.trbs[Followed(r.trbs, t).at].what = what
    /\ Done(r, Passed(r.trbs, t))

LEMMA DoneIsQuiet ==
    ASSUME NEW r \in Ring, NEW t \in Taker, r.index < RingSize - 1, Done(r, t)
    PROVE  ~Ready(r.trbs, t)
<1>1. ASSUME InStep(r, t) PROVE ~Ready(r.trbs, t)
  <2> DEFINE f == Followed(r.trbs, t)
  <2>1. f.at = r.index /\ f.cycle = r.cycle /\ r.index \in RingPlaces
    BY <1>1 DEF InStep, Caught, Ring
  <2> HIDE DEF f
  <2>2. r.trbs[f.at].cycle # f.cycle
    BY <1>1, <2>1, RingBounds DEF InStep, BulkShape
  <2> QED
    BY <2>2 DEF Ready, f
<1>2. ASSUME Stuck(r, t) PROVE ~Ready(r.trbs, t)
  BY <1>2 DEF Stuck, Ready, Followed
<1> QED
  BY <1>1, <1>2 DEF Done

LEMMA StuckStays ==
    ASSUME NEW r \in Ring, r.index < RingSize - 1, NEW t \in Taker, Stuck(r, t), NEW what \in Whats
    PROVE  Stuck(MscEnqueue(r, what), t)
<1> DEFINE put == [r.trbs EXCEPT ![r.index] = Trb("normal", r.cycle, what)]
           i == r.index + 1
           full == [put EXCEPT ![i] = Trb("link", 1, <<>>)]
<1>1. MscEnqueue(r, what).trbs = IF i >= RingSize - 1 THEN full ELSE put
  BY DEF MscEnqueue
<1>2. r.index \in RingPlaces /\ r.trbs \in [RingPlaces -> TRBs] /\ i \in RingPlaces
  BY RingBounds DEF Ring
<1>3. put[RingSize - 1] = r.trbs[RingSize - 1]
  BY <1>2, RingBounds
<1>4. full[RingSize - 1] = IF i = RingSize - 1 THEN Trb("link", 1, <<>>) ELSE put[RingSize - 1]
  BY <1>2, RingBounds
<1> HIDE DEF put, full, i
<1> QED
  BY <1>1, <1>3, <1>4 DEF Stuck, Trb

LEMMA MscEnqueueWaits ==
    ASSUME NEW r \in Ring, r.index < RingSize - 1, NEW t \in Taker, InStep(r, t),
           NEW what \in Whats
    PROVE  BulkWaits(MscEnqueue(r, what), t, what)
<1> DEFINE x == r.index
           c == r.cycle
           put == [r.trbs EXCEPT ![x] = Trb("normal", c, what)]
           full == [put EXCEPT ![x + 1] = Trb("link", 1, <<>>)]
           q == MscEnqueue(r, what)
           f == Followed(r.trbs, t)
           last == RingSize - 1
<1>1. q = IF x + 1 >= RingSize - 1
          THEN [trbs |-> full, index |-> 0, cycle |-> 1 - c]
          ELSE [trbs |-> put, index |-> x + 1, cycle |-> c]
  BY DEF MscEnqueue
<1>2. /\ x \in RingPlaces /\ c \in 0..1 /\ r.trbs \in [RingPlaces -> TRBs] /\ x + 1 \in RingPlaces
      /\ t.at \in RingPlaces /\ t.cycle \in 0..1 /\ x # last /\ x # x + 1 /\ last \in RingPlaces
      /\ x < last
  BY RingBounds DEF Ring, Taker
<1>3. f.at = x /\ f.cycle = c /\ BulkShape(r)
  BY DEF InStep, Caught
<1>4. f = t \/ (t.at = last /\ f = [at |-> 0, cycle |-> 1 - t.cycle])
  <2>1. t.at # last => r.trbs[t.at].type # "link"
    BY <1>2, <1>3, RingBounds DEF BulkShape
  <2> QED
    BY <2>1 DEF Followed
<1>5. /\ f = t => t.at = x /\ t.cycle = c
      /\ f # t => /\ t.at = last /\ x = 0 /\ c = 1 - t.cycle
                  /\ r.trbs[last].type = "link" /\ r.trbs[last].cycle = t.cycle /\ c = 0
  BY <1>2, <1>3, <1>4, RingBounds DEF Followed, BulkShape
<1>6. \A j \in RingPlaces : /\ put[j] = IF j = x THEN Trb("normal", c, what) ELSE r.trbs[j]
                            /\ full[j] = IF j = x + 1 THEN Trb("link", 1, <<>>) ELSE put[j]
  BY <1>2
<1> DEFINE n == q.trbs
<1>7. n[x].type = "normal" /\ n[x].cycle = c /\ n[x].what = what
  BY <1>1, <1>2, <1>6 DEF Trb
<1>8. f # t => n[last].type = "link" /\ n[last].cycle = t.cycle
  BY <1>1, <1>2, <1>3, <1>5, <1>6, RingBounds DEF Trb
<1> HIDE DEF q, n, put, full
<1>9. Followed(n, t).at = x /\ Followed(n, t).cycle = c
  <2>1. CASE f = t
    BY <1>5, <1>7, <2>1 DEF Followed
  <2>2. CASE f # t
    BY <1>5, <1>8, <2>2 DEF Followed
  <2> QED
    BY <2>1, <2>2
<1>10. Ready(n, t) /\ n[Followed(n, t).at].what = what
  BY <1>7, <1>9 DEF Ready
<1> DEFINE p == Passed(n, t)
<1>11. p.at = x + 1 /\ p.cycle = c
  <2>1. Followed(n, t) \in [at : RingPlaces, cycle : 0..1] \/ Followed(n, t) = t
    BY <1>2, RingBounds DEF Followed
  <2> QED
    BY <1>2, <1>9, <2>1 DEF Passed, Taker
<1> HIDE DEF p, f
<1>12. CASE x + 1 >= last
  <2>1. x + 1 = last /\ x = last - 1
    BY <1>2, <1>12, RingBounds
  <2>2. n = full /\ q.index = 0 /\ q.cycle = 1 - c
    BY <1>1, <1>12 DEF n
  <2>3. n[last].type = "link" /\ n[last].cycle = 1
    BY <1>2, <1>6, <2>1, <2>2 DEF Trb
  <2>4. ASSUME c = 0 PROVE Done(q, p)
    BY <1>11, <2>1, <2>3, <2>4 DEF Stuck, Done, n
  <2>5. ASSUME c = 1 PROVE Done(q, p)
    <3>1. Followed(n, p) = [at |-> 0, cycle |-> 0]
      BY <1>11, <2>1, <2>3, <2>5 DEF Followed
    <3>2. q.cycle = 0
      BY <2>2, <2>5
    <3>3. \A j \in RingPlaces : j < last => n[j].type # "link" /\ n[j].cycle = 1
      <4> SUFFICES ASSUME NEW j \in RingPlaces, j < last
                   PROVE  n[j].type # "link" /\ n[j].cycle = 1
        OBVIOUS
      <4>1. CASE j = x
        BY <1>7, <2>5, <4>1
      <4>2. CASE j # x
        <5>1. n[j] = r.trbs[j] /\ j < x
          BY <1>2, <1>6, <2>1, <2>2, <4>2, RingBounds
        <5> QED
          BY <1>3, <2>5, <5>1 DEF BulkShape
      <4> QED
        BY <4>1, <4>2
    <3>4. \A j \in RingPlaces : ~(j < 0)
      BY RingBounds
    <3>5. BulkShape(q)
      BY <2>2, <2>3, <3>2, <3>3, <3>4 DEF BulkShape, n
    <3>6. InStep(q, p)
      BY <2>2, <3>1, <3>2, <3>5 DEF InStep, Caught, n
    <3> QED
      BY <3>6 DEF Done
  <2>6. Done(q, p)
    BY <1>2, <2>4, <2>5
  <2> QED
    BY <1>10, <2>6 DEF BulkWaits, n, p, q
<1>13. CASE ~(x + 1 >= last)
  <2>1. n = put /\ q.index = x + 1 /\ q.cycle = c /\ x + 1 < last
    BY <1>1, <1>2, <1>13, RingBounds DEF n
  <2>2. n[last] = r.trbs[last]
    BY <1>2, <1>6, <2>1
  <2>3. \A j \in RingPlaces : j < last => n[j].type # "link" /\ (n[j].cycle = c <=> j < x + 1)
    <3> SUFFICES ASSUME NEW j \in RingPlaces, j < last
                 PROVE  n[j].type # "link" /\ (n[j].cycle = c <=> j < x + 1)
      OBVIOUS
    <3>1. CASE j = x
      BY <1>2, <1>7, <3>1, RingBounds
    <3>2. CASE j # x
      <4>1. n[j] = r.trbs[j] /\ (j < x + 1 <=> j < x)
        BY <1>2, <1>6, <2>1, <3>2, RingBounds
      <4> QED
        BY <1>3, <4>1 DEF BulkShape
    <3> QED
      BY <3>1, <3>2
  <2>4. BulkShape(q)
    BY <1>3, <2>1, <2>2, <2>3 DEF BulkShape, n
  <2>5. Followed(n, p) = p
    BY <1>2, <1>11, <2>1, <2>3 DEF Followed
  <2>6. InStep(q, p)
    BY <1>11, <2>1, <2>4, <2>5 DEF InStep, Caught, n
  <2> QED
    BY <1>10, <2>6 DEF BulkWaits, Done, n, p, q
<1> QED
  BY <1>12, <1>13

-----------------------------------------------------------------------------
(* Keyboards and mice: a request in flight for each that is pending.       *)
(* Events are told apart by their slot alone, so of a keyboard and a mouse *)
(* in one slot either may have both requests.                              *)

HidRings == \A h \in Hids : /\ HidShape(ring[h])
                            /\ \E n \in 0..2 : Behind(ring[h], taker[h], n)
AllOrNone == (\A h \in Hids : pending[h]) \/ (\A h \in Hids : ~pending[h])
Alone(h) == \A g \in Hids : SlotOf[g] = SlotOf[h] => g = h
Pair(k, m) == k \in Keyboards /\ m \in Mice /\ SlotOf[k] = SlotOf[m]
Sums ==
    /\ \A h \in Hids : Alone(h) => InFlight(h) + swallowed[SlotOf[h]] = Asked(h)
    /\ \A k \in Keyboards, m \in Mice : Pair(k, m)
           => InFlight(k) + InFlight(m) + swallowed[SlotOf[k]] = Asked(k) + Asked(m)
HidInv == HidRings /\ AllOrNone /\ Sums

\* Whose event the driver sees.
LEMMA SlotTells ==
    ASSUME EventInv, EventThere
    PROVE  /\ fifo[1] \in Hids => EventSlot = SlotOf[fifo[1]]
           /\ fifo[1] \notin Hids => EventSlot = DiskSlot
           /\ \A h \in Hids : SlotOf[h] # DiskSlot
           /\ fifo # <<>> /\ fifo \in Seq(Endpoints \cup {"ep0"})
BY ThereIsHead, XhciAssumption DEF EventSlot, EventInv

\* A device has its slot alone or shares it with one of the other kind.
LEMMA SlotMates ==
    /\ \A g, h \in Hids : SlotOf[g] = SlotOf[h] => g = h \/ Pair(g, h) \/ Pair(h, g)
    /\ \A k, m : Pair(k, m) => /\ k \in Hids /\ m \in Hids /\ k # m
                               /\ \A h \in Hids : SlotOf[h] = SlotOf[k] => h \in {k, m}
    /\ \A h \in Hids : SlotOf[h] \in HidSlots
BY XhciAssumption DEF Pair, Hids, HidSlots

LEMMA HidFacts ==
    ASSUME TypeInv, EventInv, NEW h \in Hids
    PROVE  /\ h \in Endpoints /\ h \notin Bulk /\ h # "ep0"
           /\ ring[h] \in Ring /\ EndsInLink(ring[h]) /\ taker[h] \in Taker
           /\ Count(fifo, h) \in Nat
           /\ InFlight(h) = Depth(ring[h], taker[h]) + Count(fifo, h)
           /\ swallowed[SlotOf[h]] \in Nat
           /\ Asked(h) \in 0..1 /\ (pending[h] <=> Asked(h) = 1)
<1>1. h \in Endpoints /\ h \notin Bulk /\ h # "ep0"
  BY XhciAssumption DEF Endpoints
<1>2. ring[h] \in Ring /\ EndsInLink(ring[h]) /\ taker[h] \in Taker
  BY <1>1 DEF TypeInv, UsbTypes, GoodRings
<1>3. Count(fifo, h) \in Nat
  BY CountType DEF EventInv
<1>4. OnRing(h) = Depth(ring[h], taker[h])
  BY DEF OnRing, Depth
<1>5. InFlight(h) = Depth(ring[h], taker[h]) + Count(fifo, h)
  BY <1>4 DEF InFlight, Count, EventsOf
<1>6. swallowed[SlotOf[h]] \in Nat
  BY SlotMates DEF TypeInv, HidTypes
<1>7. Asked(h) \in 0..1 /\ (pending[h] <=> Asked(h) = 1)
  BY DEF Asked, TypeInv, HidTypes
<1> QED
  BY <1>1, <1>2, <1>3, <1>5, <1>6, <1>7

LEMMA HidDepth ==
    ASSUME TypeInv, EventInv, HidRings, NEW h \in Hids
    PROVE  /\ Depth(ring[h], taker[h]) \in 0..2
           /\ Behind(ring[h], taker[h], Depth(ring[h], taker[h]))
           /\ InFlight(h) \in Nat
<1>1. PICK n \in 0..2 : Behind(ring[h], taker[h], n)
  BY DEF HidRings
<1>2. Depth(ring[h], taker[h]) = n
  BY <1>1, HidFacts, BehindDepth DEF HidRings
<1> QED
  BY <1>1, <1>2, HidFacts

\* A device that has something in flight or swallowed has asked, and then all have.
LEMMA InFlightIsAsked ==
    ASSUME TypeInv, EventInv, HidInv, NEW h \in Hids, InFlight(h) + swallowed[SlotOf[h]] > 0
    PROVE  \A g \in Hids : pending[g]
<1>1. \A g \in Hids : /\ InFlight(g) \in Nat /\ swallowed[SlotOf[g]] \in Nat
                      /\ Asked(g) \in 0..1 /\ (pending[g] <=> Asked(g) = 1)
  BY HidFacts, HidDepth DEF HidInv
<1>2. CASE Alone(h)
  <2>1. pending[h]
    BY <1>1, <1>2 DEF HidInv, Sums
  <2> QED
    BY <2>1 DEF HidInv, AllOrNone
<1>3. ASSUME NEW k, NEW m, Pair(k, m), h \in {k, m}
      PROVE  pending[k] \/ pending[m]
  <2>1. k \in Keyboards /\ m \in Mice /\ k \in Hids /\ m \in Hids /\ SlotOf[k] = SlotOf[m]
    BY <1>3, SlotMates DEF Pair
  <2>2. InFlight(k) + InFlight(m) + swallowed[SlotOf[k]] = Asked(k) + Asked(m)
    BY <1>3, <2>1 DEF HidInv, Sums
  <2> QED
    BY <1>1, <1>3, <2>1, <2>2
<1>4. CASE ~Alone(h)
  <2>1. PICK g \in Hids : SlotOf[g] = SlotOf[h] /\ g # h
    BY <1>4 DEF Alone
  <2>2. Pair(g, h) \/ Pair(h, g)
    BY <2>1, SlotMates
  <2>3. pending[g] \/ pending[h]
    BY <1>3, <2>2
  <2> QED
    BY <2>1, <2>3 DEF HidInv, AllOrNone
<1> QED
  BY <1>2, <1>4

\* No slot has more requests in flight than devices.
LEMMA SlotLimit ==
    ASSUME TypeInv, EventInv, HidInv, NEW g \in Hids, NEW h \in Hids, SlotOf[g] = SlotOf[h]
    PROVE  /\ g = h => InFlight(h) <= 2
           /\ g # h => InFlight(g) + InFlight(h) <= 2
<1>1. \A x \in Hids : /\ InFlight(x) \in Nat /\ swallowed[SlotOf[x]] \in Nat
                      /\ Asked(x) \in 0..1
  BY HidFacts, HidDepth DEF HidInv
<1>2. ASSUME NEW k, NEW m, Pair(k, m)
      PROVE  k \in Hids /\ m \in Hids /\ InFlight(k) + InFlight(m) <= 2
  <2>1. k \in Keyboards /\ m \in Mice /\ k \in Hids /\ m \in Hids
    BY <1>2, SlotMates DEF Pair
  <2>2. InFlight(k) + InFlight(m) + swallowed[SlotOf[k]] = Asked(k) + Asked(m)
    BY <1>2, <2>1 DEF HidInv, Sums
  <2> QED
    BY <1>1, <2>1, <2>2
<1>3. g # h => InFlight(g) + InFlight(h) <= 2
  <2>1. g # h => Pair(g, h) \/ Pair(h, g)
    BY SlotMates
  <2>2. Pair(h, g) => InFlight(h) + InFlight(g) <= 2
    BY <1>2
  <2> QED
    BY <1>1, <1>2, <2>1, <2>2
<1>4. InFlight(h) <= 2
  <2>1. CASE Alone(h)
    <3>1. InFlight(h) + swallowed[SlotOf[h]] = Asked(h)
      BY <2>1 DEF HidInv, Sums
    <3> QED
      BY <1>1, <3>1
  <2>2. CASE ~Alone(h)
    <3>1. PICK x \in Hids : SlotOf[x] = SlotOf[h] /\ x # h
      BY <2>2 DEF Alone
    <3>2. Pair(x, h) \/ Pair(h, x)
      BY <3>1, SlotMates
    <3> QED
      BY <1>1, <1>2, <3>2
  <2> QED
    BY <2>1, <2>2
<1> QED
  BY <1>3, <1>4

\* The rings of keyboards and mice are none of a disk call's business.
LEMMA CallLeavesHids ==
    ASSUME NEW d, NEW rings, NEW h \in Hids
    PROVE  /\ UsbTypes => Rewound(ring)[h] = ring[h]
           /\ Enqueued(d, rings)[h] = rings[h]
<1>1. h \notin Bulk /\ h \in Endpoints
  BY XhciAssumption DEF Endpoints
<1> QED
  BY <1>1 DEF Enqueued, Rewound

LEMMA TakeMoves ==
    ASSUME EventInv, TakeEvent
    PROVE  /\ fifo' = Tail(fifo)
           /\ One(fifo, fifo[1]) => None(fifo', fifo[1])
           /\ ~None(fifo, fifo[1])
           /\ \A x : None(fifo, x) => None(fifo', x)
           /\ \A x : x # fifo[1] => (One(fifo, x) => One(fifo', x))
           /\ Count(fifo, fifo[1]) >= 1
           /\ \A x : Count(fifo', x) = Count(fifo, x) - (IF x = fifo[1] THEN 1 ELSE 0)
<1>1. fifo' = Tail(fifo) /\ EventThere
  BY DEF TakeEvent
<1> QED
  BY <1>1, SlotTells, TailCounts, CountTail

LEMMA PostMoves ==
    ASSUME EventInv, NEW e \in Endpoints \cup {"ep0"}, PostEvent(e)
    PROVE  /\ None(fifo, e) => One(fifo', e)
           /\ \A x : x # e => /\ None(fifo, x) => None(fifo', x)
                              /\ One(fifo, x) => One(fifo', x)
           /\ \A x : Count(fifo', x) = Count(fifo, x) + (IF x = e THEN 1 ELSE 0)
BY AppendCounts, CountAppend DEF PostEvent, EventInv

\* What is in flight, of rings and event ring as they are after a step.
LEMMA InFlightThen ==
    ASSUME NEW h
    PROVE  InFlight(h)' = Depth(ring'[h], taker'[h]) + Count(fifo', h)
<1>1. OnRing(h)' = Depth(ring'[h], taker'[h])
  BY DEF OnRing, Depth
<1> QED
  BY <1>1 DEF InFlight, Count, EventsOf

\* A step that moves requests between ring and event ring, and one of x to g in
\* the same slot, keeps the sums.
LEMMA SumsMove ==
    ASSUME TypeInv, EventInv, HidInv, NEW g \in Hids, NEW x \in Hids, SlotOf[g] = SlotOf[x],
           pending' = pending, swallowed' = swallowed,
           \A h \in Hids : InFlight(h)' = InFlight(h) + (IF h = g THEN 1 ELSE 0)
                                                      - (IF h = x THEN 1 ELSE 0)
    PROVE  Sums'
<1>1. \A h \in Hids : /\ InFlight(h) \in Nat /\ swallowed[SlotOf[h]] \in Nat /\ Asked(h) \in 0..1
                      /\ Asked(h)' = Asked(h)
  BY HidFacts, HidDepth DEF HidInv, Asked
<1>2. ASSUME NEW h \in Hids, Alone(h)
      PROVE  InFlight(h)' = InFlight(h)
  <2>1. h = g <=> h = x
    BY <1>2 DEF Alone
  <2> QED
    BY <1>1, <2>1
<1>3. ASSUME NEW k \in Keyboards, NEW m \in Mice, Pair(k, m)
      PROVE  InFlight(k)' + InFlight(m)' = InFlight(k) + InFlight(m)
  <2>1. k \in Hids /\ m \in Hids /\ k # m /\ (g \in {k, m} <=> x \in {k, m})
    BY <1>3, SlotMates DEF Pair
  <2>2. /\ InFlight(k)' = InFlight(k) + (IF k = g THEN 1 ELSE 0) - (IF k = x THEN 1 ELSE 0)
        /\ InFlight(m)' = InFlight(m) + (IF m = g THEN 1 ELSE 0) - (IF m = x THEN 1 ELSE 0)
        /\ InFlight(k) \in Nat /\ InFlight(m) \in Nat
    BY <1>1, <2>1
  <2> QED
    BY <2>1, <2>2
<1>4. \A h \in Hids : Alone(h) => InFlight(h)' + swallowed'[SlotOf[h]] = Asked(h)'
  BY <1>1, <1>2 DEF HidInv, Sums
<1>5. \A k \in Keyboards, m \in Mice : Pair(k, m)
         => InFlight(k)' + InFlight(m)' + swallowed'[SlotOf[k]] = Asked(k)' + Asked(m)'
  <2> SUFFICES ASSUME NEW k \in Keyboards, NEW m \in Mice, Pair(k, m)
               PROVE  InFlight(k)' + InFlight(m)' + swallowed'[SlotOf[k]] = Asked(k)' + Asked(m)'
    OBVIOUS
  <2>1. InFlight(k)' + InFlight(m)' = InFlight(k) + InFlight(m)
    BY <1>3
  <2>2. InFlight(k) + InFlight(m) + swallowed[SlotOf[k]] = Asked(k) + Asked(m)
    BY DEF HidInv, Sums
  <2>3. k \in Hids /\ m \in Hids
    BY DEF Hids
  <2> QED
    BY <1>1, <2>1, <2>2, <2>3
<1> QED
  BY <1>4, <1>5 DEF Sums, Alone, Pair

\* A step that is none of keyboards' and mice's business.
LEMMA FlightsStay ==
    ASSUME TypeInv, EventInv, HidInv, pending' = pending, swallowed' = swallowed,
           \A h \in Hids : /\ ring'[h] = ring[h] /\ taker'[h] = taker[h]
                           /\ Count(fifo', h) = Count(fifo, h)
    PROVE  HidInv'
<1>1. HidRings'
  BY DEF HidInv, HidRings
<1>2. \A h \in Hids : InFlight(h)' = InFlight(h)
  BY InFlightThen, HidFacts
<1>3. \A h \in Hids : Asked(h)' = Asked(h)
  BY DEF Asked
<1>4. Sums'
  BY <1>2, <1>3 DEF HidInv, Sums, Alone, Pair, Hids
<1> QED
  BY <1>1, <1>4 DEF HidInv, AllOrNone

LEMMA PollFlights ==
    ASSUME TypeInv, EventInv, HidInv, PollHid
    PROVE  HidInv'
<1>1. /\ \A h \in Hids : ring'[h] = Submitted(h)
      /\ taker' = taker /\ pending' = [h \in Hids |-> TRUE]
      /\ swallowed' = swallowed /\ fifo' = fifo
  BY HidFacts DEF PollHid
<1>2. CASE \A h \in Hids : pending[h]
  <2>1. \A h \in Hids : ring'[h] = ring[h]
    BY <1>1, <1>2 DEF Submitted
  <2>2. pending' = pending
    BY <1>1, <1>2 DEF TypeInv, HidTypes
  <2> QED
    BY <1>1, <2>1, <2>2, FlightsStay
<1>3. CASE \A h \in Hids : ~pending[h]
  <2>1. ASSUME NEW h \in Hids
        PROVE  /\ Depth(ring[h], taker[h]) = 0 /\ Count(fifo, h) = 0 /\ swallowed[SlotOf[h]] = 0
    <3>1. ~(InFlight(h) + swallowed[SlotOf[h]] > 0)
      BY <1>3, <2>1, InFlightIsAsked
    <3>2. /\ Depth(ring[h], taker[h]) \in Nat /\ Count(fifo, h) \in Nat
          /\ swallowed[SlotOf[h]] \in Nat
          /\ InFlight(h) = Depth(ring[h], taker[h]) + Count(fifo, h)
      BY <2>1, HidFacts, HidDepth DEF HidInv
    <3> QED
      BY <3>1, <3>2
  <2>2. ASSUME NEW h \in Hids
        PROVE  HidShape(ring'[h]) /\ Behind(ring'[h], taker'[h], 1) /\ InFlight(h)' = 1
    <3>1. Behind(ring[h], taker[h], 0) /\ HidShape(ring[h])
      BY <2>1, <2>2, HidDepth DEF HidInv, HidRings
    <3>2. ring'[h] = HidEnqueue(ring[h], <<"report">>)
      BY <1>1, <1>3, <2>2 DEF Submitted
    <3>3. HidShape(ring'[h]) /\ Behind(ring'[h], taker'[h], 0 + 1)
      BY <1>1, <2>2, <3>1, <3>2, HidFacts, HidEnqueueBehind, ReportTrb
    <3>4. ring'[h] \in Ring /\ EndsInLink(ring'[h]) /\ taker'[h] \in Taker
      BY <1>1, <2>2, <3>2, HidFacts, HidEnqueueType, ReportTrb
    <3>5. Depth(ring'[h], taker'[h]) = 1
      BY <3>3, <3>4, BehindDepth
    <3> QED
      BY <1>1, <2>1, <2>2, <3>3, <3>5, InFlightThen
  <2>3. HidRings'
    BY <2>2 DEF HidRings
  <2>4. AllOrNone'
    BY <1>1 DEF AllOrNone
  <2>5. \A h \in Hids : Asked(h)' = 1
    BY <1>1 DEF Asked
  <2>6. Sums'
    BY <1>1, <2>1, <2>2, <2>5 DEF Sums, Alone, Pair, Hids
  <2> QED
    BY <2>3, <2>4, <2>6 DEF HidInv
<1> QED
  BY <1>2, <1>3 DEF HidInv, AllOrNone

LEMMA HandleFlights ==
    ASSUME TypeInv, EventInv, HidInv, NEW g \in Hids, HandleReport(g)
    PROVE  HidInv'
<1> DEFINE x == fifo[1]
<1>1. /\ TakeEvent /\ EventThere /\ SlotOf[g] = EventSlot
      /\ ring' = [ring EXCEPT ![g] = HidEnqueue(ring[g], <<"report">>)]
      /\ pending' = [pending EXCEPT ![g] = TRUE]
      /\ taker' = taker /\ swallowed' = swallowed
  BY DEF HandleReport, Receiver
<1>2. x \in Hids /\ SlotOf[x] = SlotOf[g]
  BY <1>1, SlotTells
<1>3. /\ Count(fifo, x) >= 1
      /\ \A h \in Hids : Count(fifo', h) = Count(fifo, h) - (IF h = x THEN 1 ELSE 0)
  BY <1>1, TakeMoves
<1> HIDE DEF x
<1>4. \A h \in Hids : /\ Depth(ring[h], taker[h]) \in 0..2 /\ Count(fifo, h) \in Nat
                      /\ InFlight(h) = Depth(ring[h], taker[h]) + Count(fifo, h)
                      /\ swallowed[SlotOf[h]] \in Nat
  BY HidFacts, HidDepth DEF HidInv
<1>5. \A h \in Hids : pending[h]
  BY <1>2, <1>3, <1>4, InFlightIsAsked
<1>6. pending' = pending
  BY <1>1, <1>5 DEF TypeInv, HidTypes
<1>7. Depth(ring[g], taker[g]) \in {0, 1}
  <2>1. CASE g = x
    <3>1. InFlight(g) <= 2
      BY SlotLimit
    <3> QED
      BY <1>2, <1>3, <1>4, <2>1, <3>1
  <2>2. CASE g # x
    <3>1. InFlight(x) + InFlight(g) <= 2
      BY <1>2, <2>2, SlotLimit
    <3> QED
      BY <1>2, <1>3, <1>4, <3>1
  <2> QED
    BY <2>1, <2>2
<1> DEFINE n == Depth(ring[g], taker[g])
<1>8. /\ \A h \in Hids : h # g => ring'[h] = ring[h]
      /\ ring'[g] = HidEnqueue(ring[g], <<"report">>)
  BY <1>1, HidFacts DEF TypeInv, UsbTypes, GoodRings
<1>9. HidShape(ring'[g]) /\ Behind(ring'[g], taker'[g], n + 1)
  <2>1. HidShape(ring[g]) /\ Behind(ring[g], taker[g], n)
    BY HidDepth DEF HidInv, HidRings
  <2> HIDE DEF n
  <2> QED
    BY <1>1, <1>7, <1>8, <2>1, HidFacts, HidEnqueueBehind, ReportTrb DEF n
<1>10. Depth(ring'[g], taker'[g]) = n + 1
  <2>1. ring'[g] \in Ring /\ EndsInLink(ring'[g]) /\ taker'[g] \in Taker
    BY <1>1, <1>8, HidFacts, HidEnqueueType, ReportTrb
  <2>2. n + 1 \in 0..2
    BY <1>7
  <2> HIDE DEF n
  <2> QED
    BY <1>9, <2>1, <2>2, BehindDepth
<1>11. HidRings'
  <2> SUFFICES ASSUME NEW h \in Hids
               PROVE  HidShape(ring'[h]) /\ \E j \in 0..2 : Behind(ring'[h], taker'[h], j)
    BY DEF HidRings
  <2>1. CASE h = g
    <3>1. n + 1 \in 0..2
      BY <1>7
    <3> QED
      BY <1>9, <2>1, <3>1
  <2>2. CASE h # g
    BY <1>1, <1>8, <2>2 DEF HidInv, HidRings
  <2> QED
    BY <2>1, <2>2
<1>12. \A h \in Hids : InFlight(h)' = InFlight(h) + (IF h = g THEN 1 ELSE 0)
                                                 - (IF h = x THEN 1 ELSE 0)
  <2> SUFFICES ASSUME NEW h \in Hids
               PROVE  InFlight(h)' = InFlight(h) + (IF h = g THEN 1 ELSE 0)
                                                - (IF h = x THEN 1 ELSE 0)
    OBVIOUS
  <2>1. Depth(ring'[h], taker'[h]) = Depth(ring[h], taker[h]) + (IF h = g THEN 1 ELSE 0)
    BY <1>1, <1>4, <1>8, <1>10
  <2>2. InFlight(h)' = Depth(ring'[h], taker'[h]) + Count(fifo', h)
    BY InFlightThen
  <2> QED
    BY <1>3, <1>4, <2>1, <2>2
<1>13. Sums'
  BY <1>1, <1>2, <1>6, <1>12, SumsMove
<1> QED
  BY <1>6, <1>11, <1>13 DEF HidInv, AllOrNone

\* An event that is dropped is none of a keyboard's or mouse's.
LEMMA DroppedIsForeign ==
    ASSUME TypeInv, EventInv, HidInv, DropEvent
    PROVE  fifo[1] \notin Hids
<1> SUFFICES ASSUME fifo[1] \in Hids PROVE FALSE
  OBVIOUS
<1> DEFINE x == fifo[1]
<1>1. TakeEvent /\ EventThere /\ \A h \in Hids : ~Receiver(h)
  BY DEF DropEvent
<1>2. x \in Hids /\ EventSlot = SlotOf[x] /\ Count(fifo, x) >= 1
  BY <1>1, SlotTells, TakeMoves
<1> HIDE DEF x
<1>3. InFlight(x) + swallowed[SlotOf[x]] > 0
  <2>1. /\ Depth(ring[x], taker[x]) \in Nat /\ Count(fifo, x) \in Nat
        /\ InFlight(x) = Depth(ring[x], taker[x]) + Count(fifo, x)
        /\ swallowed[SlotOf[x]] \in Nat
    BY <1>2, HidFacts, HidDepth DEF HidInv
  <2> QED
    BY <1>2, <2>1
<1>4. \A h \in Hids : pending[h]
  BY <1>2, <1>3, InFlightIsAsked
<1>5. CASE \E k \in Keyboards : SlotOf[k] = EventSlot
  <2>1. PICK k \in Keyboards : SlotOf[k] = EventSlot
    BY <1>5
  <2>2. Receiver(k) /\ k \in Hids
    BY <1>4, <2>1 DEF Receiver, Hids
  <2> QED
    BY <1>1, <2>2
<1>6. CASE ~\E k \in Keyboards : SlotOf[k] = EventSlot
  <2>1. Receiver(x)
    BY <1>2, <1>6 DEF Receiver
  <2> QED
    BY <1>1, <1>2, <2>1
<1> QED
  BY <1>5, <1>6

LEMMA MainLoopFlights ==
    ASSUME TypeInv, EventInv, HidInv, MainLoop
    PROVE  HidInv'
<1>1. CASE DropEvent
  <2>1. /\ TakeEvent /\ ring' = ring /\ taker' = taker /\ pending' = pending
        /\ swallowed' = swallowed
    BY <1>1 DEF DropEvent
  <2>2. \A h \in Hids : h # fifo[1]
    BY <1>1, DroppedIsForeign
  <2>3. \A h \in Hids : Count(fifo, h) \in Nat
    BY HidFacts
  <2>4. \A h \in Hids : Count(fifo', h) = Count(fifo, h)
    BY <2>1, <2>2, <2>3, TakeMoves
  <2> QED
    BY <2>1, <2>4, FlightsStay
<1>2. CASE PollEnds
  BY <1>2, FlightsStay DEF PollEnds, usbVars
<1> QED
  BY <1>1, <1>2, PollFlights, HandleFlights DEF MainLoop

LEMMA SwallowFlights ==
    ASSUME TypeInv, EventInv, HidInv, SwallowEvent
    PROVE  HidInv'
<1> DEFINE x == fifo[1]
<1>1. /\ TakeEvent /\ EventThere /\ EventSlot # DiskSlot
      /\ ring' = ring /\ taker' = taker /\ pending' = pending
      /\ swallowed' = [swallowed EXCEPT ![EventSlot] = swallowed[EventSlot] + 1]
  BY DEF SwallowEvent, IsAwaited
<1>2. x \in Hids /\ EventSlot = SlotOf[x]
  BY <1>1, SlotTells
<1>3. \A h \in Hids : Count(fifo', h) = Count(fifo, h) - (IF h = x THEN 1 ELSE 0)
  BY <1>1, TakeMoves
<1> HIDE DEF x
<1>4. \A h \in Hids : /\ Depth(ring[h], taker[h]) \in 0..2 /\ Count(fifo, h) \in Nat
                      /\ InFlight(h) = Depth(ring[h], taker[h]) + Count(fifo, h)
                      /\ swallowed[SlotOf[h]] \in Nat /\ InFlight(h) \in Nat
                      /\ Asked(h) \in 0..1 /\ Asked(h)' = Asked(h)
  BY <1>1, HidFacts, HidDepth DEF HidInv, Asked
<1>5. \A h \in Hids : InFlight(h)' = InFlight(h) - (IF h = x THEN 1 ELSE 0)
  BY <1>1, <1>3, <1>4, InFlightThen
<1>6. \A h \in Hids : swallowed'[SlotOf[h]] = swallowed[SlotOf[h]]
                                                 + (IF SlotOf[h] = SlotOf[x] THEN 1 ELSE 0)
  BY <1>1, <1>2, <1>4, SlotMates DEF TypeInv, HidTypes
<1>7. \A h \in Hids : Alone(h) => InFlight(h)' + swallowed'[SlotOf[h]] = Asked(h)'
  <2> SUFFICES ASSUME NEW h \in Hids, Alone(h)
               PROVE  InFlight(h)' + swallowed'[SlotOf[h]] = Asked(h)'
    OBVIOUS
  <2>1. h = x <=> SlotOf[h] = SlotOf[x]
    BY <1>2 DEF Alone
  <2>2. InFlight(h) + swallowed[SlotOf[h]] = Asked(h)
    BY DEF HidInv, Sums
  <2> QED
    BY <1>4, <1>5, <1>6, <2>1, <2>2
<1>8. \A k \in Keyboards, m \in Mice : Pair(k, m)
         => InFlight(k)' + InFlight(m)' + swallowed'[SlotOf[k]] = Asked(k)' + Asked(m)'
  <2> SUFFICES ASSUME NEW k \in Keyboards, NEW m \in Mice, Pair(k, m)
               PROVE  InFlight(k)' + InFlight(m)' + swallowed'[SlotOf[k]] = Asked(k)' + Asked(m)'
    OBVIOUS
  <2>1. /\ k \in Hids /\ m \in Hids /\ k # m /\ SlotOf[k] = SlotOf[m]
        /\ x \in {k, m} <=> SlotOf[k] = SlotOf[x]
    BY <1>2, SlotMates DEF Pair
  <2>2. InFlight(k) + InFlight(m) + swallowed[SlotOf[k]] = Asked(k) + Asked(m)
    BY DEF HidInv, Sums
  <2>3. /\ InFlight(k)' = InFlight(k) - (IF k = x THEN 1 ELSE 0)
        /\ InFlight(m)' = InFlight(m) - (IF m = x THEN 1 ELSE 0)
        /\ swallowed'[SlotOf[k]] = swallowed[SlotOf[k]] + (IF SlotOf[k] = SlotOf[x] THEN 1 ELSE 0)
    BY <1>5, <1>6, <2>1
  <2> QED
    BY <1>4, <2>1, <2>2, <2>3
<1>9. Sums'
  BY <1>7, <1>8 DEF Sums, Alone, Pair
<1> QED
  BY <1>1, <1>9 DEF HidInv, HidRings, AllOrNone

LEMMA DiskCallFlights ==
    ASSUME TypeInv, EventInv, HidInv, DiskCall
    PROVE  HidInv'
<1>1. \A h \in Hids : Count(fifo, h) \in Nat
  BY HidFacts
<1>2. ASSUME NEW d, Continue(d)
      PROVE  \A h \in Hids : ring'[h] = ring[h]
  BY <1>2, CallLeavesHids DEF Continue, TypeInv
<1>3. CASE TransferCompletes
  <2>1. /\ Continue(Completed(call)) /\ TakeEvent /\ EventThere /\ EventSlot = DiskSlot
        /\ taker' = taker /\ pending' = pending /\ swallowed' = swallowed
    BY <1>3 DEF TransferCompletes, IsAwaited, hidVars
  <2>2. \A h \in Hids : h # fifo[1]
    BY <2>1, SlotTells
  <2>3. \A h \in Hids : Count(fifo', h) = Count(fifo, h)
    BY <1>1, <2>1, <2>2, TakeMoves
  <2> QED
    BY <1>2, <2>1, <2>3, FlightsStay
<1>4. CASE TransferTimesOut \/ TestFails
  <2>1. /\ \E d : Continue(d)
        /\ taker' = taker /\ fifo' = fifo /\ pending' = pending /\ swallowed' = swallowed
    BY <1>4 DEF TransferTimesOut, TestFails, hidVars
  <2> QED
    BY <1>2, <2>1, FlightsStay
<1> QED
  BY <1>3, <1>4, SwallowFlights DEF DiskCall

\* The controller takes a TRB: the request of a device is on its way to the driver.
LEMMA TakesFlights ==
    ASSUME TypeInv, EventInv, HidInv, NEW e \in Endpoints, Takes(e)
    PROVE  HidInv'
<1>1. /\ ring' = ring /\ pending' = pending /\ swallowed' = swallowed /\ PostEvent(e)
      /\ Ready(ring[e].trbs, taker[e])
      /\ taker' = [taker EXCEPT ![e] = Passed(ring[e].trbs, taker[e])]
  BY DEF Takes, hidVars
<1>2. \A h \in Hids : Count(fifo', h) = Count(fifo, h) + (IF h = e THEN 1 ELSE 0)
  BY <1>1, PostMoves
<1>3. \A h \in Hids : h # e => taker'[h] = taker[h]
  BY <1>1, HidFacts DEF TypeInv, UsbTypes
<1>4. CASE e \notin Hids
  <2>1. \A h \in Hids : Count(fifo', h) = Count(fifo, h)
    BY <1>2, <1>4, HidFacts
  <2> QED
    BY <1>1, <1>3, <1>4, <2>1, FlightsStay
<1>5. CASE e \in Hids
  <2> DEFINE n == Depth(ring[e], taker[e])
             p == Passed(ring[e].trbs, taker[e])
  <2>1. /\ ring[e] \in Ring /\ EndsInLink(ring[e]) /\ taker[e] \in Taker /\ HidShape(ring[e])
        /\ n \in 0..2 /\ Behind(ring[e], taker[e], n)
    BY <1>5, HidFacts, HidDepth DEF HidInv, HidRings
  <2>2. n \in 1..2
    <3> HIDE DEF n
    <3>1. n > 0
      BY <1>1, <2>1, BehindDepth
    <3> QED
      BY <2>1, <3>1
  <2>3. Behind(ring[e], p, n - 1) /\ n - 1 \in 0..2
    <3> HIDE DEF n
    <3> QED
      BY <2>1, <2>2, PassedBehind
  <2>4. p \in Taker
    BY <1>1, <2>1, TakerType
  <2>5. Depth(ring[e], p) = n - 1
    <3> HIDE DEF n, p
    <3> QED
      BY <2>1, <2>3, <2>4, BehindDepth
  <2>6. taker'[e] = p
    BY <1>1 DEF TypeInv, UsbTypes
  <2>7. HidRings'
    <3> SUFFICES ASSUME NEW h \in Hids
                 PROVE  HidShape(ring'[h]) /\ \E j \in 0..2 : Behind(ring'[h], taker'[h], j)
      BY DEF HidRings
    <3>1. CASE h = e
      BY <1>1, <2>1, <2>3, <2>6, <3>1
    <3>2. CASE h # e
      BY <1>1, <1>3, <3>2 DEF HidInv, HidRings
    <3> QED
      BY <3>1, <3>2
  <2>8. \A h \in Hids : InFlight(h)' = InFlight(h)
    <3> SUFFICES ASSUME NEW h \in Hids PROVE InFlight(h)' = InFlight(h)
      OBVIOUS
    <3>1. InFlight(h)' = Depth(ring'[h], taker'[h]) + Count(fifo', h)
      BY InFlightThen
    <3>2. /\ InFlight(h) = Depth(ring[h], taker[h]) + Count(fifo, h)
          /\ Count(fifo, h) \in Nat /\ Depth(ring[h], taker[h]) \in 0..2
      BY HidFacts, HidDepth DEF HidInv
    <3>3. CASE h = e
      <4>1. Depth(ring'[h], taker'[h]) = n - 1 /\ Count(fifo', h) = Count(fifo, h) + 1
        BY <1>1, <1>2, <2>5, <2>6, <3>3
      <4> QED
        BY <3>1, <3>2, <3>3, <4>1
    <3>4. CASE h # e
      <4>1. Depth(ring'[h], taker'[h]) = Depth(ring[h], taker[h]) /\ Count(fifo', h) = Count(fifo, h)
        BY <1>1, <1>2, <1>3, <3>2, <3>4
      <4> QED
        BY <3>1, <3>2, <4>1
    <3> QED
      BY <3>3, <3>4
  <2>9. Sums'
    <3>1. \A h \in Hids : InFlight(h) \in Nat
      BY HidDepth DEF HidInv
    <3>2. \A h \in Hids : InFlight(h)' = InFlight(h) + (IF h = e THEN 1 ELSE 0)
                                                    - (IF h = e THEN 1 ELSE 0)
      BY <2>8, <3>1
    <3> QED
      BY <1>1, <1>5, <3>2, SumsMove
  <2> QED
    BY <1>1, <2>7, <2>9 DEF HidInv, AllOrNone
<1> QED
  BY <1>4, <1>5

LEMMA FlightsInit == Init => HidInv
<1> SUFFICES ASSUME Init PROVE HidInv
  OBVIOUS
<1>0. TypeInv /\ EventInv
  BY TypesInit, EventsInit
<1>1. ASSUME NEW h \in Hids
      PROVE  /\ HidShape(ring[h]) /\ Behind(ring[h], taker[h], 0)
             /\ ~pending[h] /\ swallowed[SlotOf[h]] = 0 /\ InFlight(h) = 0 /\ Asked(h) = 0
  <2>1. h \in Endpoints
    BY <1>1 DEF Endpoints
  <2>2. /\ ring[h] = [trbs |-> [i \in RingPlaces |-> Trb("none", 0, <<>>)], index |-> 0, cycle |-> 1]
        /\ taker[h] = [at |-> 0, cycle |-> 1] /\ fifo = <<>>
        /\ ~pending[h] /\ swallowed[SlotOf[h]] = 0
    BY <1>1, <2>1, SlotMates DEF Init, RingPlaces
  <2>3. HidShape(ring[h])
    BY <2>2, RingBounds DEF HidShape, Trb
  <2>4. Behind(ring[h], taker[h], 0)
    BY <2>2 DEF Behind, Caught
  <2>5. Depth(ring[h], taker[h]) = 0
    BY <1>0, <1>1, <2>3, <2>4, HidFacts, BehindDepth
  <2>6. Count(fifo, h) = 0
    <3>1. EventsOf(fifo, h) = {}
      BY <2>2 DEF EventsOf
    <3> QED
      BY <3>1, FS_EmptySet DEF Count
  <2>7. Asked(h) = 0
    BY <2>2 DEF Asked
  <2> QED
    BY <1>0, <1>1, <2>2, <2>3, <2>4, <2>5, <2>6, <2>7, HidFacts
<1>2. HidRings /\ AllOrNone
  BY <1>1 DEF HidRings, AllOrNone
<1>3. Sums
  BY <1>1 DEF Sums, Hids
<1> QED
  BY <1>2, <1>3 DEF HidInv

LEMMA FlightsStep == TypeInv /\ EventInv /\ HidInv /\ [Next]_vars => HidInv'
<1> SUFFICES ASSUME TypeInv, EventInv, HidInv, [Next]_vars PROVE HidInv'
  OBVIOUS
<1>1. CASE MainLoop
  BY <1>1, MainLoopFlights
<1>2. CASE DiskCall
  BY <1>2, DiskCallFlights
<1>3. ASSUME NEW op \in {"read", "write"}, NEW b \in Blocks, BeginCall(op, b)
      PROVE  HidInv'
  <2>1. \A h \in Hids : ring'[h] = ring[h]
    BY <1>3, CallLeavesHids DEF BeginCall
  <2>2. taker' = taker /\ fifo' = fifo /\ pending' = pending /\ swallowed' = swallowed
    BY <1>3 DEF BeginCall, hidVars
  <2> QED
    BY <2>1, <2>2, FlightsStay
<1>4. CASE Devices
  <2>1. Hids \subseteq Endpoints /\ "out" \in Endpoints /\ "in" \in Endpoints
    BY DEF Endpoints, Bulk
  <2>2. (\E e \in Endpoints : Takes(e)) \/ DiskObeys
    BY <1>4, <2>1 DEF Devices, Report, DiskAccepts, DiskWrites, DiskSends, DiskConcludes
  <2>3. CASE DiskObeys
    <3>1. /\ PostEvent("ep0") /\ ring' = ring /\ taker' = taker /\ pending' = pending
          /\ swallowed' = swallowed
      BY <2>3 DEF DiskObeys, hidVars
    <3>2. \A h \in Hids : h # "ep0" /\ Count(fifo, h) \in Nat
      BY HidFacts
    <3>3. \A h \in Hids : Count(fifo', h) = Count(fifo, h)
      BY <3>1, <3>2, PostMoves
    <3> QED
      BY <3>1, <3>3, FlightsStay
  <2> QED
    BY <2>2, <2>3, TakesFlights
<1>5. CASE UNCHANGED vars
  BY <1>5, FlightsStay DEF vars, usbVars, hidVars
<1> QED
  BY <1>1, <1>2, <1>3, <1>4, <1>5 DEF Next

-----------------------------------------------------------------------------
(* The disk, while no transfer has timed out and no recovery was tried:    *)
(* the stage of the call, the phase of the disk, the two bulk rings and    *)
(* the event ring go on together.                                          *)

Wanted(e) == PipeOf(call) = e
BulkFlight(e) ==
    \/ Done(ring[e], taker[e]) /\ (IF Wanted(e) THEN One(fifo, e) ELSE None(fifo, e))
    \/ Stuck(ring[e], taker[e]) /\ None(fifo, e)
    \/ Wanted(e) /\ BulkWaits(ring[e], taker[e], Payload(call)) /\ None(fifo, e)

CalmInv ==
    calm => /\ control = <<>> /\ None(fifo, "ep0")
            /\ call.stage \notin {"reset", "clear"}
            /\ \A e \in Bulk : BulkFlight(e)

\* The transfer the driver waits for is done and in the event ring.
Answered == PipeOf(call) \in Bulk /\ One(fifo, PipeOf(call))

\* The phase the disk is in at a stage of the call, before and after it has
\* answered.
Dir(op) == IF op = "write" THEN "out" ELSE "in"
PhaseAt(stage, op, answered) ==
    CASE stage = "cbw" -> IF answered THEN Dir(op) ELSE "idle"
      [] stage = "data" -> IF answered THEN "status" ELSE Dir(op)
      [] stage \in {"csw", "sense_csw", "test_csw"} -> IF answered THEN "idle" ELSE "status"
      [] stage = "sense" -> IF answered THEN "in" ELSE "idle"
      [] stage = "sense_data" -> IF answered THEN "status" ELSE "in"
      [] stage = "test" -> IF answered THEN "status" ELSE "idle"
      [] OTHER -> "idle"
CommandAt(c) ==
    CASE c.stage \in {"cbw", "data", "csw"} -> <<"cbw", c.op, c.block>>
      [] c.stage \in {"test", "test_csw"} -> <<"cbw", "test">>
      [] OTHER -> <<"cbw", "sense">>

\* What the call was for, and when it has been done.
Right == IF call.op = "read" THEN buffer = disk[call.block]
                             ELSE disk[call.block] = <<"data", call.n>>
Moved == \/ call.stage = "data" /\ Answered /\ device.good
         \/ call.stage = "csw" /\ IF Answered THEN csw = <<"good">> ELSE device.good
         \/ call.stage = "noErr"

ProtocolInv ==
    calm => /\ device.phase = PhaseAt(call.stage, call.op, Answered)
            /\ device.phase # "idle" => device.command = CommandAt(call)
            /\ Moved => Right

LEMMA NoneNotOne == \A f, e : ~(None(f, e) /\ One(f, e))
BY DEF None, One

LEMMA BulkFacts ==
    ASSUME TypeInv, NEW e \in Bulk
    PROVE  /\ e \in Endpoints /\ e \notin Hids /\ e # "ep0"
           /\ ring[e] \in Ring /\ EndsInLink(ring[e]) /\ ring[e].index < RingSize - 1
           /\ taker[e] \in Taker
BY XhciAssumption DEF TypeInv, UsbTypes, GoodRings, Endpoints, Bulk

\* A stage is begun when nothing of the disk's is in flight.
LEMMA StageBegins ==
    ASSUME TypeInv, NEW d \in Call, Begun(d), d.stage \notin {"reset", "clear"},
           call' = d, ring' = Enqueued(d, ring), taker' = taker,
           \A e \in Bulk : Done(ring[e], taker[e]) /\ None(fifo', e)
    PROVE  (\A e \in Bulk : BulkFlight(e)') /\ ~Answered'
<1> SUFFICES ASSUME NEW e \in Bulk
             PROVE  BulkFlight(e)' /\ (PipeOf(d) = e => ~One(fifo', e))
  BY DEF Answered
<1>1. None(fifo', e) /\ Done(ring[e], taker[e])
  OBVIOUS
<1>2. PipeOf(d) = e => ~One(fifo', e)
  BY <1>1, NoneNotOne
<1>3. CASE PipeOf(d) = e
  <2>1. d.stage \in Waiting
    BY <1>3 DEF PipeOf, Bulk, Waiting
  <2>2. Payload(d) \in Whats
    BY <1>3, <2>1, PayloadType
  <2>3. ring'[e] = MscEnqueue(ring[e], Payload(d))
    BY <1>3, BulkFacts DEF Enqueued, TypeInv, UsbTypes, GoodRings
  <2>4. CASE InStep(ring[e], taker[e])
    <3>1. BulkWaits(ring'[e], taker[e], Payload(d))
      BY <2>2, <2>3, <2>4, BulkFacts, MscEnqueueWaits
    <3> QED
      BY <1>1, <1>2, <1>3, <3>1 DEF BulkFlight, Wanted
  <2>5. CASE Stuck(ring[e], taker[e])
    <3>1. Stuck(ring'[e], taker[e])
      BY <2>2, <2>3, <2>5, BulkFacts, StuckStays
    <3> QED
      BY <1>1, <1>2, <3>1 DEF BulkFlight
  <2> QED
    BY <1>1, <2>4, <2>5 DEF Done
<1>4. CASE PipeOf(d) # e
  <2>1. ring'[e] = ring[e]
    BY <1>4, BulkFacts DEF Enqueued, TypeInv, UsbTypes, GoodRings
  <2> QED
    BY <1>1, <1>4, <2>1 DEF BulkFlight, Wanted
<1> QED
  BY <1>2, <1>3, <1>4

\* What is none of the disk's business leaves all of it as it was.
LEMMA CalmStays ==
    ASSUME CalmInv, ProtocolInv, calm' = calm, control' = control, UNCHANGED <<call, device, disk, csw>>,
           buffer' = buffer,
           \A e \in Bulk : ring'[e] = ring[e] /\ taker'[e] = taker[e],
           \A e \in Bulk \cup {"ep0"} : /\ None(fifo, e) => None(fifo', e)
                                        /\ One(fifo, e) => One(fifo', e)
    PROVE  CalmInv' /\ ProtocolInv'
<1>1. CASE ~calm
  BY <1>1 DEF CalmInv, ProtocolInv
<1>2. CASE calm
  <2>1. \A e \in Bulk : BulkFlight(e)' /\ (Wanted(e) => (One(fifo', e) <=> One(fifo, e)))
    <3> SUFFICES ASSUME NEW e \in Bulk
                 PROVE  BulkFlight(e)' /\ (Wanted(e) => (One(fifo', e) <=> One(fifo, e)))
      OBVIOUS
    <3>1. BulkFlight(e)
      BY <1>2 DEF CalmInv
    <3>2. BulkFlight(e)'
      BY <3>1 DEF BulkFlight, Wanted
    <3>3. Wanted(e) => None(fifo, e) \/ One(fifo, e)
      BY <3>1 DEF BulkFlight
    <3> QED
      BY <3>2, <3>3, NoneNotOne
  <2>2. Answered' = Answered
    BY <2>1 DEF Answered, Wanted
  <2>3. CalmInv'
    BY <1>2, <2>1 DEF CalmInv
  <2>4. (Moved <=> Moved') /\ (Right <=> Right')
    BY <2>2 DEF Moved, Right
  <2>5. ProtocolInv'
    BY <1>2, <2>2, <2>4 DEF ProtocolInv
  <2> QED
    BY <2>3, <2>5
<1> QED
  BY <1>1, <1>2

LEMMA MainLoopCalm ==
    ASSUME TypeInv, EventInv, CalmInv, ProtocolInv, MainLoop
    PROVE  CalmInv' /\ ProtocolInv'
<1>1. /\ taker' = taker /\ control' = control
      /\ UNCHANGED <<call, device, disk, csw>> /\ buffer' = buffer /\ calm' = calm
  BY DEF MainLoop, PollHid, HandleReport, DropEvent, PollEnds, usbVars, diskVars
<1>2. \A e \in Bulk : ring'[e] = ring[e]
  BY BulkFacts DEF MainLoop, PollHid, HandleReport, DropEvent, PollEnds, usbVars, TypeInv,
     UsbTypes, GoodRings
<1>3. CASE fifo' = fifo
  BY <1>1, <1>2, <1>3, CalmStays
<1>4. ASSUME NEW g \in Hids, HandleReport(g)
      PROVE  CalmInv' /\ ProtocolInv'
  <2>1. TakeEvent /\ EventThere /\ EventSlot = SlotOf[g]
    BY <1>4 DEF HandleReport, Receiver
  <2>2. fifo[1] \in Hids
    BY <2>1, SlotTells
  <2>3. \A e \in Bulk \cup {"ep0"} : e # fifo[1]
    BY <2>2, XhciAssumption
  <2> QED
    BY <1>1, <1>2, <2>1, <2>3, TakeMoves, CalmStays
<1>5. CASE DropEvent
  <2>1. TakeEvent /\ call.stage \in Over
    BY <1>5 DEF DropEvent, TypeInv
  <2>2. calm => \A e \in Bulk \cup {"ep0"} : None(fifo, e)
    BY <2>1 DEF CalmInv, BulkFlight, Wanted, PipeOf, Over, Bulk
  <2>3. calm => \A e \in Bulk \cup {"ep0"} : e # fifo[1]
    BY <2>1, <2>2, TakeMoves
  <2>4. CASE calm
    BY <1>1, <1>2, <2>1, <2>3, <2>4, TakeMoves, CalmStays
  <2>5. CASE ~calm
    BY <1>1, <2>5 DEF CalmInv, ProtocolInv
  <2> QED
    BY <2>4, <2>5
<1> QED
  BY <1>3, <1>4, <1>5 DEF MainLoop, PollHid, PollEnds, usbVars

LEMMA BeginCalm ==
    ASSUME TypeInv, CalmInv, ProtocolInv,
           NEW op \in {"read", "write"}, NEW b \in Blocks, BeginCall(op, b)
    PROVE  CalmInv' /\ ProtocolInv'
<1> DEFINE c == [stage |-> "cbw", op |-> op, block |-> b, n |-> call.n + 1,
                 tried |-> FALSE, halts |-> 0, within |-> <<>>]
<1>1. /\ call.stage \in Over /\ call' = c /\ ring' = Enqueued(c, ring)
      /\ taker' = taker /\ control' = control /\ fifo' = fifo /\ device' = device
      /\ calm' = calm
  BY DEF BeginCall, Idle
<1>2. TypeInv'
  BY BeginTypes
<1>3. c \in Call /\ Begun(c)
  BY <1>1, <1>2 DEF TypeInv, CallTypes
<1>4. c.stage = "cbw"
  OBVIOUS
<1> HIDE DEF c
<1>5. CASE calm
  <2>1. \A e \in Bulk : Done(ring[e], taker[e]) /\ None(fifo', e)
    BY <1>1, <1>5 DEF CalmInv, BulkFlight, Wanted, PipeOf, Over, Bulk, Done
  <2>2. (\A e \in Bulk : BulkFlight(e)') /\ ~Answered'
    BY <1>1, <1>3, <1>4, <2>1, StageBegins
  <2>3. CalmInv'
    BY <1>1, <1>4, <1>5, <2>2 DEF CalmInv
  <2>4. device.phase = "idle"
    BY <1>1, <1>5 DEF ProtocolInv, PhaseAt, Over
  <2>5. PhaseAt(call'.stage, call'.op, Answered') = "idle"
    BY <1>1, <1>4, <2>2 DEF PhaseAt
  <2>6. ~Moved'
    BY <1>1, <1>4 DEF Moved
  <2> QED
    BY <1>1, <2>3, <2>4, <2>5, <2>6 DEF ProtocolInv
<1>6. CASE ~calm
  BY <1>1, <1>6 DEF CalmInv, ProtocolInv
<1> QED
  BY <1>5, <1>6

\* What a calm call goes on to after a transfer, or after a test that failed.
LEMMA Recovered == \A c \in Call : Recovery(c).stage \in {"ioErr", "reset", "failed"}
BY DEF Recovery, Call

LEMMA StageAfter ==
    ASSUME TypeInv, call.stage \in Waiting \ {"reset", "clear"}, NEW d, d = Completed(call),
           d.stage # "reset"
    PROVE  /\ call.stage = "cbw" => d.stage = "data"
           /\ call.stage = "data" => d.stage = "csw"
           /\ call.stage = "csw" => d.stage = IF csw = <<"good">> THEN "noErr" ELSE "sense"
           /\ call.stage = "sense" => d.stage = "sense_data"
           /\ call.stage = "sense_data" => d.stage = "sense_csw"
           /\ call.stage = "sense_csw" => d.stage \in {"test", "ioErr", "failed"}
           /\ call.stage = "test" => d.stage = "test_csw"
           /\ call.stage = "test_csw" => d.stage \in {"cbw", "sense"}
<1>1. call \in Call
  BY DEF TypeInv, CallTypes
<1>2. \A s : [call EXCEPT !.stage = s].stage = s
  BY <1>1 DEF Call
<1>3. CASE call.stage \in {"cbw", "data", "csw", "sense", "sense_data", "test"}
  BY <1>2, <1>3 DEF Completed
<1>4. CASE call.stage = "sense_csw"
  <2>1. d = Sensed(call, Parsed)
    BY <1>4 DEF Completed
  <2>2. \A w, l : Testing(call, w, l).stage = "test"
    BY <1>1 DEF Testing, Call
  <2>3. d.stage \in {"test", "ioErr", "failed"}
    BY <1>1, <2>1, <2>2, Recovered DEF Sensed
  <2> QED
    BY <1>4, <2>3
<1>5. CASE call.stage = "test_csw"
  <2>1. d = IF csw = <<"good">> THEN [call EXCEPT !.stage = "cbw", !.within = <<>>]
            ELSE [call EXCEPT !.stage = "sense"]
    BY <1>5 DEF Completed
  <2>2. [call EXCEPT !.stage = "cbw", !.within = <<>>].stage = "cbw"
    BY <1>1 DEF Call
  <2>3. d.stage \in {"cbw", "sense"}
    BY <1>2, <2>1, <2>2
  <2> QED
    BY <1>5, <2>3
<1> QED
  BY <1>3, <1>4, <1>5 DEF Waiting

LEMMA StageAfterFailure ==
    ASSUME TypeInv, call.stage = "failed"
    PROVE  Untested(call).stage \in {"test", "ioErr", "reset", "failed"}
<1>1. call \in Call /\ call.within # <<>>
  BY DEF TypeInv, CallTypes, Begun
<1>2. \A w, l : Testing(call, w, l).stage = "test"
  BY <1>1 DEF Testing, Call
<1>3. Front(call.within) \in Seq(Tests)
  BY <1>1, LastTest DEF Call
<1>4. [call EXCEPT !.within = Front(call.within)] \in Call
  BY <1>1, <1>3 DEF Call
<1>5. Recovery([call EXCEPT !.within = Front(call.within)]).stage \in {"ioErr", "reset", "failed"}
  BY <1>4, Recovered
<1> QED
  BY <1>2, <1>5 DEF Untested

LEMMA DiskCallCalm ==
    ASSUME TypeInv, EventInv, CalmInv, ProtocolInv, DiskCall
    PROVE  CalmInv' /\ ProtocolInv'
<1>1. CASE TransferCompletes
  <2>1. /\ call.stage \in Waiting /\ TakeEvent /\ EventThere /\ EventSlot = DiskSlot
        /\ Continue(Completed(call)) /\ calm' = (calm /\ call'.stage # "reset")
        /\ taker' = taker /\ buffer' = buffer /\ csw' = csw /\ device' = device /\ disk' = disk
    BY <1>1 DEF TransferCompletes, IsAwaited
  <2>2. CASE ~calm'
    BY <2>2 DEF CalmInv, ProtocolInv
  <2>3. CASE calm'
    <3> DEFINE d == Completed(call)
    <3>1. /\ calm /\ d.stage # "reset" /\ call' = d
          /\ call.stage \in Waiting \ {"reset", "clear"}
      BY <2>1, <2>3 DEF Continue, CalmInv
    <3>2. call \in Call /\ Begun(call)
      BY <2>1 DEF TypeInv, CallTypes, Waiting
    <3>3. d \in Call /\ d.op = call.op /\ d.block = call.block /\ d.n = call.n /\ Begun(d)
      BY <2>1, <3>2, NextStage DEF Follows, Begun
    <3> HIDE DEF d
    <3>4. /\ call.stage = "cbw" => d.stage = "data"
          /\ call.stage = "data" => d.stage = "csw"
          /\ call.stage = "csw" => d.stage = IF csw = <<"good">> THEN "noErr" ELSE "sense"
          /\ call.stage = "sense" => d.stage = "sense_data"
          /\ call.stage = "sense_data" => d.stage = "sense_csw"
          /\ call.stage = "sense_csw" => d.stage \in {"test", "ioErr", "failed"}
          /\ call.stage = "test" => d.stage = "test_csw"
          /\ call.stage = "test_csw" => d.stage \in {"cbw", "sense"}
      BY <3>1, StageAfter DEF d
    <3>5. call.stage \in {"cbw", "data", "csw", "sense", "sense_data", "sense_csw", "test", "test_csw"}
      BY <3>1 DEF Waiting
    <3>6. d.stage \notin {"reset", "clear"}
      BY <3>4, <3>5
    <3>7. ring' = Enqueued(d, ring) /\ control' = control
      BY <2>1, <3>1, <3>6 DEF Continue, d
    <3>8. /\ fifo[1] \in Bulk /\ Wanted(fifo[1]) /\ One(fifo, fifo[1])
      <4>1. fifo[1] \in Endpoints \cup {"ep0"} /\ fifo[1] \notin Hids /\ ~None(fifo, fifo[1])
        BY <2>1, ThereIsHead, SlotTells, TakeMoves
      <4>2. fifo[1] \in Bulk
        BY <3>1, <4>1 DEF CalmInv, Endpoints
      <4> QED
        BY <3>1, <4>1, <4>2 DEF CalmInv, BulkFlight
    <3>9. Answered
      BY <3>8 DEF Answered, Wanted
    <3>10. \A e \in Bulk : Done(ring[e], taker[e]) /\ None(fifo', e)
      <4> TAKE e \in Bulk
      <4>1. CASE e = fifo[1]
        <5>1. None(fifo', e) /\ ~None(fifo, e)
          BY <2>1, <3>8, <4>1, TakeMoves
        <5> QED
          BY <3>1, <5>1 DEF CalmInv, BulkFlight
      <4>2. CASE e # fifo[1]
        <5>1. Done(ring[e], taker[e]) /\ None(fifo, e)
          BY <3>1, <3>8, <4>2 DEF CalmInv, BulkFlight, Wanted, Done
        <5> QED
          BY <2>1, <5>1, TakeMoves
      <4> QED
        BY <4>1, <4>2
    <3>11. (\A e \in Bulk : BulkFlight(e)') /\ ~Answered'
      BY <2>1, <3>1, <3>3, <3>6, <3>7, <3>10, StageBegins
    <3>12. None(fifo', "ep0")
      BY <2>1, <3>1, TakeMoves DEF CalmInv
    <3>13. CalmInv'
      BY <3>1, <3>6, <3>7, <3>11, <3>12 DEF CalmInv
    <3>14. /\ device.phase = PhaseAt(call.stage, call.op, TRUE)
           /\ device.phase # "idle" => device.command = CommandAt(call)
           /\ Moved => Right
      BY <3>1, <3>9 DEF ProtocolInv
    <3>15. /\ device.phase = PhaseAt(d.stage, d.op, FALSE)
           /\ device.phase # "idle" => CommandAt(d) = CommandAt(call)
      <4>1. CASE call.stage \in {"cbw", "data", "csw"}
        BY <3>3, <3>4, <3>14, <4>1 DEF PhaseAt, CommandAt
      <4>2. CASE call.stage \in {"sense", "sense_data", "sense_csw"}
        BY <3>3, <3>4, <3>14, <4>2 DEF PhaseAt, CommandAt
      <4>3. CASE call.stage \in {"test", "test_csw"}
        BY <3>3, <3>4, <3>14, <4>3 DEF PhaseAt, CommandAt
      <4> QED
        BY <3>5, <4>1, <4>2, <4>3
    <3>16. Right' <=> Right
      BY <2>1, <3>1, <3>3 DEF Right
    <3>17. Moved' => Moved
      BY <2>1, <3>1, <3>4, <3>5, <3>9, <3>11 DEF Moved
    <3>18. PhaseAt(call'.stage, call'.op, Answered') = PhaseAt(d.stage, d.op, FALSE)
      BY <3>1, <3>11 DEF PhaseAt
    <3>19. CommandAt(call') = CommandAt(d)
      BY <3>1
    <3>20. device'.phase = PhaseAt(call'.stage, call'.op, Answered')
      BY <2>1, <3>15, <3>18
    <3>21. device'.phase # "idle" => device'.command = CommandAt(call')
      BY <2>1, <3>14, <3>15, <3>19
    <3> QED
      BY <3>13, <3>14, <3>16, <3>17, <3>20, <3>21 DEF ProtocolInv
  <2> QED
    BY <2>2, <2>3
<1>2. CASE SwallowEvent
  <2>1. /\ TakeEvent /\ EventThere /\ EventSlot # DiskSlot /\ ring' = ring /\ taker' = taker
        /\ control' = control /\ UNCHANGED <<call, device, disk, csw>> /\ buffer' = buffer
        /\ calm' = calm
    BY <1>2 DEF SwallowEvent, IsAwaited, diskVars
  <2>2. \A e \in Bulk \cup {"ep0"} : e # fifo[1]
    BY <2>1, SlotTells, XhciAssumption
  <2> QED
    BY <2>1, <2>2, TakeMoves, CalmStays
<1>3. CASE TransferTimesOut
  BY <1>3 DEF TransferTimesOut, CalmInv, ProtocolInv
<1>4. CASE TestFails
  <2> DEFINE d == Untested(call)
  <2>1. /\ call.stage = "failed" /\ Continue(d) /\ calm' = (calm /\ d.stage # "reset")
        /\ call' = d
        /\ taker' = taker /\ fifo' = fifo /\ buffer' = buffer /\ csw' = csw /\ device' = device
        /\ disk' = disk
    BY <1>4 DEF TestFails, Continue
  <2>2. d.stage \in {"test", "ioErr", "reset", "failed"}
    BY <2>1, StageAfterFailure
  <2>3. CASE ~calm'
    BY <2>3 DEF CalmInv, ProtocolInv
  <2>4. CASE calm'
    <3>1. calm /\ d.stage \in {"test", "ioErr", "failed"}
      BY <2>1, <2>2, <2>4
    <3>2. call \in Call /\ Begun(call) /\ call.within # <<>>
      BY <2>1 DEF TypeInv, CallTypes, Begun
    <3>3. d \in Call /\ d.op = call.op /\ d.block = call.block /\ d.n = call.n /\ Begun(d)
      BY <2>1, <3>2, NextStage DEF Follows, Begun
    <3> HIDE DEF d
    <3>4. ring' = Enqueued(d, ring) /\ control' = control
      BY <2>1, <3>1 DEF Continue
    <3>5. PipeOf(call) = "ep0" /\ "ep0" \notin Bulk
      BY <2>1 DEF PipeOf, Bulk
    <3>6. \A e \in Bulk : Done(ring[e], taker[e]) /\ None(fifo', e)
      BY <2>1, <3>1, <3>5 DEF CalmInv, BulkFlight, Wanted, Done
    <3>7. (\A e \in Bulk : BulkFlight(e)') /\ ~Answered'
      BY <2>1, <3>1, <3>3, <3>4, <3>6, StageBegins
    <3>8. CalmInv'
      BY <2>1, <3>1, <3>4, <3>7 DEF CalmInv
    <3>9. ~Answered /\ device.phase = "idle"
      BY <2>1, <3>1, <3>5 DEF Answered, ProtocolInv, PhaseAt
    <3>10. PhaseAt(call'.stage, call'.op, Answered') = "idle"
      BY <2>1, <3>1, <3>7 DEF PhaseAt
    <3>11. ~Moved'
      BY <2>1, <3>1 DEF Moved
    <3> QED
      BY <2>1, <3>8, <3>9, <3>10, <3>11 DEF ProtocolInv
  <2> QED
    BY <2>3, <2>4
<1> QED
  BY <1>1, <1>2, <1>3, <1>4 DEF DiskCall

\* The disk takes what the driver has put on a bulk pipe: it is what the stage
\* of the call names, it was not answered before, and now it is.
LEMMA BulkTaken ==
    ASSUME TypeInv, EventInv, CalmInv, calm, NEW e \in Bulk, Takes(e)
    PROVE  /\ Wanted(e) /\ ~Answered /\ Taken(e) = Payload(call)
           /\ control' = control => CalmInv'
           /\ Answered'
           /\ call.stage \in Waiting /\ Begun(call)
<1>1. /\ ring' = ring /\ call' = call /\ calm' = calm /\ PostEvent(e)
      /\ Ready(ring[e].trbs, taker[e])
      /\ taker' = [taker EXCEPT ![e] = Passed(ring[e].trbs, taker[e])]
  BY DEF Takes
<1>2. ~Done(ring[e], taker[e])
  BY <1>1, BulkFacts, DoneIsQuiet
<1>3. Wanted(e) /\ BulkWaits(ring[e], taker[e], Payload(call)) /\ None(fifo, e)
  BY <1>2 DEF CalmInv, BulkFlight, Done
<1>4. ~Answered
  BY <1>3, NoneNotOne DEF Answered, Wanted
<1>5. Taken(e) = Payload(call)
  BY <1>3 DEF BulkWaits, Taken
<1>6. e \in Endpoints /\ e # "ep0"
  BY BulkFacts
<1>7. One(fifo', e)
  BY <1>1, <1>3, <1>6, PostMoves
<1>8. taker'[e] = Passed(ring[e].trbs, taker[e]) /\ \A o \in Bulk \ {e} : taker'[o] = taker[o]
  BY <1>1, <1>6, BulkFacts DEF TypeInv, UsbTypes
<1>9. BulkFlight(e)'
  BY <1>1, <1>3, <1>7, <1>8 DEF BulkFlight, BulkWaits, Wanted
<1>10. \A o \in Bulk \ {e} : BulkFlight(o)'
  <2> SUFFICES ASSUME NEW o \in Bulk \ {e} PROVE BulkFlight(o)'
    OBVIOUS
  <2>1. BulkFlight(o)
    BY DEF CalmInv
  <2>2. (None(fifo, o) => None(fifo', o)) /\ (One(fifo, o) => One(fifo', o))
    BY <1>1, <1>6, PostMoves
  <2> QED
    BY <1>1, <1>8, <2>1, <2>2 DEF BulkFlight, Wanted
<1>11. None(fifo', "ep0")
  BY <1>1, <1>6, PostMoves DEF CalmInv
<1>12. control' = control => CalmInv'
  BY <1>1, <1>9, <1>10, <1>11 DEF CalmInv
<1>13. Answered'
  BY <1>1, <1>3, <1>7 DEF Answered, Wanted
<1>14. call.stage \in Waiting /\ Begun(call)
  BY <1>3 DEF Wanted, PipeOf, Bulk, Waiting, TypeInv, CallTypes
<1> QED
  BY <1>3, <1>4, <1>5, <1>12, <1>13, <1>14

\* What is on each pipe at each stage.
LEMMA OutStages ==
    ASSUME Wanted("out")
    PROVE  /\ call.stage \in {"cbw", "sense", "test", "data"}
           /\ call.stage = "cbw" => Payload(call) = <<"cbw", call.op, call.block>>
           /\ call.stage = "sense" => Payload(call) = <<"cbw", "sense">>
           /\ call.stage = "test" => Payload(call) = <<"cbw", "test">>
           /\ call.stage = "data" => call.op = "write" /\ Payload(call) = <<"data", call.n>>
BY DEF Wanted, PipeOf, Payload

LEMMA InStages ==
    ASSUME Wanted("in")
    PROVE  /\ call.stage \in {"data", "csw", "sense_data", "sense_csw", "test_csw"}
           /\ call.stage = "data" => call.op # "write" /\ Payload(call) = <<"caller", call.n>>
           /\ call.stage \in {"csw", "sense_csw", "test_csw"} => Payload(call) = <<"csw">>
           /\ call.stage = "sense_data" => Payload(call) = <<"sense">>
BY DEF Wanted, PipeOf, Payload

LEMMA DevicesCalm ==
    ASSUME TypeInv, EventInv, CalmInv, ProtocolInv, Devices
    PROVE  CalmInv' /\ ProtocolInv'
<1>1. "out" \in Bulk /\ "in" \in Bulk /\ Hids \subseteq Endpoints
  BY DEF Bulk, Endpoints
<1>2. CASE ~calm
  <2>1. calm' = calm
    BY DEF Devices, Report, DiskAccepts, DiskWrites, DiskSends, DiskConcludes, DiskObeys, Takes
  <2> QED
    BY <1>2, <2>1 DEF CalmInv, ProtocolInv
<1>3. CASE calm
  <2>1. /\ device.phase = PhaseAt(call.stage, call.op, Answered)
        /\ device.phase # "idle" => device.command = CommandAt(call)
        /\ Moved => Right
    BY <1>3 DEF ProtocolInv
  <2>2. device \in Device /\ disk \in [Blocks -> Data]
    BY DEF TypeInv, DiskTypes
  <2>3. ASSUME NEW h \in Hids, Report(h)
        PROVE  CalmInv' /\ ProtocolInv'
    <3>1. /\ PostEvent(h) /\ ring' = ring /\ taker' = [taker EXCEPT ![h] = Passed(ring[h].trbs, taker[h])]
          /\ calm' = calm /\ control' = control /\ UNCHANGED <<call, device, disk, csw>>
          /\ buffer' = buffer
      BY <2>3 DEF Report, Takes
    <3>2. \A e \in Bulk \cup {"ep0"} : e # h
      BY XhciAssumption
    <3>3. \A e \in Bulk : taker'[e] = taker[e]
      BY <3>1, <3>2, BulkFacts DEF TypeInv, UsbTypes
    <3> QED
      BY <1>1, <3>1, <3>2, <3>3, PostMoves, CalmStays
  <2>4. ASSUME NEW good \in BOOLEAN, DiskAccepts(good)
        PROVE  CalmInv' /\ ProtocolInv'
    <3>1. /\ Takes("out") /\ device.phase = "idle" /\ control' = control /\ buffer' = buffer
          /\ csw' = csw /\ disk' = disk
          /\ device' = [phase |-> CASE Taken("out")[2] = "write" -> "out"
                                    [] Taken("out")[2] = "test" -> "status"
                                    [] OTHER -> "in",
                        command |-> Taken("out"), good |-> good]
      BY <2>4 DEF DiskAccepts
    <3>2. /\ Wanted("out") /\ ~Answered /\ Taken("out") = Payload(call) /\ CalmInv' /\ Answered'
      BY <1>1, <1>3, <3>1, BulkTaken
    <3>3. call' = call /\ calm' = calm
      BY <3>1 DEF Takes
    <3>4. call.stage \in {"cbw", "sense", "test"}
      BY <2>1, <3>1, <3>2, OutStages DEF PhaseAt, Dir
    <3>5. ~Moved'
      BY <3>3, <3>4 DEF Moved
    <3>6. Payload(call)[2] = IF call.stage = "cbw" THEN call.op ELSE call.stage
      BY <3>2, <3>4, OutStages
    <3>7. call.op \in {"read", "write"}
      BY DEF TypeInv, CallTypes, Call
    <3>8. device'.phase = CASE Payload(call)[2] = "write" -> "out"
                            [] Payload(call)[2] = "test" -> "status"
                            [] OTHER -> "in"
      BY <3>1, <3>2
    <3>9. device'.phase = PhaseAt(call'.stage, call'.op, Answered')
      <4>1. CASE call.stage = "cbw"
        BY <3>2, <3>3, <3>6, <3>7, <3>8, <4>1 DEF PhaseAt, Dir
      <4>2. CASE call.stage = "sense"
        BY <3>2, <3>3, <3>6, <3>8, <4>2 DEF PhaseAt
      <4>3. CASE call.stage = "test"
        BY <3>2, <3>3, <3>6, <3>8, <4>3 DEF PhaseAt
      <4> QED
        BY <3>4, <4>1, <4>2, <4>3
    <3>10. device'.command = CommandAt(call')
      BY <3>1, <3>2, <3>3, <3>4, OutStages DEF CommandAt
    <3> QED
      BY <3>2, <3>5, <3>9, <3>10 DEF ProtocolInv
  <2>5. ASSUME NEW good \in BOOLEAN, DiskWrites(good)
        PROVE  CalmInv' /\ ProtocolInv'
    <3>1. /\ Takes("out") /\ device.phase = "out" /\ control' = control /\ buffer' = buffer
          /\ csw' = csw
          /\ disk' = [disk EXCEPT ![device.command[3]] =
                         IF ~good THEN @ ELSE IF Taken("out") \in Data THEN Taken("out") ELSE <<"junk">>]
          /\ device' = [device EXCEPT !.phase = "status", !.good = good]
      BY <2>5 DEF DiskWrites
    <3>2. /\ Wanted("out") /\ ~Answered /\ Taken("out") = Payload(call) /\ CalmInv' /\ Answered'
          /\ Begun(call)
      BY <1>1, <1>3, <3>1, BulkTaken
    <3>3. call' = call /\ calm' = calm
      BY <3>1 DEF Takes
    <3>4. call.stage = "data" /\ call.op = "write"
      BY <2>1, <3>1, <3>2, OutStages DEF PhaseAt, Dir
    <3>5. /\ device'.phase = "status" /\ device'.good = good
          /\ device'.command = device.command /\ device.command = CommandAt(call)
      BY <2>1, <2>2, <3>1 DEF Device
    <3>6. device.command[3] = call.block /\ call.block \in Blocks
      BY <3>2, <3>4, <3>5 DEF CommandAt, Begun
    <3>7. Taken("out") = <<"data", call.n>> /\ Taken("out") \in Data
      <4>1. call.n \in 0..MaxCalls
        BY DEF TypeInv, CallTypes, Call
      <4> QED
        BY <3>2, <3>4, <4>1, OutStages DEF Data
    <3>8. good => disk'[call.block] = <<"data", call.n>>
      BY <2>2, <3>1, <3>6, <3>7
    <3>9. device'.phase = PhaseAt(call'.stage, call'.op, Answered')
      BY <3>2, <3>3, <3>4, <3>5 DEF PhaseAt
    <3>10. device'.command = CommandAt(call')
      BY <3>3, <3>5
    <3>11. Moved' => Right'
      BY <3>3, <3>4, <3>5, <3>8 DEF Moved, Right
    <3> QED
      BY <3>2, <3>9, <3>10, <3>11 DEF ProtocolInv
  <2>6. ASSUME NEW good \in BOOLEAN, NEW key \in Keys, DiskSends(good, key)
        PROVE  CalmInv' /\ ProtocolInv'
    <3> DEFINE content == IF ~good THEN <<"junk">>
                          ELSE IF device.command[2] = "read" THEN disk[device.command[3]]
                          ELSE <<"sense">>
    <3>1. /\ Takes("in") /\ device.phase = "in" /\ control' = control /\ disk' = disk
          /\ Lands(Taken("in"), content, key)
          /\ device' = [device EXCEPT !.phase = "status", !.good = good]
      BY <2>6 DEF DiskSends
    <3>2. /\ Wanted("in") /\ ~Answered /\ Taken("in") = Payload(call) /\ CalmInv' /\ Answered'
          /\ call.stage \in Waiting
      BY <1>1, <1>3, <3>1, BulkTaken
    <3>3. call' = call /\ calm' = calm
      BY <3>1 DEF Takes
    <3>4. (call.stage = "data" /\ call.op # "write") \/ call.stage = "sense_data"
      BY <2>1, <3>1, <3>2, InStages DEF PhaseAt, Dir
    <3>5. /\ device'.phase = "status" /\ device'.good = good
          /\ device'.command = device.command /\ device.command = CommandAt(call)
      BY <2>1, <2>2, <3>1 DEF Device
    <3>6. device'.phase = PhaseAt(call'.stage, call'.op, Answered')
      BY <3>2, <3>3, <3>4, <3>5 DEF PhaseAt
    <3>7. device'.command = CommandAt(call')
      BY <3>3, <3>5
    <3>8. Moved' => Right'
      <4>1. CASE call.stage = "sense_data"
        BY <3>3, <4>1 DEF Moved
      <4>2. CASE call.stage = "data"
        <5>1. call.op = "read"
          BY <3>4, <4>2 DEF TypeInv, CallTypes, Call
        <5>2. good => content = disk[call.block]
          BY <3>5, <4>2, <5>1 DEF CommandAt
        <5>3. Taken("in") = <<"caller", call.n>>
          BY <3>2, <4>2, InStages
        <5>4. buffer' = content
          BY <3>1, <3>2, <5>3 DEF Lands
        <5> QED
          BY <3>1, <3>3, <3>5, <4>2, <5>1, <5>2, <5>4 DEF Moved, Right
      <4> QED
        BY <3>4, <4>1, <4>2
    <3> QED
      BY <3>2, <3>6, <3>7, <3>8 DEF ProtocolInv
  <2>7. CASE DiskConcludes
    <3> DEFINE content == IF device.good THEN <<"good">> ELSE <<"bad">>
    <3>1. /\ Takes("in") /\ device.phase = "status" /\ control' = control /\ disk' = disk
          /\ Lands(Taken("in"), content, "other")
          /\ device' = [device EXCEPT !.phase = "idle"]
      BY <2>7 DEF DiskConcludes
    <3>2. /\ Wanted("in") /\ ~Answered /\ Taken("in") = Payload(call) /\ CalmInv' /\ Answered'
          /\ call.stage \in Waiting
      BY <1>1, <1>3, <3>1, BulkTaken
    <3>3. call' = call /\ calm' = calm
      BY <3>1 DEF Takes
    <3>4. call.stage \in {"csw", "sense_csw", "test_csw"}
      BY <2>1, <3>1, <3>2, InStages DEF PhaseAt, Dir
    <3>5. device'.phase = "idle"
      BY <2>2, <3>1 DEF Device
    <3>6. device'.phase = PhaseAt(call'.stage, call'.op, Answered')
      BY <3>2, <3>3, <3>4, <3>5 DEF PhaseAt
    <3>7. Taken("in") = <<"csw">> /\ <<"csw">> # <<"caller", call.n>>
      BY <3>2, <3>4, InStages
    <3>8. buffer' = buffer /\ (csw' = <<"good">> => device.good)
      BY <3>1, <3>7 DEF Lands
    <3>9. Moved' => Right'
      BY <2>1, <3>1, <3>2, <3>3, <3>4, <3>8 DEF Moved, Right
    <3> QED
      BY <3>2, <3>5, <3>6, <3>9 DEF ProtocolInv
  <2>8. CASE DiskObeys
    BY <1>3, <2>8 DEF DiskObeys, CalmInv
  <2> QED
    BY <2>3, <2>4, <2>5, <2>6, <2>7, <2>8 DEF Devices
<1> QED
  BY <1>2, <1>3

LEMMA CalmInit == Init => CalmInv /\ ProtocolInv
<1> SUFFICES ASSUME Init PROVE CalmInv /\ ProtocolInv
  OBVIOUS
<1>1. /\ fifo = <<>> /\ control = <<>> /\ call.stage = "none"
      /\ device.phase = "idle"
  BY DEF Init
<1>2. \A e : None(fifo, e)
  BY <1>1 DEF None
<1>3. \A e \in Bulk : InStep(ring[e], taker[e])
  <2> SUFFICES ASSUME NEW e \in Bulk PROVE InStep(ring[e], taker[e])
    OBVIOUS
  <2>1. e \in Endpoints
    BY DEF Endpoints
  <2>2. /\ ring[e] = [trbs |-> [i \in RingPlaces |-> Trb("none", 0, <<>>)], index |-> 0, cycle |-> 1]
        /\ taker[e] = [at |-> 0, cycle |-> 1]
    BY <2>1 DEF Init, RingPlaces
  <2>3. /\ \A j \in RingPlaces : /\ ring[e].trbs[j].type = "none" /\ ring[e].trbs[j].cycle = 0
                                 /\ ~(j < 0)
        /\ ring[e].index = 0 /\ ring[e].cycle = 1
    BY <2>2, RingBounds DEF Trb
  <2>4. BulkShape(ring[e])
    BY <2>3, RingBounds DEF BulkShape
  <2>5. Followed(ring[e].trbs, taker[e]) = taker[e]
    BY <2>2, <2>3, RingBounds DEF Followed
  <2> QED
    BY <2>2, <2>4, <2>5 DEF InStep, Caught
<1>4. PipeOf(call) \notin Bulk
  BY <1>1 DEF PipeOf, Bulk
<1>5. CalmInv
  BY <1>1, <1>2, <1>3, <1>4 DEF CalmInv, BulkFlight, Wanted, Done
<1>6. ProtocolInv
  BY <1>1, <1>4 DEF ProtocolInv, PhaseAt, Moved
<1> QED
  BY <1>5, <1>6

LEMMA CalmStep ==
    TypeInv /\ EventInv /\ CalmInv /\ ProtocolInv /\ [Next]_vars => CalmInv' /\ ProtocolInv'
<1> SUFFICES ASSUME TypeInv, EventInv, CalmInv, ProtocolInv, [Next]_vars
             PROVE  CalmInv' /\ ProtocolInv'
  OBVIOUS
<1>1. ASSUME NEW op \in {"read", "write"}, NEW b \in Blocks, BeginCall(op, b)
      PROVE  CalmInv' /\ ProtocolInv'
  BY <1>1, BeginCalm
<1>2. CASE UNCHANGED vars
  BY <1>2, CalmStays DEF vars, usbVars, diskVars
<1> QED
  BY <1>1, <1>2, MainLoopCalm, DiskCallCalm, DevicesCalm DEF Next

LEMMA CalmInvariant == Spec => [](TypeInv /\ EventInv /\ CalmInv /\ ProtocolInv)
BY TypesInit, TypesStep, EventsInit, EventsStep, CalmInit, CalmStep, PTL DEF Spec

LEMMA HidInvariant == Spec => [](TypeInv /\ EventInv /\ HidInv)
<1>1. Init => TypeInv /\ EventInv /\ HidInv
  BY TypesInit, EventsInit, FlightsInit
<1>2. TypeInv /\ EventInv /\ HidInv /\ [Next]_vars => (TypeInv /\ EventInv /\ HidInv)'
  BY TypesStep, EventsStep, FlightsStep
<1> QED
  BY <1>1, <1>2, PTL DEF Spec

\* How the TRBs the controller can see are counted.
LEMMA OnRingCounts ==
    ASSUME NEW e, NEW n \in {0, 1},
           IF n = 0 THEN ~Ready(ring[e].trbs, taker[e])
           ELSE /\ Ready(ring[e].trbs, taker[e])
                /\ ~Ready(ring[e].trbs, Passed(ring[e].trbs, taker[e]))
    PROVE  /\ None(fifo, e) => InFlight(e) = n
           /\ One(fifo, e) => InFlight(e) = n + 1
<1>1. OnRing(e) = n
  BY DEF OnRing
<1> DEFINE count == Cardinality({k \in DOMAIN fifo : fifo[k] = e})
<1>2. (None(fifo, e) => count = 0) /\ (One(fifo, e) => count = 1)
  BY Counted
<1>3. InFlight(e) = n + count
  BY <1>1 DEF InFlight
<1> HIDE DEF count
<1> QED
  BY <1>2, <1>3

LEMMA DiskInFlight ==
    ASSUME TypeInv, CalmInv, calm, NEW e \in Bulk
    PROVE  \/ AtForeignLink(e)
           \/ InFlight(e) = IF PipeOf(call) = e THEN 1 ELSE 0
<1>1. ring[e] \in Ring /\ EndsInLink(ring[e]) /\ ring[e].index < RingSize - 1 /\ taker[e] \in Taker
  BY BulkFacts
<1>2. Stuck(ring[e], taker[e]) => AtForeignLink(e)
  BY DEF Stuck, AtForeignLink
<1>3. BulkFlight(e)
  BY DEF CalmInv
<1>4. CASE Done(ring[e], taker[e]) /\ (IF Wanted(e) THEN One(fifo, e) ELSE None(fifo, e))
  <2>1. ~Ready(ring[e].trbs, taker[e])
    BY <1>1, <1>4, DoneIsQuiet
  <2> QED
    BY <1>4, <2>1, OnRingCounts DEF Wanted
<1>5. CASE Wanted(e) /\ BulkWaits(ring[e], taker[e], Payload(call)) /\ None(fifo, e)
  <2>1. Ready(ring[e].trbs, taker[e]) /\ Done(ring[e], Passed(ring[e].trbs, taker[e]))
    BY <1>5 DEF BulkWaits
  <2>2. ~Ready(ring[e].trbs, Passed(ring[e].trbs, taker[e]))
    BY <1>1, <2>1, TakerType, DoneIsQuiet
  <2> QED
    BY <1>5, <2>1, <2>2, OnRingCounts DEF Wanted
<1> QED
  BY <1>2, <1>3, <1>4, <1>5 DEF BulkFlight

\* Whichever lap its ring is in, a pending keyboard or mouse has exactly one
\* report asked for or in the event ring, unless a disk transfer took it; a
\* keyboard and a mouse in one slot have two between them, though one may have
\* both; and so has the transfer a calm disk call waits for one, unless its ring
\* has come to the link with the wrong cycle bit.
THEOREM OneTransferInFlight == Spec => []TransferInFlight
<1>1. HidInv => /\ \A h \in Hids : (\A g \in Hids : SlotOf[g] = SlotOf[h] => g = h)
                                     => InFlight(h) + swallowed[SlotOf[h]] = Asked(h)
                /\ \A k \in Keyboards, m \in Mice : SlotOf[k] = SlotOf[m]
                       => InFlight(k) + InFlight(m) + swallowed[SlotOf[k]] = Asked(k) + Asked(m)
  BY DEF HidInv, Sums, Alone, Pair
<1>2. TypeInv /\ CalmInv => (calm => \A e \in Bulk : \/ AtForeignLink(e)
                                                     \/ InFlight(e) = IF PipeOf(call) = e THEN 1 ELSE 0)
  BY DiskInFlight
<1>3. TypeInv /\ EventInv /\ HidInv /\ CalmInv /\ ProtocolInv => TransferInFlight
  BY <1>1, <1>2 DEF TransferInFlight
<1> QED
  BY <1>3, HidInvariant, CalmInvariant, PTL

\* While no transfer has timed out and no recovery was tried, a call of the disk
\* that returns noErr has moved the block: whatever the events of keyboards and
\* mice in between, the status it accepts is the one of its own command.
THEOREM CalmCallsCorrect == Spec => []CalmCallsAreRight
<1>1. TypeInv /\ EventInv /\ CalmInv /\ ProtocolInv => CalmCallsAreRight
  BY DEF CalmCallsAreRight, ProtocolInv, Moved, Right
<1> QED
  BY <1>1, CalmInvariant, PTL
=============================================================================
