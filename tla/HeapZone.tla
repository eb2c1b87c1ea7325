------------------------------ MODULE HeapZone ------------------------------
(***************************************************************************)
(* A heap zone of the Memory Manager (MemoryManager.c): the functions that *)
(* read and write its memory, from freelist_insert to PurgeMem's and       *)
(* CompactMem's turns of their loops.  MemoryManager calls them.           *)
(*                                                                         *)
(* The memory is modelled word by word, in units of ALIGN = 8 bytes, since *)
(* what the code does to a heap it has damaged depends on what lies where. *)
(* A cell is one unit and holds two words:                                 *)
(*     a block at b has at b     size and flags with lockCount,            *)
(*                      at b + 1 prevSize and masterPtr,                   *)
(*                      at b + 2 next and prev, when it is free.           *)
(* A pointer to a FreeNode is named by the block it belongs to.  A word    *)
(* carries the kind it was written as, and reading it as another kind      *)
(* gives what the bits would give: an address read as a size is more than  *)
(* the zone, a number read as a pointer points outside it.                 *)
(***************************************************************************)
EXTENDS Integers, Sequences, FiniteSets, FiniteSetsExt

CONSTANTS
    ZoneSize,     \* limit - base
    ClassLimits,  \* the largest size of each size class but the last
    MasterCount   \* mpCount

ASSUME ZoneAssumption ==
    /\ ZoneSize \in Nat /\ ZoneSize > 3
    /\ ClassLimits \in Seq(Nat)
    /\ \A i \in 1 .. Len(ClassLimits) - 1 : ClassLimits[i] < ClassLimits[i + 1]
    /\ MasterCount \in Nat

HeaderSize == 2              \* BLKHDR_SZ
MinBlockSize == 3            \* MIN_BLOCK_SIZE: a header and a FreeNode
Addr == 0 .. ZoneSize - 1
Null == -1
Wild == -2                   \* a pointer that leads out of the zone
Reserved == -3               \* (void*)1 in the master pointer table
Masters == 0 .. MasterCount - 1
Classes == 0 .. Len(ClassLimits)

-----------------------------------------------------------------------------
(* Words: what the code reads at an address, whatever was written there.    *)

CanaryLock == 43947          \* 0xABAB
CanarySize == 8              \* CANARY_SIZE, which NewPtr keeps in lockCount
Zero == <<"number", 0>>
Canary == <<"bytes">>        \* CANARY_BYTE, or other bytes that are not 0
Data(x) == <<"data", x>>     \* the zeros NewPtr or NewHandle gave to x
Word == {Canary}
        \cup ({"data"} \X (Masters \cup {Null}))
        \cup ({"number"} \X Nat)
        \cup ({"node"} \X Addr)
        \cup ({"master"} \X Masters)
        \cup ({"flags"} \X (SUBSET {"FREE", "PTR", "HANDLE", "LOCKED", "PURGEABLE"}) \X Nat)

Number(n) == <<"number", n>>
NodeWord(n) == IF n \in Addr THEN <<"node", n>> ELSE IF n = Null THEN Zero ELSE Canary

IsZero(w) == w = Zero \/ w[1] = "data"
AsNumber(w) == IF w[1] = "number" THEN w[2] ELSE IF IsZero(w) THEN 0 ELSE ZoneSize + 1
AsFlags(w) == IF w[1] = "flags" THEN w[2]
              ELSE IF w = Canary THEN {"FREE", "PTR", "LOCKED"} ELSE {}
AsLockCount(w) == IF w[1] = "flags" THEN w[3] ELSE IF IsZero(w) THEN 0 ELSE CanaryLock
AsNode(w) == IF w[1] = "node" THEN w[2] ELSE IF IsZero(w) THEN Null ELSE Wild

\* A zone z has z.mem, z.freelists (the head of each class), z.mpBase, z.bytesUsed
\* and z.bytesFree. Past its limit lies memory that reads as 0 and is not kept.
Cell(z, a) == IF a \in Addr THEN z.mem[a] ELSE [lo |-> Zero, hi |-> Zero]
PutLo(z, a, w) == IF a \in Addr THEN [z EXCEPT !.mem[a].lo = w] ELSE z
PutHi(z, a, w) == IF a \in Addr THEN [z EXCEPT !.mem[a].hi = w] ELSE z

Size(z, b) == AsNumber(Cell(z, b).lo)
Flags(z, b) == AsFlags(Cell(z, b).hi)
LockCount(z, b) == AsLockCount(Cell(z, b).hi)
PrevSize(z, b) == AsNumber(Cell(z, b + 1).lo)
MasterPtr(z, b) == LET w == Cell(z, b + 1).hi IN IF w[1] = "master" THEN w[2] ELSE Null
NextNode(z, n) == IF n \in Addr THEN AsNode(Cell(z, n + HeaderSize).lo) ELSE Wild
PrevNode(z, n) == IF n \in Addr THEN AsNode(Cell(z, n + HeaderSize).hi) ELSE Wild

SetSize(z, b, n) == PutLo(z, b, Number(n))
SetFlags(z, b, fs) == PutHi(z, b, <<"flags", fs, LockCount(z, b)>>)
SetLockCount(z, b, k) == PutHi(z, b, <<"flags", Flags(z, b), k>>)
SetPrevSize(z, b, n) == PutLo(z, b + 1, Number(n))
SetMaster(z, b, i) == PutHi(z, b + 1, IF i \in Masters THEN <<"master", i>> ELSE Zero)
SetNext(z, n, m) == IF n \in Addr THEN PutLo(z, n + HeaderSize, NodeWord(m)) ELSE z
SetPrev(z, n, m) == IF n \in Addr THEN PutHi(z, n + HeaderSize, NodeWord(m)) ELSE z
SetLinks(z, n, next, prev) == SetPrev(SetNext(z, n, next), n, prev)

\* The header of a free block that is made in place: lockCount is not among
\* what the code sets.
FreeHeader(z, b, size, prev) ==
    SetMaster(SetPrevSize(SetFlags(SetSize(z, b, size), b, {"FREE"}), b, prev), b, Null)

Fill(z, from, n, w) == [z EXCEPT !.mem = [a \in Addr |->
    IF a \in from .. from + n - 1 THEN [lo |-> w, hi |-> w] ELSE z.mem[a]]]

\* Mutant of Copied: the last unit is left behind.
CopiedShort(z, to, from, n) == [z EXCEPT !.mem = [a \in Addr |->
    IF a \in to .. to + n - 2 THEN Cell(z, from + (a - to)) ELSE z.mem[a]]]

\* memcpy, which goes upwards, so that a move downwards may overlap.
Copied(z, to, from, n) == [z EXCEPT !.mem = [a \in Addr |->
    IF a \in to .. to + n - 1 THEN Cell(z, from + (a - to)) ELSE z.mem[a]]]

-----------------------------------------------------------------------------
(* Free lists: a circular list for each size class.                         *)

SizeClass(n) == Cardinality({i \in DOMAIN ClassLimits : ClassLimits[i] < n})

IsValidFreenode(n) == n \in Addr /\ n + MinBlockSize <= ZoneSize

ValidateBlock(z, b) ==
    /\ b \in Addr
    /\ Size(z, b) \in 1 .. ZoneSize - b
    /\ "FREE" \in Flags(z, b) => Size(z, b) >= MinBlockSize
    /\ PrevSize(z, b) <= b

\* The loops over a ring give up after 10000 nodes. Here they do after WalkLimit,
\* more than the zone has room for: a ring that does not come back to its start
\* within it never does.
WalkLimit == 1 + ZoneSize \div MinBlockSize
RingFrom(z, head) ==
    LET at[i \in 0 .. WalkLimit] == IF i = 0 THEN head ELSE NextNode(z, at[i - 1])
    IN  at

\* Where a walk of the ring ends: at a node where it stops, or back at its start.
WalkEnd(at, Stops(_)) ==
    LET ends == {i \in 0 .. WalkLimit : (i > 0 /\ at[i] = at[0]) \/ Stops(at[i])}
    IN  IF ends = {} THEN WalkLimit ELSE Min(ends)
BadLinks(z, n) == ~IsValidFreenode(n) \/ ~IsValidFreenode(NextNode(z, n))
CameBack(at, i) == i > 0 /\ at[i] = at[0]

GoodNode(z, n) ==
    ~BadLinks(z, n) /\ ValidateBlock(z, n) /\ PrevNode(z, NextNode(z, n)) = n

ValidateFreelist(z) == \A c \in Classes :
    z.freelists[c] # Null =>
        LET at == RingFrom(z, z.freelists[c])
        IN  CameBack(at, WalkEnd(at, LAMBDA n : ~GoodNode(z, n)))

DropAll(z) == [z EXCEPT !.freelists = [c \in Classes |-> Null]]

FreelistUnlinkNode(z, c, n) ==
    LET next == NextNode(z, n)
        prev == PrevNode(z, n)
        head == z.freelists[c]
    IN  IF BadLinks(z, n) \/ ~IsValidFreenode(prev) THEN [z EXCEPT !.freelists[c] = Null]
        ELSE IF next = n THEN SetLinks([z EXCEPT !.freelists[c] = Null], n, Null, Null)
        ELSE SetLinks(SetPrev(SetNext([z EXCEPT !.freelists[c] = IF head = n THEN next ELSE head],
                                      prev, next), next, prev), n, Null, Null)

FreelistInsert(z, b) ==
    IF b \notin Addr \/ Size(z, b) < MinBlockSize THEN z
    ELSE LET c == SizeClass(Size(z, b))
             head == z.freelists[c]
             cleared == SetLinks(SetFlags(z, b, {"FREE"}), b, Null, Null)
             linked == SetNext(cleared, b, head)
             after == SetPrev(linked, b, PrevNode(linked, head))
             led == [after EXCEPT !.freelists[c] = b]
         IN  IF head = Null \/ ~IsValidFreenode(head)
             THEN SetLinks([cleared EXCEPT !.freelists[c] = b], b, b, b)
             ELSE SetPrev(SetNext(led, PrevNode(led, head), b), head, b)

\* Mutant of FreelistRemove: the head of the list is left pointing at the block.
FreelistRemoveKeepsHead(z, b) ==
    LET next == NextNode(z, b)
        prev == PrevNode(z, b)
    IN  IF next = Null \/ prev = Null THEN z
        ELSE SetLinks(SetPrev(SetNext(z, prev, next), next, prev), b, Null, Null)

FreelistRemove(z, b) ==
    LET c == SizeClass(Size(z, b))
        next == NextNode(z, b)
        prev == PrevNode(z, b)
        head == z.freelists[c]
    IN  IF next = Null \/ prev = Null THEN z
        ELSE IF next = b THEN SetLinks([z EXCEPT !.freelists[c] = Null], b, Null, Null)
        ELSE SetLinks(SetPrev(SetNext([z EXCEPT !.freelists[c] = IF head = b THEN next ELSE head],
                                      prev, next), next, prev), b, Null, Null)

-----------------------------------------------------------------------------
(* Neighbours.                                                              *)

\* Mutant of TellNext: the block after b keeps its prevSize.
TellNobody(z, b) == z

\* The block after b, if there is one, learns b's size.
TellNext(z, b) ==
    LET after == b + Size(z, b)
    IN  IF after + HeaderSize <= ZoneSize THEN SetPrevSize(z, after, Size(z, b)) ELSE z

CoalesceForward(z, b) ==
    LET next == b + Size(z, b)
    IN  IF /\ b \in Addr
           /\ next + HeaderSize <= ZoneSize
           /\ "FREE" \in Flags(z, next)
           /\ Size(z, next) \in 1 .. ZoneSize - next
        THEN LET removed == FreelistRemove(z, next)
             IN  TellNext(SetSize(removed, b, Size(z, b) + Size(z, next)), b)
        ELSE z

MergesBackward(z, b) ==
    LET prev == b - PrevSize(z, b)
    IN  /\ b \in Addr
        /\ PrevSize(z, b) \in 1 .. b
        /\ "FREE" \in Flags(z, prev)
        /\ Size(z, prev) = PrevSize(z, b)

\* The block that b is part of afterwards, and the zone.
Start(z, b) == IF MergesBackward(z, b) THEN b - PrevSize(z, b) ELSE b
CoalesceBackward(z, b) ==
    IF MergesBackward(z, b)
    THEN LET prev == Start(z, b)
             removed == FreelistRemove(z, prev)
         IN  TellNext(SetSize(removed, prev, Size(z, prev) + Size(z, b)), prev)
    ELSE z

-----------------------------------------------------------------------------
(* Searching, splitting, and the largest block.                             *)

\* One class of find_fit: its loop ends at a node with bad links (the class is
\* dropped), at an invalid block (which is unlinked; the continue leads to the
\* loop's condition, which is false), at a block that fits, or at its start.
SearchClass(z, c, need) ==
    LET at == RingFrom(z, z.freelists[c])
        i == WalkEnd(at, LAMBDA n : BadLinks(z, n) \/ ~ValidateBlock(z, n) \/ Size(z, n) >= need)
        n == at[i]
    IN  IF z.freelists[c] = Null \/ CameBack(at, i) THEN [zone |-> z, found |-> Null]
        ELSE IF BadLinks(z, n) THEN [zone |-> [z EXCEPT !.freelists[c] = Null], found |-> Null]
        ELSE IF ~ValidateBlock(z, n) THEN [zone |-> FreelistUnlinkNode(z, c, n), found |-> Null]
        ELSE IF Size(z, n) >= need THEN [zone |-> z, found |-> n]
        ELSE [zone |-> [z EXCEPT !.freelists[c] = Null], found |-> Null]

\* find_fit: from the class of the need upwards, until a class has a block.
FindFit(z, need) ==
    LET search[c \in -1 .. Len(ClassLimits)] ==
            IF c < SizeClass(need) THEN [zone |-> z, found |-> Null]
            ELSE IF search[c - 1].found # Null THEN search[c - 1]
            ELSE SearchClass(search[c - 1].zone, c, need)
    IN  search[Len(ClassLimits)]

SplitBlock(z, b, need) ==
    LET remain == Size(z, b) - need
        tail == b + need
        removed == FreelistRemove(z, b)
        tailed == TellNext(FreeHeader(removed, tail, remain, need), tail)
    IN  IF ~ValidateBlock(z, b) THEN z
        ELSE IF remain >= MinBlockSize
        THEN FreelistInsert(SetFlags(SetSize(tailed, b, need), b, {}), tail)
        ELSE SetFlags(removed, b, {})

\* MaxMem drops a class whose ring it cannot walk, and counts what it saw of it.
MaxMemEnd(z, c) == LET at == RingFrom(z, z.freelists[c]) IN WalkEnd(at, LAMBDA n : BadLinks(z, n))
\* Mutant of SeenByMaxMem: the last class is left out.
SeenButLastClass(z) == UNION {LET at == RingFrom(z, z.freelists[c])
                              IN  {at[i] : i \in 0 .. MaxMemEnd(z, c) - 1} :
                                c \in {x \in Classes \ {Len(ClassLimits)} : z.freelists[x] # Null}}

SeenByMaxMem(z) == UNION {LET at == RingFrom(z, z.freelists[c])
                          IN  {at[i] : i \in 0 .. MaxMemEnd(z, c) - 1} :
                            c \in {x \in Classes : z.freelists[x] # Null}}

MaxMem(z) ==
    LET largest == Max({0} \cup {Size(z, n) : n \in SeenByMaxMem(z)})
    IN  IF largest > HeaderSize THEN largest - HeaderSize ELSE 0
AfterMaxMem(z) == [z EXCEPT !.freelists = [c \in Classes |->
    IF z.freelists[c] # Null /\ ~CameBack(RingFrom(z, z.freelists[c]), MaxMemEnd(z, c))
    THEN Null ELSE z.freelists[c]]]

=============================================================================
