--------------------------- MODULE MemoryManager ---------------------------
(***************************************************************************)
(* The Memory Manager (MemoryManager.c) and its clients.  HeapZone has the *)
(* zone; here are the calls: NewPtr, DisposePtr, NewHandle, DisposeHandle, *)
(* HLock, HUnlock, HPurge, HNoPurge and SetHandleSize, and the two walks   *)
(* of the heap, PurgeMem and CompactMem, that a request which finds no     *)
(* block starts.  A walk takes a step per block, so that a heap it has     *)
(* damaged is walked as the code walks it; nothing else runs meanwhile.    *)
(*                                                                         *)
(* Clients dispose of what they were given, once, balance their locks, and *)
(* leave the zeros of their data as they are: a word of data that is not 0 *)
(* has been written by the Memory Manager.                                 *)
(***************************************************************************)
EXTENDS HeapZone

CONSTANTS
    PtrSizes,     \* byteCounts clients pass to NewPtr, in units of ALIGN
    HandleSizes,  \* byteCounts they pass to NewHandle
    Resizes,      \* byteCounts they pass to SetHandleSize
    Discardable,  \* the handles they make purgeable
    Slack,        \* SetHandleSize keeps a block with less than this to spare (64)
    MaxLocks,     \* bound: locks a client puts on a handle
    MaxHolders,   \* bound: clients that hold one handle
    CallsAfter    \* bound: calls after a compaction has disturbed the heap

ASSUME MemoryAssumption ==
    /\ PtrSizes \subseteq Nat /\ HandleSizes \subseteq Nat /\ Resizes \subseteq Nat
    /\ Discardable \subseteq Masters
    /\ Slack \in Nat /\ MaxLocks \in Nat /\ MaxHolders \in Nat /\ CallsAfter \in Nat

VARIABLES
    zone,         \* gAppZone: its memory, lists, master pointers and counters
    pc,           \* idle, or the walk that runs: purge or compact
    walk,         \* its locals: scan, dest, last_block_size; and how many turns it has made
    request       \* the call that started it

VARIABLES
    ptrs,         \* the Ptrs clients hold: address and size of each
    holders,      \* how many clients hold each handle
    stored,       \* how much data they keep in each
    locks         \* how many of their HLocks are not undone

VARIABLES
    purged,       \* history: handles purged while a client held them
    disturbed,    \* history: compaction moved or listed again what was listed, or
                  \* SetHandleSize went on with a block that was no longer its handle's
    callsLeft     \* of CallsAfter

walkVars == <<pc, walk, request>>
clientVars == <<ptrs, holders, stored, locks>>
vars == <<zone, walkVars, clientVars, purged, disturbed, callsLeft>>

NoWalk == [scan |-> 0, dest |-> 0, last |-> 0, turns |-> 0]
NoRequest == [op |-> "none", size |-> 0, need |-> 0, mp |-> Null,
              h |-> Null, old |-> Null, oldSize |-> 0]

\* A damaged heap can make list heads and blocks of handles of any address.
TypeOK ==
    /\ zone.mem \in [Addr -> [lo : Word, hi : Word]]
    /\ zone.freelists \in [Classes -> Addr \cup {Null, Wild}]
    /\ zone.mpBase \in [Masters -> Nat \cup {Null, Reserved}]
    /\ zone.bytesUsed + zone.bytesFree = ZoneSize
    /\ pc \in {"idle", "purge", "compact"}
    /\ walk \in [scan : Nat, dest : Nat, last : Nat, turns : Nat]
    /\ (pc = "idle") = (request = NoRequest)
    /\ \A p \in ptrs : p.at \in Addr /\ p.size \in PtrSizes
    /\ holders \in [Masters -> 0 .. MaxHolders]
    /\ stored \in [Masters -> HandleSizes \cup Resizes \cup {0}]
    /\ locks \in [Masters -> 0 .. MaxLocks]
    /\ purged \subseteq Masters
    /\ disturbed \in BOOLEAN
    /\ callsLeft \in 0 .. CallsAfter

-----------------------------------------------------------------------------
(* Handing out and taking back a block.                                     *)

\* Mutant of Account: one counter is forgotten.
AccountUsed(z, n) == [z EXCEPT !.bytesUsed = @ + n]
Account(z, n) == [z EXCEPT !.bytesUsed = @ + n, !.bytesFree = @ - n]

\* NewPtr with a block that fits: the canary is behind the data, what the block
\* has beyond both is filled, and lockCount says how long the canary is.
PtrPlaced(z, b, need, n) ==
    LET split == SplitBlock(z, b, need)
        size == Size(split, b)
        marked == SetMaster(SetFlags(split, b, Flags(split, b) \cup {"PTR"}), b, Null)
    IN  Fill(Fill(SetLockCount(Account(marked, size), b, CanarySize),
                  b + HeaderSize + n, size - HeaderSize - n, Canary),
             b + HeaderSize, n, Data(Null))

\* NewHandle with a block that fits and the master pointer mp.
HandlePlaced(z, b, need, n, mp) ==
    LET split == SplitBlock(z, b, need)
        marked == SetMaster(SetFlags(split, b, Flags(split, b) \cup {"HANDLE"}), b, mp)
    IN  Fill([Account(marked, Size(split, b)) EXCEPT !.mpBase[mp] = b], b + HeaderSize, n, Data(mp))

\* Coalesces the block with its neighbours and lists it.
Listed(z, b) ==
    LET forward == CoalesceForward(z, b)
        backward == CoalesceBackward(forward, b)
    IN  FreelistInsert(backward, Start(forward, b))

ReleasedPtr(z, b) ==
    LET freed == Account(SetFlags(z, b, Flags(z, b) \ {"PTR"}), 0 - Size(z, b))
        forward == CoalesceForward(freed, b)
        merged == CoalesceBackward(forward, b)
        at == Start(forward, b)
        listed == FreelistInsert(merged, at)
    IN  IF ~ValidateFreelist(z) THEN DropAll(z)
        ELSE IF ~ValidateBlock(z, b) THEN z
        ELSE IF ~ValidateBlock(forward, b) THEN forward
        ELSE IF ~ValidateBlock(merged, at) THEN merged
        ELSE IF ~ValidateFreelist(merged) THEN DropAll(merged)
        ELSE IF ~ValidateFreelist(listed) THEN DropAll(listed)
        ELSE listed

Unowned(z, b) == SetMaster(SetLockCount(
    SetFlags(z, b, Flags(z, b) \ {"HANDLE", "LOCKED", "PURGEABLE"}), b, 0), b, Null)

ReleasedHandle(z, h) ==
    LET b == z.mpBase[h]
        freed == Account(Unowned([z EXCEPT !.mpBase[h] = Null], b), 0 - Size(z, b))
        forward == CoalesceForward(freed, b)
        merged == CoalesceBackward(forward, b)
        at == Start(forward, b)
        listed == FreelistInsert(merged, at)
    IN  IF b \notin Addr THEN z
        ELSE IF ~ValidateFreelist(z) THEN DropAll(z)
        ELSE IF ~ValidateBlock(z, b) THEN z
        ELSE IF ~ValidateBlock(merged, at) THEN merged
        ELSE IF ~ValidateFreelist(listed) THEN DropAll(listed)
        ELSE listed

Least(m, n) == IF m < n THEN m ELSE n

\* Mutant of Resized: the master pointer that is freed is the handle's own.
ResizedFreesOwner(z, h, old, size, n, mp) ==
    LET new == z.mpBase[mp]
        taken == SetMaster([z EXCEPT !.mpBase[h] = new], new, h)
    IN  [Listed(Account(Unowned(taken, old), 0 - Size(taken, old)), old) EXCEPT !.mpBase[h] = Null]

\* SetHandleSize once NewHandle has answered with the master pointer mp: old is the
\* block that h had before the call, and size what it held.
Resized(z, h, old, size, n, mp) ==
    LET new == z.mpBase[mp]
        count == Least(size, n)
        copied == IF z.mpBase[h] \in Addr
                  THEN Copied(z, new + HeaderSize, z.mpBase[h] + HeaderSize, count)
                  ELSE Fill(z, new + HeaderSize, count, Canary)
        master == MasterPtr(copied, old)
        pointed == IF master \in Masters THEN [copied EXCEPT !.mpBase[master] = new] ELSE copied
        taken == SetMaster(SetFlags(pointed, new, Flags(pointed, old)), new, master)
        freed == Account(Unowned(taken, old), 0 - Size(taken, old))
    IN  [Listed(freed, old) EXCEPT !.mpBase[mp] = Null]

\* MP_Alloc: the first master pointer that is NULL.
FreeMasters == {i \in Masters : zone.mpBase[i] = Null}
FirstMaster == Min(FreeMasters)

-----------------------------------------------------------------------------
(* Calls.                                                                   *)

\* A client may call when no call is under way; a disturbed heap is followed for
\* CallsAfter more calls.
MayCall ==
    /\ pc = "idle"
    /\ disturbed => callsLeft > 0
    /\ callsLeft' = IF disturbed THEN callsLeft - 1 ELSE callsLeft

\* find_fit found nothing: CompactMem begins, with PurgeMem.
StartWalk(z, r) ==
    /\ zone' = z
    /\ pc' = "purge" /\ walk' = NoWalk /\ request' = r
    /\ UNCHANGED <<clientVars, purged, disturbed>>

NewPtr(n) ==
    LET need == n + HeaderSize + 1
        fit == FindFit(zone, need)
    IN  /\ MayCall
        /\ \/ /\ fit.found # Null
              /\ zone' = PtrPlaced(fit.zone, fit.found, need, n)
              /\ ptrs' = ptrs \cup {[at |-> fit.found, size |-> n]}
              /\ UNCHANGED <<walkVars, holders, stored, locks, purged, disturbed>>
           \/ /\ fit.found = Null
              /\ StartWalk(fit.zone, [NoRequest EXCEPT !.op = "ptr", !.size = n, !.need = need])

DisposePtr(p) ==
    /\ MayCall
    /\ p \in ptrs
    /\ zone' = ReleasedPtr(zone, p.at)
    /\ ptrs' = ptrs \ {p}
    /\ UNCHANGED <<walkVars, holders, stored, locks, purged, disturbed>>

HandleNeed(n) == IF n + HeaderSize < MinBlockSize THEN MinBlockSize ELSE n + HeaderSize

\* A handle is handed to one more client.
GivenTo(i, n) ==
    /\ holders' = [holders EXCEPT ![i] = @ + 1]
    /\ stored' = [stored EXCEPT ![i] = n]
    /\ locks' = [locks EXCEPT ![i] = 0]

NewHandle(n) ==
    LET need == HandleNeed(n)
        fit == FindFit(zone, need)
        mp == FirstMaster
    IN  /\ MayCall
        /\ FreeMasters # {}
        /\ holders[mp] < MaxHolders
        /\ \/ /\ fit.found # Null
              /\ zone' = HandlePlaced(fit.zone, fit.found, need, n, mp)
              /\ GivenTo(mp, n)
              /\ UNCHANGED <<walkVars, ptrs, purged, disturbed>>
           \/ /\ fit.found = Null
              /\ StartWalk([fit.zone EXCEPT !.mpBase[mp] = Reserved],
                     [NoRequest EXCEPT !.op = "handle", !.size = n, !.need = need, !.mp = mp])

DisposeHandle(h) ==
    /\ MayCall
    /\ holders[h] > 0
    /\ zone' = ReleasedHandle(zone, h)
    /\ holders' = [holders EXCEPT ![h] = @ - 1]
    /\ stored' = [stored EXCEPT ![h] = IF holders[h] = 1 THEN 0 ELSE @]
    /\ locks' = [locks EXCEPT ![h] = 0]
    /\ purged' = IF holders[h] = 1 THEN purged \ {h} ELSE purged
    /\ UNCHANGED <<walkVars, ptrs, disturbed>>

LockedBy(z, b) == SetFlags(SetLockCount(z, b, LockCount(z, b) + 1), b, Flags(z, b) \cup {"LOCKED"})
UnlockedBy(z, b) ==
    LET k == IF LockCount(z, b) > 0 THEN LockCount(z, b) - 1 ELSE 0
    IN  SetFlags(SetLockCount(z, b, k), b, Flags(z, b) \ (IF k = 0 THEN {"LOCKED"} ELSE {}))

\* HLock, HUnlock, HPurge and HNoPurge of a handle that is NULL do nothing.
HLock(h) ==
    /\ MayCall
    /\ holders[h] > 0 /\ zone.mpBase[h] \in Addr
    /\ locks[h] < MaxLocks
    /\ zone' = LockedBy(zone, zone.mpBase[h])
    /\ locks' = [locks EXCEPT ![h] = @ + 1]
    /\ UNCHANGED <<walkVars, ptrs, holders, stored, purged, disturbed>>

HUnlock(h) ==
    /\ MayCall
    /\ holders[h] > 0 /\ zone.mpBase[h] \in Addr
    /\ locks[h] > 0
    /\ zone' = UnlockedBy(zone, zone.mpBase[h])
    /\ locks' = [locks EXCEPT ![h] = @ - 1]
    /\ UNCHANGED <<walkVars, ptrs, holders, stored, purged, disturbed>>

HPurge(h) ==
    LET b == zone.mpBase[h] IN
    /\ MayCall
    /\ h \in Discardable
    /\ holders[h] > 0 /\ b \in Addr
    /\ zone' = SetFlags(zone, b, Flags(zone, b) \cup {"PURGEABLE"})
    /\ UNCHANGED <<walkVars, clientVars, purged, disturbed>>

HNoPurge(h) ==
    LET b == zone.mpBase[h] IN
    /\ MayCall
    /\ holders[h] > 0 /\ b \in Addr
    /\ zone' = SetFlags(zone, b, Flags(zone, b) \ {"PURGEABLE"})
    /\ UNCHANGED <<walkVars, clientVars, purged, disturbed>>

\* SetHandleSize needs another block: the handle is not locked, and its own does
\* not do. A locked handle keeps its block, whether or not the size fits.
NeedsBlock(b, n) ==
    LET total == n + HeaderSize IN
    /\ "LOCKED" \notin Flags(zone, b)
    /\ ~(total <= Size(zone, b) /\ Size(zone, b) - total < Slack)

SetHandleSize(h, n) ==
    LET b == zone.mpBase[h]
        size == Size(zone, b) - HeaderSize
        need == HandleNeed(n)
        fit == FindFit(zone, need)
        mp == FirstMaster
        placed == HandlePlaced(fit.zone, fit.found, need, n, mp)
    IN  /\ MayCall
        /\ holders[h] > 0 /\ b \in Addr
        /\ NeedsBlock(b, n)
        /\ FreeMasters # {}
        /\ \/ /\ fit.found # Null
              /\ zone' = Resized(placed, h, b, size, n, mp)
              /\ stored' = [stored EXCEPT ![h] = Least(@, n)]
              /\ UNCHANGED <<walkVars, ptrs, holders, locks, purged, disturbed>>
           \/ /\ fit.found = Null
              /\ StartWalk([fit.zone EXCEPT !.mpBase[mp] = Reserved],
                     [op |-> "resize", size |-> n, need |-> need, mp |-> mp, h |-> h,
                      old |-> b, oldSize |-> size])

\* The size changes in place; a client that shrinks a handle gives up its tail.
ShrinkInPlace(h, n) ==
    LET b == zone.mpBase[h] IN
    /\ MayCall
    /\ holders[h] > 0 /\ b \in Addr
    /\ n < stored[h]
    /\ ~NeedsBlock(b, n)
    /\ stored' = [stored EXCEPT ![h] = n]
    /\ UNCHANGED <<zone, walkVars, ptrs, holders, locks, purged, disturbed>>

-----------------------------------------------------------------------------
(* PurgeMem.                                                                *)

\* Mutant of BadSize: a size of 0 passes.
TooLargeSize(scan) == Size(zone, scan) > ZoneSize - scan
\* A walk goes no further at a size of 0 or one that leads past the limit.
BadSize(scan) == Size(zone, scan) = 0 \/ Size(zone, scan) > ZoneSize - scan

\* Mutant of IsPurged: the lock is not looked at.
IsPurgedThoughLocked(b) == {"HANDLE", "PURGEABLE"} \subseteq Flags(zone, b)
IsPurged(b) == {"HANDLE", "PURGEABLE"} \subseteq Flags(zone, b) /\ "LOCKED" \notin Flags(zone, b)

\* Mutant of PurgedZone: the master pointer is not cleared.
PurgedUnnoticed(b) == Listed(Account(SetFlags(zone, b, {"FREE"}), 0 - Size(zone, b)), b)

\* The block is freed, coalesced and listed; its own header keeps masterPtr.
PurgedZone(b) ==
    LET h == MasterPtr(zone, b)
        cleared == IF h \in Masters THEN [zone EXCEPT !.mpBase[h] = Null] ELSE zone
    IN  Listed(Account(SetFlags(cleared, b, {"FREE"}), 0 - Size(zone, b)), b)

PurgedStart(b) == Start(CoalesceForward(SetFlags(zone, b, {"FREE"}), b), b)

Turn(scan, dest, last) ==
    [scan |-> scan, dest |-> dest, last |-> last, turns |-> walk.turns + 1]

CompactBegins == pc' = "compact" /\ walk' = NoWalk

\* The walk goes on behind block b, which may begin before scan, if that is further.
PurgeGoesOn(z, b) ==
    IF b + Size(z, b) <= walk.scan THEN CompactBegins
    ELSE pc' = pc /\ walk' = Turn(b + Size(z, b), walk.dest, walk.last)

PurgePasses ==
    /\ pc = "purge"
    /\ walk.scan < ZoneSize /\ ~BadSize(walk.scan) /\ ~IsPurged(walk.scan)
    /\ PurgeGoesOn(zone, walk.scan)
    /\ UNCHANGED <<zone, request, clientVars, purged, disturbed, callsLeft>>

PurgeFrees ==
    LET b == walk.scan
        freed == PurgedZone(b)
    IN  /\ pc = "purge"
        /\ b < ZoneSize /\ ~BadSize(b) /\ IsPurged(b)
        /\ zone' = AfterMaxMem(freed)
        /\ purged' = purged \cup {h \in {MasterPtr(zone, b)} : h \in Masters /\ holders[h] > 0}
        /\ locks' = [h \in Masters |-> IF h = MasterPtr(zone, b) THEN 0 ELSE locks[h]]
        /\ IF MaxMem(freed) >= request.need THEN CompactBegins
           ELSE PurgeGoesOn(freed, PurgedStart(b))
        /\ UNCHANGED <<request, ptrs, holders, stored, disturbed, callsLeft>>

PurgeEnds ==
    /\ pc = "purge"
    /\ walk.scan >= ZoneSize \/ BadSize(walk.scan)
    /\ CompactBegins
    /\ UNCHANGED <<zone, request, clientVars, purged, disturbed, callsLeft>>

-----------------------------------------------------------------------------
(* CompactMem.                                                              *)

CanMove(b) == "HANDLE" \in Flags(zone, b) /\ "LOCKED" \notin Flags(zone, b)

\* A free block is made at b and listed, where it may be listed already.
FreeBlockMade(z, b, size) ==
    FreelistInsert(FreeHeader(z, b, size, IF b > 0 THEN walk.last ELSE 0), b)

\* That is harmless when it is the only block of its class.
ListedWithOthers(z, b, size) ==
    LET head == z.freelists[SizeClass(size)] IN head # b \/ NextNode(z, b) # b

MovedTo(z, to, from) ==
    LET copied == Copied(z, to, from, Size(z, from))
        h == MasterPtr(copied, to)
        pointed == IF h \in Masters /\ copied.mpBase[h] # Null
                   THEN [copied EXCEPT !.mpBase[h] = to] ELSE copied
    IN  TellNext(pointed, to)

CompactAt(flagged) ==
    /\ pc = "compact"
    /\ walk.scan < ZoneSize /\ ~BadSize(walk.scan)
    /\ ("FREE" \in Flags(zone, walk.scan)) = flagged

CompactPasses ==
    /\ CompactAt(TRUE)
    /\ walk' = Turn(walk.scan + Size(zone, walk.scan), walk.dest, walk.last)
    /\ UNCHANGED <<zone, pc, request, clientVars, purged, disturbed, callsLeft>>

\* The size of the block is read where it was, after it has been copied.
CompactMoves ==
    LET moved == MovedTo(zone, walk.dest, walk.scan)
        size == Size(moved, walk.dest)
    IN  /\ CompactAt(FALSE)
        /\ CanMove(walk.scan) /\ walk.scan # walk.dest
        /\ zone' = moved
        /\ walk' = Turn(walk.scan + Size(moved, walk.scan), walk.dest + size, size)
        /\ disturbed' = TRUE
        /\ UNCHANGED <<pc, request, clientVars, purged, callsLeft>>

CompactLeaves ==
    LET scan == walk.scan
        gap == scan - walk.dest
        made == SetPrevSize(FreeBlockMade(zone, walk.dest, gap), scan, gap)
        after == IF gap >= MinBlockSize THEN made ELSE zone
        end == scan + Size(after, scan)
    IN  /\ CompactAt(FALSE)
        /\ ~CanMove(scan) \/ scan = walk.dest
        /\ zone' = after
        /\ walk' = Turn(end, end, Size(after, scan))
        /\ disturbed' = (disturbed \/ (gap >= MinBlockSize /\ ListedWithOthers(zone, walk.dest, gap)))
        /\ UNCHANGED <<pc, request, clientVars, purged, callsLeft>>

\* The rest of the zone becomes a free block, up to where the walk has come.
TailZone ==
    LET limit == IF walk.scan < ZoneSize THEN walk.scan ELSE ZoneSize
        size == limit - walk.dest
    IN  IF size >= MinBlockSize THEN FreeBlockMade(zone, walk.dest, size) ELSE zone
TailDisturbs ==
    LET limit == IF walk.scan < ZoneSize THEN walk.scan ELSE ZoneSize
        size == limit - walk.dest
    IN  size >= MinBlockSize /\ ListedWithOthers(zone, walk.dest, size)

\* The call that started the walk goes on with block b of zone z.
Granted(z, b) ==
    LET r == request
        placed == HandlePlaced(z, b, r.need, r.size, r.mp)
    IN  \/ /\ r.op = "ptr"
           /\ zone' = PtrPlaced(z, b, r.need, r.size)
           /\ ptrs' = ptrs \cup {[at |-> b, size |-> r.size]}
           /\ UNCHANGED <<holders, stored, locks>>
        \/ /\ r.op = "handle"
           /\ zone' = placed
           /\ GivenTo(r.mp, r.size)
           /\ UNCHANGED ptrs
        \/ /\ r.op = "resize"
           /\ zone' = Resized(placed, r.h, r.old, r.oldSize, r.size, r.mp)
           /\ stored' = [stored EXCEPT ![r.h] = Least(@, r.size)]
           /\ UNCHANGED <<ptrs, holders, locks>>

Refused(z) ==
    /\ zone' = IF request.mp \in Masters THEN [z EXCEPT !.mpBase[request.mp] = Null] ELSE z
    /\ UNCHANGED clientVars

CompactEnds ==
    LET tailed == TailZone
        seen == AfterMaxMem(tailed)
        fit == FindFit(seen, request.need)
        tooSmall == MaxMem(tailed) < request.need
        lostBlock == request.op = "resize" /\ zone.mpBase[request.h] # request.old
    IN  /\ pc = "compact"
        /\ walk.scan >= ZoneSize \/ BadSize(walk.scan)
        /\ IF tooSmall \/ fit.found = Null THEN Refused(IF tooSmall THEN seen ELSE fit.zone)
           ELSE Granted(fit.zone, fit.found)
        /\ pc' = "idle" /\ walk' = NoWalk /\ request' = NoRequest
        /\ disturbed' = (disturbed \/ TailDisturbs \/ lostBlock)
        /\ UNCHANGED <<purged, callsLeft>>

-----------------------------------------------------------------------------
Walk == PurgePasses \/ PurgeFrees \/ PurgeEnds
        \/ CompactPasses \/ CompactMoves \/ CompactLeaves \/ CompactEnds

Clients ==
    \/ \E n \in PtrSizes : NewPtr(n)
    \/ \E p \in ptrs : DisposePtr(p)
    \/ \E n \in HandleSizes : NewHandle(n)
    \/ \E h \in Masters :
          \/ DisposeHandle(h) \/ HLock(h) \/ HUnlock(h) \/ HPurge(h) \/ HNoPurge(h)
          \/ \E n \in Resizes : SetHandleSize(h, n) \/ ShrinkInPlace(h, n)

\* InitZone: one free block.
InitZone ==
    LET empty == [mem |-> [a \in Addr |-> [lo |-> Zero, hi |-> Zero]],
                  freelists |-> [c \in Classes |-> Null],
                  mpBase |-> [i \in Masters |-> Null],
                  bytesUsed |-> 0, bytesFree |-> ZoneSize]
    IN  FreelistInsert(FreeHeader(empty, 0, ZoneSize, 0), 0)

Init ==
    /\ zone = InitZone
    /\ pc = "idle" /\ walk = NoWalk /\ request = NoRequest
    /\ ptrs = {} /\ holders = [h \in Masters |-> 0]
    /\ stored = [h \in Masters |-> 0] /\ locks = [h \in Masters |-> 0]
    /\ purged = {} /\ disturbed = FALSE /\ callsLeft = CallsAfter

Next == Clients \/ Walk

Spec == Init /\ [][Next]_vars

-----------------------------------------------------------------------------
(* Properties of the heap between calls, while nothing has disturbed it.     *)

Blocks ==
    LET at[i \in 0 .. WalkLimit] == IF i = 0 THEN 0 ELSE at[i - 1] + Size(zone, at[i - 1])
    IN  {at[i] : i \in 0 .. WalkLimit} \cap Addr
IsFree(b) == "FREE" \in Flags(zone, b)
FreeBlocks == {b \in Blocks : IsFree(b)}
Calm == pc = "idle" /\ ~disturbed

\* The sizes tile the zone, every block but the first knows the size of the one
\* before it, no two free blocks are neighbours, and bytesUsed counts the units of the
\* blocks that are not free.
ZoneIsTiled == Calm =>
    /\ \A b \in Blocks :
          /\ ValidateBlock(zone, b)
          /\ LET next == b + Size(zone, b) IN
             next < ZoneSize => PrevSize(zone, next) = Size(zone, b) /\ ~(IsFree(b) /\ IsFree(next))
    /\ zone.bytesUsed =
          Cardinality(UNION {b .. b + Size(zone, b) - 1 : b \in Blocks \ FreeBlocks})

\* Every free block is on the list of its class and nothing else is on a list.
Ring(c) == IF zone.freelists[c] = Null THEN {}
           ELSE {RingFrom(zone, zone.freelists[c])[i] : i \in 0 .. WalkLimit}
ListsAreExact == Calm =>
    /\ ValidateFreelist(zone)
    /\ \A c \in Classes : Ring(c) = {b \in FreeBlocks : SizeClass(Size(zone, b)) = c}

\* The blocks in use are those that clients hold, each by its owner alone, and a
\* handle's block points back at its master pointer.
PtrBlocks == {p.at : p \in ptrs}
HandleBlocks == {zone.mpBase[h] : h \in {i \in Masters : holders[i] > 0}} \ {Null}
EachBlockHasItsOwner == Calm =>
    /\ Blocks \ FreeBlocks = PtrBlocks \cup HandleBlocks
    /\ PtrBlocks \cap HandleBlocks = {}
    /\ \A h \in Masters : zone.mpBase[h] # Null =>
          /\ holders[h] > 0
          /\ MasterPtr(zone, zone.mpBase[h]) = h
          /\ Flags(zone, zone.mpBase[h]) \cap {"FREE", "PTR", "HANDLE"} = {"HANDLE"}

\* What clients wrote into their blocks, here zeros, is still there.
Holds(b, n, w) == \A a \in b .. b + n - 1 : Cell(zone, a) = [lo |-> w, hi |-> w]
DataIsIntact ==
    /\ \A p \in ptrs : Holds(p.at + HeaderSize, p.size, Data(Null))
    /\ \A h \in Masters : holders[h] > 0 /\ zone.mpBase[h] \in Addr =>
          Holds(zone.mpBase[h] + HeaderSize, stored[h], Data(h))
CalmDataIsIntact == Calm => DataIsIntact

\* A handle belongs to two clients only if it was purged while the first held it.
OneHolder == \A h \in Masters : holders[h] > 1 => h \in purged

\* A step moves or purges no handle that a client has locked, unless disposing of it.
LockedHandleStays == [][\A h \in Masters :
    locks[h] > 0 /\ ~disturbed /\ zone'.mpBase[h] # zone.mpBase[h] => holders'[h] < holders[h]]_vars

\* A request is refused only if, after purging and compacting, no free block has
\* what it needs and a header to spare.
RefusalIsHonest == [][
    pc = "compact" /\ pc' = "idle" /\ ~disturbed' /\ ptrs' = ptrs /\ holders' = holders
        /\ (request.op = "resize" => zone'.mpBase[request.h] = zone.mpBase[request.h]) =>
    \A b \in FreeBlocks' : Size(zone', b) < request.need + HeaderSize]_vars

\* No walk turns for ever, on a damaged heap either: each turn gets at least a unit
\* further, up to the end, or is the last.
WalkEnds == walk.turns <= ZoneSize + 1

=============================================================================
