------------------------ MODULE MemoryManagerProofs ------------------------
(***************************************************************************)
(* What the Memory Manager keeps whatever its clients and its two walks do *)
(* to the heap, a heap that compaction has damaged included; and, until    *)
(* compaction disturbs a list, that the heap is sound and each block with  *)
(* its data is held by its owner alone.                                    *)
(***************************************************************************)
EXTENDS MemoryManager, HeapZoneProofs

-----------------------------------------------------------------------------
(* Handing out, taking back, moving.                                        *)

LEMMA ListedType ==
    ASSUME NEW z \in Zones, NEW b
    PROVE  Listed(z, b) \in Rewrites(z)
<1> DEFINE forward == CoalesceForward(z, b)
           backward == CoalesceBackward(forward, b)
<1>1. forward \in Rewrites(z) /\ forward \in Zones
  BY CoalesceForwardType, RewritesCompose
<1>2. backward \in Rewrites(z) /\ backward \in Zones
  BY <1>1, CoalesceBackwardType, RewritesCompose
<1> HIDE DEF forward, backward
<1>3. FreelistInsert(backward, Start(forward, b)) \in Rewrites(z)
  BY <1>2, FreelistInsertType, RewritesCompose
<1> QED
  BY <1>3 DEF Listed, backward, forward

\* What keeps the sum of the counters.
Sums(z) == {y \in Zones : y.bytesUsed + y.bytesFree = z.bytesUsed + z.bytesFree}

LEMMA AccountType ==
    ASSUME NEW z \in Zones, NEW n \in Int
    PROVE  Account(z, n) \in Sums(z) /\ Account(z, n).mpBase = z.mpBase
<1>1. z.bytesUsed \in Int /\ z.bytesFree \in Int
  BY DEF Zones
<1>2. z.bytesUsed + n \in Int /\ z.bytesFree - n \in Int
      /\ (z.bytesUsed + n) + (z.bytesFree - n) = z.bytesUsed + z.bytesFree
  BY <1>1
<1>3. /\ Account(z, n) \in Zones /\ Account(z, n).mpBase = z.mpBase
      /\ Account(z, n).bytesUsed = z.bytesUsed + n
      /\ Account(z, n).bytesFree = z.bytesFree - n
  BY <1>2 DEF Account, Zones
<1> QED
  BY <1>2, <1>3 DEF Sums

LEMMA SumsCompose ==
    ASSUME NEW z \in Zones
    PROVE  /\ z \in Sums(z)
           /\ \A y \in Sums(z) : y \in Zones /\ Sums(y) \subseteq Sums(z)
           /\ \A y \in Rewrites(z) : y \in Sums(z) /\ y.mpBase = z.mpBase
BY DEF Rewrites, Sums

LEMMA PointedType ==
    ASSUME NEW z \in Zones, NEW i, NEW x \in Nat \cup {Null, Reserved}
    PROVE  /\ [z EXCEPT !.mpBase[i] = x] \in Sums(z)
           /\ [z EXCEPT !.mpBase[i] = x].mpBase = [z.mpBase EXCEPT ![i] = x]
BY DEF Zones, Sums

LEMMA PtrPlacedType ==
    ASSUME NEW z \in Zones, NEW b \in Nat, NEW need \in Nat, NEW n \in Nat
    PROVE  PtrPlaced(z, b, need, n) \in Sums(z) /\ PtrPlaced(z, b, need, n).mpBase = z.mpBase
<1> DEFINE split == SplitBlock(z, b, need)
           size == Size(split, b)
           flagged == SetFlags(split, b, Flags(split, b) \cup {"PTR"})
           marked == SetMaster(flagged, b, Null)
           counted == Account(marked, size)
           canaried == SetLockCount(counted, b, CanarySize)
           framed == Fill(canaried, b + HeaderSize + n, size - HeaderSize - n, Canary)
           filled == Fill(framed, b + HeaderSize, n, Data(Null))
<1>1. split \in Sums(z) /\ split.mpBase = z.mpBase /\ split \in Zones
  BY SplitBlockType, SumsCompose
<1> HIDE DEF split
<1>2. size \in Nat /\ Flags(split, b) \cup {"PTR"} \in SUBSET FlagNames
  BY <1>1, Reads DEF FlagNames
<1> HIDE DEF size
<1>3. flagged \in Sums(z) /\ flagged.mpBase = z.mpBase /\ flagged \in Zones
  BY <1>1, <1>2, SetType, SumsCompose
<1> HIDE DEF flagged
<1>4. marked \in Sums(z) /\ marked.mpBase = z.mpBase /\ marked \in Zones
  BY <1>3, SetType, SumsCompose
<1> HIDE DEF marked
<1>5. counted \in Sums(z) /\ counted.mpBase = z.mpBase /\ counted \in Zones
  BY <1>2, <1>4, AccountType, SumsCompose
<1> HIDE DEF counted
<1>6. canaried \in Sums(z) /\ canaried.mpBase = z.mpBase /\ canaried \in Zones
  <2>1. CanarySize \in Nat
    BY DEF CanarySize
  <2> QED
    BY <1>5, <2>1, SetType, SumsCompose
<1> HIDE DEF canaried
<1>7. framed \in Sums(z) /\ framed.mpBase = z.mpBase /\ framed \in Zones
  BY <1>6, FillType, SumsCompose, WordKinds
<1> HIDE DEF framed
<1>8. filled \in Sums(z) /\ filled.mpBase = z.mpBase
  BY <1>7, FillType, SumsCompose, WordKinds
<1> QED
  BY <1>8 DEF PtrPlaced, filled, framed, canaried, counted, marked, flagged, size, split

LEMMA HandlePlacedType ==
    ASSUME NEW z \in Zones, NEW b \in Nat, NEW need \in Nat, NEW n \in Nat, NEW mp \in Masters
    PROVE  /\ HandlePlaced(z, b, need, n, mp) \in Sums(z)
           /\ \A i \in Masters : HandlePlaced(z, b, need, n, mp).mpBase[i]
                                = IF i = mp THEN b ELSE z.mpBase[i]
<1> DEFINE split == SplitBlock(z, b, need)
           size == Size(split, b)
           flagged == SetFlags(split, b, Flags(split, b) \cup {"HANDLE"})
           marked == SetMaster(flagged, b, mp)
           counted == Account(marked, size)
           pointed == [counted EXCEPT !.mpBase[mp] = b]
           filled == Fill(pointed, b + HeaderSize, n, Data(mp))
<1>1. split \in Sums(z) /\ split.mpBase = z.mpBase /\ split \in Zones
  BY SplitBlockType, SumsCompose
<1> HIDE DEF split
<1>2. size \in Nat /\ Flags(split, b) \cup {"HANDLE"} \in SUBSET FlagNames
  BY <1>1, Reads DEF FlagNames
<1> HIDE DEF size
<1>3. flagged \in Sums(z) /\ flagged.mpBase = z.mpBase /\ flagged \in Zones
  BY <1>1, <1>2, SetType, SumsCompose
<1> HIDE DEF flagged
<1>4. marked \in Sums(z) /\ marked.mpBase = z.mpBase /\ marked \in Zones
  BY <1>3, SetType, SumsCompose
<1> HIDE DEF marked
<1>5. counted \in Sums(z) /\ counted.mpBase = z.mpBase /\ counted \in Zones
  BY <1>2, <1>4, AccountType, SumsCompose
<1> HIDE DEF counted
<1>6. pointed \in Sums(z) /\ pointed.mpBase = [z.mpBase EXCEPT ![mp] = b] /\ pointed \in Zones
  <2>1. pointed \in Sums(counted) /\ pointed.mpBase = [counted.mpBase EXCEPT ![mp] = b]
    BY <1>5, PointedType
  <2> HIDE DEF pointed
  <2>2. counted.mpBase = z.mpBase
    BY <1>5
  <2> QED
    BY <1>5, <2>1, <2>2, SumsCompose
<1> HIDE DEF pointed
<1>7. filled \in Sums(z) /\ filled.mpBase = pointed.mpBase
  BY <1>6, FillType, SumsCompose, WordKinds
<1>8. \A i \in Masters : pointed.mpBase[i] = IF i = mp THEN b ELSE z.mpBase[i]
  BY <1>6 DEF Zones
<1>9. \A i \in Masters : filled.mpBase[i] = IF i = mp THEN b ELSE z.mpBase[i]
  BY <1>7, <1>8
<1> QED
  BY <1>7, <1>9 DEF HandlePlaced, filled, pointed, counted, marked, flagged, size, split

LEMMA ReleasedPtrType ==
    ASSUME NEW z \in Zones, NEW b
    PROVE  ReleasedPtr(z, b) \in Sums(z) /\ ReleasedPtr(z, b).mpBase = z.mpBase
<1> DEFINE flagged == SetFlags(z, b, Flags(z, b) \ {"PTR"})
           freed == Account(flagged, 0 - Size(z, b))
           forward == CoalesceForward(freed, b)
           merged == CoalesceBackward(forward, b)
           at == Start(forward, b)
           listed == FreelistInsert(merged, at)
           Fine(y) == y \in Sums(z) /\ y.mpBase = z.mpBase
<1>1. flagged \in Sums(z) /\ flagged.mpBase = z.mpBase /\ flagged \in Zones
  BY Reads, SetType, SumsCompose
<1>2. 0 - Size(z, b) \in Int
  BY Reads
<1> HIDE DEF flagged
<1>3. freed \in Sums(z) /\ freed.mpBase = z.mpBase /\ freed \in Zones
  BY <1>1, <1>2, AccountType, SumsCompose
<1> HIDE DEF freed
<1>4. forward \in Sums(z) /\ forward.mpBase = z.mpBase /\ forward \in Zones
  BY <1>3, CoalesceForwardType, SumsCompose
<1> HIDE DEF forward
<1>5. merged \in Sums(z) /\ merged.mpBase = z.mpBase /\ merged \in Zones
  BY <1>4, CoalesceBackwardType, SumsCompose
<1> HIDE DEF merged, at
<1>6. listed \in Sums(z) /\ listed.mpBase = z.mpBase /\ listed \in Zones
  BY <1>5, FreelistInsertType, SumsCompose
<1> HIDE DEF listed
<1>7. /\ Fine(DropAll(z)) /\ Fine(z) /\ Fine(forward) /\ Fine(merged) /\ Fine(listed)
      /\ Fine(DropAll(merged)) /\ Fine(DropAll(listed))
  BY <1>4, <1>5, <1>6, DropType, SumsCompose
<1> HIDE DEF Fine
<1>8. Fine(ReleasedPtr(z, b))
  BY <1>7 DEF ReleasedPtr, listed, at, merged, forward, freed, flagged
<1> QED
  BY <1>8 DEF Fine

LEMMA UnownedType ==
    ASSUME NEW z \in Zones, NEW b
    PROVE  Unowned(z, b) \in Rewrites(z)
<1> DEFINE flagged == SetFlags(z, b, Flags(z, b) \ {"HANDLE", "LOCKED", "PURGEABLE"})
           unlocked == SetLockCount(flagged, b, 0)
<1>1. flagged \in Rewrites(z) /\ flagged \in Zones
  BY Reads, SetType, RewritesCompose
<1> HIDE DEF flagged
<1>2. unlocked \in Rewrites(z) /\ unlocked \in Zones
  BY <1>1, SetType, RewritesCompose
<1> HIDE DEF unlocked
<1>3. SetMaster(unlocked, b, Null) \in Rewrites(z)
  BY <1>2, SetType, RewritesCompose
<1> QED
  BY <1>3 DEF Unowned, unlocked, flagged

LEMMA ReleasedHandleType ==
    ASSUME NEW z \in Zones, NEW h \in Masters
    PROVE  /\ ReleasedHandle(z, h) \in Sums(z)
           /\ ReleasedHandle(z, h).mpBase \in {z.mpBase, [z.mpBase EXCEPT ![h] = Null]}
<1> DEFINE b == z.mpBase[h]
           pointed == [z EXCEPT !.mpBase[h] = Null]
           owned == Unowned(pointed, b)
           freed == Account(owned, 0 - Size(z, b))
           forward == CoalesceForward(freed, b)
           merged == CoalesceBackward(forward, b)
           at == Start(forward, b)
           listed == FreelistInsert(merged, at)
           New == [z.mpBase EXCEPT ![h] = Null]
           Fine(y) == y \in Sums(z) /\ y.mpBase \in {z.mpBase, New}
<1>1. pointed \in Sums(z) /\ pointed.mpBase = New /\ pointed \in Zones
  BY PointedType, SumsCompose
<1>2. 0 - Size(z, b) \in Int
  BY Reads
<1> HIDE DEF pointed, b
<1>3. owned \in Sums(z) /\ owned.mpBase = New /\ owned \in Zones
  BY <1>1, UnownedType, SumsCompose
<1> HIDE DEF owned
<1>4. freed \in Sums(z) /\ freed.mpBase = New /\ freed \in Zones
  BY <1>2, <1>3, AccountType, SumsCompose
<1> HIDE DEF freed
<1>5. forward \in Sums(z) /\ forward.mpBase = New /\ forward \in Zones
  BY <1>4, CoalesceForwardType, SumsCompose
<1> HIDE DEF forward
<1>6. merged \in Sums(z) /\ merged.mpBase = New /\ merged \in Zones
  BY <1>5, CoalesceBackwardType, SumsCompose
<1> HIDE DEF merged, at
<1>7. listed \in Sums(z) /\ listed.mpBase = New /\ listed \in Zones
  BY <1>6, FreelistInsertType, SumsCompose
<1> HIDE DEF listed, New
<1>8. /\ Fine(DropAll(z)) /\ Fine(z) /\ Fine(merged) /\ Fine(listed) /\ Fine(DropAll(listed))
  BY <1>6, <1>7, DropType, SumsCompose
<1> HIDE DEF Fine
<1>9. Fine(ReleasedHandle(z, h))
  BY <1>8 DEF ReleasedHandle, listed, at, merged, forward, freed, owned, pointed, b
<1> QED
  BY <1>9 DEF Fine, New

LEMMA ResizedType ==
    ASSUME NEW z \in Zones, NEW h \in Masters, NEW old, NEW size, NEW n, NEW mp \in Masters,
           z.mpBase[mp] \in Nat
    PROVE  LET y == Resized(z, h, old, size, n, mp) IN
           /\ y \in Sums(z)
           /\ y.mpBase[mp] = Null
           /\ \A i \in Masters \ {mp} : y.mpBase[i] \in {z.mpBase[i], z.mpBase[mp]}
<1> DEFINE new == z.mpBase[mp]
           count == Least(size, n)
           copied == IF z.mpBase[h] \in Addr
                     THEN Copied(z, new + HeaderSize, z.mpBase[h] + HeaderSize, count)
                     ELSE Fill(z, new + HeaderSize, count, Canary)
           master == MasterPtr(copied, old)
           pointed == IF master \in Masters THEN [copied EXCEPT !.mpBase[master] = new] ELSE copied
           flagged == SetFlags(pointed, new, Flags(pointed, old))
           taken == SetMaster(flagged, new, master)
           owned == Unowned(taken, old)
           freed == Account(owned, 0 - Size(taken, old))
           listed == Listed(freed, old)
           cleared == [listed EXCEPT !.mpBase[mp] = Null]
           Fine(y) == /\ y \in Sums(z) /\ y \in Zones
                      /\ \A i \in Masters : y.mpBase[i] \in {z.mpBase[i], new}
<1>0. new \in Nat
  OBVIOUS
<1>1. Fine(copied)
  BY CopiedType, FillType, WordKinds, SumsCompose
<1> HIDE DEF copied
<1>2. Fine(pointed)
  <2>1. CASE master \in Masters
    <3> DEFINE set == [copied EXCEPT !.mpBase[master] = new]
    <3>1. set \in Sums(copied) /\ set.mpBase = [copied.mpBase EXCEPT ![master] = new]
      BY <1>0, <1>1, PointedType
    <3>2. copied.mpBase \in [Masters -> Nat \cup {Null, Reserved}]
      BY <1>1 DEF Zones
    <3>3. pointed = set
      BY <2>1
    <3> HIDE DEF set, master, pointed
    <3>4. set \in Sums(z) /\ set \in Zones
      BY <1>1, <3>1, SumsCompose
    <3> QED
      BY <1>1, <3>1, <3>2, <3>3, <3>4
  <2>2. CASE master \notin Masters
    BY <1>1, <2>2
  <2> QED
    BY <2>1, <2>2
<1> HIDE DEF pointed, master
<1>3. Fine(flagged)
  BY <1>2, Reads, SetType, SumsCompose
<1> HIDE DEF flagged
<1>4. Fine(taken)
  BY <1>3, SetType, SumsCompose
<1> HIDE DEF taken
<1>5. Fine(owned)
  BY <1>4, UnownedType, SumsCompose
<1> HIDE DEF owned
<1>6. Fine(freed)
  <2>1. 0 - Size(taken, old) \in Int
    BY <1>4, Reads
  <2> QED
    BY <1>5, <2>1, AccountType, SumsCompose
<1> HIDE DEF freed
<1>7. Fine(listed)
  BY <1>6, ListedType, SumsCompose
<1> HIDE DEF listed
<1>8. /\ cleared \in Sums(z) /\ cleared.mpBase[mp] = Null
      /\ \A i \in Masters \ {mp} : cleared.mpBase[i] \in {z.mpBase[i], new}
  <2>1. cleared \in Sums(listed) /\ cleared.mpBase = [listed.mpBase EXCEPT ![mp] = Null]
    BY <1>7, PointedType
  <2>2. listed.mpBase \in [Masters -> Nat \cup {Null, Reserved}]
    BY <1>7 DEF Zones
  <2> HIDE DEF cleared
  <2>3. cleared \in Sums(z)
    BY <1>7, <2>1, SumsCompose
  <2> QED
    BY <1>7, <2>1, <2>2, <2>3
<1> QED
  BY <1>8 DEF Resized, cleared, listed, freed, owned, taken, flagged, pointed, master, copied

\* PurgeMem's turn clears one master pointer.
LEMMA PurgedZoneType ==
    ASSUME zone \in Zones, NEW b
    PROVE  /\ PurgedZone(b) \in Sums(zone)
           /\ \A i \in Masters :
                 PurgedZone(b).mpBase[i] = IF i = MasterPtr(zone, b) THEN Null ELSE zone.mpBase[i]
<1> DEFINE h == MasterPtr(zone, b)
           cleared == IF h \in Masters THEN [zone EXCEPT !.mpBase[h] = Null] ELSE zone
           flagged == SetFlags(cleared, b, {"FREE"})
           freed == Account(flagged, 0 - Size(zone, b))
           listed == Listed(freed, b)
           Fine(y) == /\ y \in Sums(zone) /\ y \in Zones
                      /\ \A i \in Masters : y.mpBase[i] = IF i = h THEN Null ELSE zone.mpBase[i]
<1>1. 0 - Size(zone, b) \in Int /\ {"FREE"} \in SUBSET FlagNames
  BY Reads DEF FlagNames
<1>2. Fine(cleared)
  <2>1. zone.mpBase \in [Masters -> Nat \cup {Null, Reserved}]
    BY DEF Zones
  <2>2. [zone EXCEPT !.mpBase[h] = Null] \in Sums(zone)
        /\ [zone EXCEPT !.mpBase[h] = Null].mpBase = [zone.mpBase EXCEPT ![h] = Null]
    BY PointedType
  <2> HIDE DEF h
  <2> QED
    BY <2>1, <2>2, SumsCompose
<1> HIDE DEF cleared, h
<1>3. Fine(flagged)
  BY <1>1, <1>2, SetType, SumsCompose
<1> HIDE DEF flagged
<1>4. Fine(freed)
  BY <1>1, <1>3, AccountType, SumsCompose
<1> HIDE DEF freed
<1>5. Fine(listed)
  BY <1>4, ListedType, SumsCompose
<1> QED
  BY <1>5 DEF PurgedZone, listed, freed, flagged, cleared, h

\* CompactMem's turn lets a master pointer in use point elsewhere.
LEMMA MovedToType ==
    ASSUME NEW z \in Zones, NEW to \in Nat, NEW from
    PROVE  /\ MovedTo(z, to, from) \in Sums(z)
           /\ \A i \in Masters : \/ MovedTo(z, to, from).mpBase[i] = z.mpBase[i]
                                 \/ z.mpBase[i] # Null /\ MovedTo(z, to, from).mpBase[i] = to
<1> DEFINE copied == Copied(z, to, from, Size(z, from))
           h == MasterPtr(copied, to)
           set == [copied EXCEPT !.mpBase[h] = to]
           pointed == IF h \in Masters /\ copied.mpBase[h] # Null THEN set ELSE copied
           Fine(y) == /\ y \in Sums(z) /\ y \in Zones
                      /\ \A i \in Masters : \/ y.mpBase[i] = z.mpBase[i]
                                            \/ z.mpBase[i] # Null /\ y.mpBase[i] = to
<1>1. copied \in Sums(z) /\ copied \in Zones /\ copied.mpBase = z.mpBase
  BY CopiedType, SumsCompose
<1> HIDE DEF copied, h
<1>2. Fine(pointed)
  <2>1. set \in Sums(copied) /\ set.mpBase = [copied.mpBase EXCEPT ![h] = to]
    BY <1>1, PointedType
  <2>2. z.mpBase \in [Masters -> Nat \cup {Null, Reserved}]
    BY DEF Zones
  <2> HIDE DEF set
  <2>3. set \in Sums(z) /\ set \in Zones
    BY <1>1, <2>1, SumsCompose
  <2> QED
    BY <1>1, <2>1, <2>2, <2>3
<1> HIDE DEF pointed
<1>3. Fine(TellNext(pointed, to))
  BY <1>2, TellNextType, SumsCompose
<1> QED
  BY <1>3 DEF MovedTo, pointed, set, h, copied

LEMMA FreeBlockMadeType ==
    ASSUME NEW z \in Zones, NEW b, NEW size \in Nat, walk.last \in Nat
    PROVE  FreeBlockMade(z, b, size) \in Rewrites(z)
<1> DEFINE made == FreeHeader(z, b, size, IF b > 0 THEN walk.last ELSE 0)
<1>1. made \in Rewrites(z) /\ made \in Zones
  BY FreeHeaderType, RewritesCompose
<1> HIDE DEF made
<1>2. FreelistInsert(made, b) \in Rewrites(z)
  BY <1>1, FreelistInsertType, RewritesCompose
<1> QED
  BY <1>2 DEF FreeBlockMade, made

LEMMA LocksType ==
    ASSUME NEW z \in Zones, NEW b
    PROVE  LockedBy(z, b) \in Rewrites(z) /\ UnlockedBy(z, b) \in Rewrites(z)
<1> DEFINE k == IF LockCount(z, b) > 0 THEN LockCount(z, b) - 1 ELSE 0
           more == SetLockCount(z, b, LockCount(z, b) + 1)
           less == SetLockCount(z, b, k)
<1>1. /\ LockCount(z, b) + 1 \in Nat /\ k \in Nat
      /\ Flags(z, b) \cup {"LOCKED"} \in SUBSET FlagNames
      /\ Flags(z, b) \ (IF k = 0 THEN {"LOCKED"} ELSE {}) \in SUBSET FlagNames
  BY Reads DEF FlagNames
<1> HIDE DEF k
<1>2. /\ more \in Rewrites(z) /\ more \in Zones
      /\ less \in Rewrites(z) /\ less \in Zones
  BY <1>1, SetType, RewritesCompose
<1> HIDE DEF more, less
<1>3. /\ SetFlags(more, b, Flags(z, b) \cup {"LOCKED"}) \in Rewrites(z)
      /\ SetFlags(less, b, Flags(z, b) \ (IF k = 0 THEN {"LOCKED"} ELSE {})) \in Rewrites(z)
  <2>1. SetFlags(more, b, Flags(z, b) \cup {"LOCKED"}) \in Rewrites(more)
    BY <1>1, <1>2, SetType
  <2>2. SetFlags(less, b, Flags(z, b) \ (IF k = 0 THEN {"LOCKED"} ELSE {})) \in Rewrites(less)
    BY <1>1, <1>2, SetType
  <2> QED
    BY <1>2, <2>1, <2>2, RewritesCompose
<1> QED
  BY <1>3 DEF LockedBy, UnlockedBy, more, less, k

-----------------------------------------------------------------------------
(* The invariant.                                                           *)

ZoneInv == zone \in Zones /\ zone.bytesUsed + zone.bytesFree = ZoneSize

ClientInv ==
    /\ \A p \in ptrs : p.at \in Addr /\ p.size \in PtrSizes
    /\ holders \in [Masters -> 0 .. MaxHolders]
    /\ stored \in [Masters -> HandleSizes \cup Resizes \cup {0}]
    /\ locks \in [Masters -> 0 .. MaxLocks]
    /\ purged \subseteq Masters
    /\ disturbed \in BOOLEAN
    /\ callsLeft \in 0 .. CallsAfter

\* A turn gets the walk a unit further, or it is the last: the next one would
\* find a size of 0.
WalkInv ==
    /\ pc \in {"idle", "purge", "compact"}
    /\ walk \in [scan : Nat, dest : Nat, last : Nat, turns : Nat]
    /\ pc = "idle" => walk = NoWalk
    /\ walk.turns <= ZoneSize
    /\ walk.scan < ZoneSize => walk.turns <= walk.scan \/ Size(zone, walk.scan) = 0

\* Nobody holds the master pointer mp that is NULL, unless it was purged.
Spare(mp) == mp \in Masters /\ (holders[mp] = 0 \/ mp \in purged)

RequestInv ==
    IF pc = "idle" THEN request = NoRequest
    ELSE /\ request.need \in Nat
         /\ \/ request.op = "ptr" /\ request.size \in PtrSizes /\ request.mp = Null
            \/ /\ request.op = "handle" /\ request.size \in HandleSizes
               /\ Spare(request.mp) /\ holders[request.mp] < MaxHolders
            \/ /\ request.op = "resize" /\ request.size \in Resizes
               /\ Spare(request.mp) /\ request.h \in Masters

\* A handle that somebody holds is not free to be given to another, unless it
\* was purged.
HolderInv ==
    \A h \in Masters :
        /\ holders[h] > 1 => h \in purged
        /\ holders[h] > 0 /\ h \notin purged => zone.mpBase[h] # Null

MemoryInv == ZoneInv /\ ClientInv /\ WalkInv /\ RequestInv /\ HolderInv

LEMMA MemoryInvImplies == MemoryInv => TypeOK /\ OneHolder /\ WalkEnds
<1> SUFFICES ASSUME MemoryInv PROVE TypeOK /\ OneHolder /\ WalkEnds
  OBVIOUS
<1>1. (pc = "idle") = (request = NoRequest)
  BY DEF MemoryInv, RequestInv, NoRequest
<1>2. TypeOK
  BY <1>1 DEF MemoryInv, ZoneInv, Zones, Cells, ClientInv, WalkInv, TypeOK
<1>3. OneHolder
  BY DEF MemoryInv, HolderInv, OneHolder
<1>4. WalkEnds
  BY ConstantsType DEF MemoryInv, WalkInv, WalkEnds
<1> QED
  BY <1>2, <1>3, <1>4

\* MP_Alloc's scan finds a master pointer that is NULL.
LEMMA FirstMasterIs ==
    ASSUME MemoryInv, FreeMasters # {}
    PROVE  FirstMaster \in Masters /\ zone.mpBase[FirstMaster] = Null /\ Spare(FirstMaster)
<1>1. FreeMasters \in SUBSET Nat
  BY ConstantsType DEF FreeMasters
<1>2. PICK m \in FreeMasters : \A k \in FreeMasters : m <= k
  BY <1>1, LeastOf
<1>3. FirstMaster \in FreeMasters
  BY <1>2 DEF FirstMaster, Min
<1>4. FirstMaster \in Masters /\ zone.mpBase[FirstMaster] = Null
  BY <1>3 DEF FreeMasters
<1>5. holders[FirstMaster] \in Nat
  BY <1>4, MemoryAssumption DEF MemoryInv, ClientInv
<1> QED
  BY <1>4, <1>5 DEF MemoryInv, HolderInv, Spare

LEMMA SizesType ==
    /\ \A n \in PtrSizes : n \in Nat /\ n + HeaderSize + 1 \in Nat
    /\ \A n \in HandleSizes \cup Resizes : n \in Nat /\ HandleNeed(n) \in Nat
BY MemoryAssumption DEF HeaderSize, HandleNeed, MinBlockSize

\* A call leaves the walk and its request at rest.
LEMMA CallRests ==
    ASSUME MemoryInv, MayCall
    PROVE  /\ callsLeft' \in 0 .. CallsAfter
           /\ UNCHANGED walkVars => WalkInv' /\ RequestInv'
<1>1. callsLeft' \in 0 .. CallsAfter
  BY MemoryAssumption DEF MemoryInv, ClientInv, MayCall
<1>2. pc = "idle" /\ walk = NoWalk /\ request = NoRequest
  BY DEF MayCall, MemoryInv, WalkInv, RequestInv
<1>3. ASSUME UNCHANGED walkVars PROVE WalkInv' /\ RequestInv'
  <2>1. pc' = "idle" /\ walk' = NoWalk /\ request' = NoRequest
    BY <1>2, <1>3 DEF walkVars
  <2>2. WalkInv'
    BY <2>1, ConstantsType DEF WalkInv, NoWalk
  <2>3. RequestInv'
    BY <2>1 DEF RequestInv
  <2> QED
    BY <2>2, <2>3
<1> QED
  BY <1>1, <1>3

\* Whatever changes the zone but no master pointer, holder or purge keeps HolderInv.
LEMMA HoldersKept ==
    ASSUME MemoryInv, \A h \in Masters : zone'.mpBase[h] = zone.mpBase[h],
           UNCHANGED <<holders, purged>>
    PROVE  HolderInv'
BY DEF MemoryInv, HolderInv

LEMMA SumsKept ==
    ASSUME MemoryInv, zone' \in Sums(zone)
    PROVE  ZoneInv'
BY DEF MemoryInv, ZoneInv, Sums

\* A walk is started with the zone find_fit has left.
LEMMA WalkStarts ==
    ASSUME MemoryInv, MayCall, NEW z \in Sums(zone), NEW r, StartWalk(z, r),
           \A h \in Masters : z.mpBase[h] = zone.mpBase[h] \/ z.mpBase[h] = Reserved,
           r.need \in Nat,
           \/ r.op = "ptr" /\ r.size \in PtrSizes /\ r.mp = Null
           \/ /\ r.op = "handle" /\ r.size \in HandleSizes
              /\ Spare(r.mp) /\ holders[r.mp] < MaxHolders
           \/ /\ r.op = "resize" /\ r.size \in Resizes
              /\ Spare(r.mp) /\ r.h \in Masters
    PROVE  MemoryInv'
<1>1. /\ zone' = z /\ pc' = "purge" /\ walk' = NoWalk /\ request' = r
      /\ UNCHANGED <<ptrs, holders, stored, locks, purged, disturbed>>
  BY DEF StartWalk, clientVars
<1>2. ZoneInv'
  BY <1>1, SumsKept
<1>3. ClientInv'
  BY <1>1, CallRests DEF MemoryInv, ClientInv
<1>4. WalkInv'
  BY <1>1, ConstantsType DEF WalkInv, NoWalk
<1>5. RequestInv'
  BY <1>1 DEF RequestInv, Spare
<1>6. HolderInv'
  BY <1>1, ConstantsType DEF MemoryInv, HolderInv
<1> QED
  BY <1>2, <1>3, <1>4, <1>5, <1>6 DEF MemoryInv

-----------------------------------------------------------------------------
(* The calls, one by one.                                                   *)

\* What find_fit leaves to its caller.
LEMMA FoundFit ==
    ASSUME NEW z \in Zones, NEW need \in Nat
    PROVE  LET fit == FindFit(z, need) IN
           /\ fit.zone \in Zones /\ fit.zone \in Sums(z) /\ fit.zone.mpBase = z.mpBase
           /\ fit.found # Null => fit.found \in Addr /\ fit.found \in Nat
<1>1. FindFit(z, need) \in Finds(z, need)
  BY FindFitType
<1> QED
  BY <1>1, SumsCompose, ConstantsType DEF Finds

\* A handle in the block that find_fit answers with, and MP_Alloc's mark.
LEMMA PlacedIn ==
    ASSUME NEW z \in Zones, NEW y \in Sums(z), y.mpBase = z.mpBase,
           NEW b \in Nat, NEW need \in Nat, NEW n \in Nat, NEW mp \in Masters
    PROVE  /\ HandlePlaced(y, b, need, n, mp) \in Sums(z)
           /\ \A i \in Masters : HandlePlaced(y, b, need, n, mp).mpBase[i]
                                = IF i = mp THEN b ELSE z.mpBase[i]
<1>1. y \in Zones
  BY SumsCompose
<1>2. HandlePlaced(y, b, need, n, mp) \in Sums(y)
  BY <1>1, HandlePlacedType
<1>3. \A i \in Masters : HandlePlaced(y, b, need, n, mp).mpBase[i]
                          = IF i = mp THEN b ELSE y.mpBase[i]
  BY <1>1, HandlePlacedType
<1> QED
  BY <1>2, <1>3, SumsCompose

LEMMA FitTaken ==
    ASSUME NEW z \in Zones, NEW fit, fit.zone \in Sums(z), fit.zone.mpBase = z.mpBase,
           fit.found \in Nat, NEW need \in Nat, NEW n \in Nat, NEW mp \in Masters
    PROVE  /\ HandlePlaced(fit.zone, fit.found, need, n, mp) \in Sums(z)
           /\ \A i \in Masters : HandlePlaced(fit.zone, fit.found, need, n, mp).mpBase[i]
                                = IF i = mp THEN fit.found ELSE z.mpBase[i]
<1> DEFINE y == fit.zone
           b == fit.found
<1>1. y \in Sums(z) /\ y.mpBase = z.mpBase /\ b \in Nat
  OBVIOUS
<1> HIDE DEF y, b
<1>2. /\ HandlePlaced(y, b, need, n, mp) \in Sums(z)
      /\ \A i \in Masters : HandlePlaced(y, b, need, n, mp).mpBase[i]
                           = IF i = mp THEN b ELSE z.mpBase[i]
  BY <1>1, PlacedIn
<1> QED
  BY <1>2 DEF y, b

LEMMA FitReserved ==
    ASSUME NEW z \in Zones, NEW y \in Sums(z), y.mpBase = z.mpBase, NEW mp \in Masters
    PROVE  /\ [y EXCEPT !.mpBase[mp] = Reserved] \in Sums(z)
           /\ \A h \in Masters : \/ [y EXCEPT !.mpBase[mp] = Reserved].mpBase[h] = z.mpBase[h]
                                 \/ [y EXCEPT !.mpBase[mp] = Reserved].mpBase[h] = Reserved
<1> DEFINE reserved == [y EXCEPT !.mpBase[mp] = Reserved]
<1>1. y \in Zones /\ z.mpBase \in [Masters -> Nat \cup {Null, Reserved}]
  BY SumsCompose DEF Zones
<1>2. reserved \in Sums(y) /\ reserved.mpBase = [y.mpBase EXCEPT ![mp] = Reserved]
  BY <1>1, PointedType
<1> HIDE DEF reserved
<1>3. reserved \in Sums(z)
  BY <1>2, SumsCompose
<1>4. \A h \in Masters : reserved.mpBase[h] = z.mpBase[h] \/ reserved.mpBase[h] = Reserved
  BY <1>1, <1>2
<1> QED
  BY <1>3, <1>4 DEF reserved

LEMMA NewPtrStep ==
    ASSUME MemoryInv, NEW n \in PtrSizes, NewPtr(n)
    PROVE  MemoryInv'
<1> DEFINE need == n + HeaderSize + 1
           fit == FindFit(zone, need)
<1>1. n \in Nat /\ need \in Nat /\ MayCall /\ zone \in Zones
  BY SizesType DEF NewPtr, MemoryInv, ZoneInv
<1>2. /\ fit.zone \in Zones /\ fit.zone \in Sums(zone) /\ fit.zone.mpBase = zone.mpBase
      /\ fit.found # Null => fit.found \in Addr /\ fit.found \in Nat
  BY <1>1, FoundFit
<1>3. \/ /\ fit.found # Null
         /\ zone' = PtrPlaced(fit.zone, fit.found, need, n)
         /\ ptrs' = ptrs \cup {[at |-> fit.found, size |-> n]}
         /\ UNCHANGED <<walkVars, holders, stored, locks, purged, disturbed>>
      \/ StartWalk(fit.zone, [NoRequest EXCEPT !.op = "ptr", !.size = n, !.need = need])
  BY DEF NewPtr
<1> HIDE DEF need, fit
<1>4. CASE fit.found # Null /\ zone' = PtrPlaced(fit.zone, fit.found, need, n)
           /\ ptrs' = ptrs \cup {[at |-> fit.found, size |-> n]}
           /\ UNCHANGED <<walkVars, holders, stored, locks, purged, disturbed>>
  <2>1. zone' \in Sums(zone) /\ zone'.mpBase = zone.mpBase
    <3>1. /\ PtrPlaced(fit.zone, fit.found, need, n) \in Sums(fit.zone)
          /\ PtrPlaced(fit.zone, fit.found, need, n).mpBase = fit.zone.mpBase
      BY <1>1, <1>2, <1>4, PtrPlacedType
    <3>2. Sums(fit.zone) \subseteq Sums(zone)
      BY <1>1, <1>2, SumsCompose
    <3> QED
      BY <1>2, <1>4, <3>1, <3>2
  <2>2. ClientInv'
    BY <1>1, <1>2, <1>4, CallRests DEF MemoryInv, ClientInv
  <2> QED
    BY <1>1, <1>4, <2>1, <2>2, SumsKept, HoldersKept, CallRests DEF MemoryInv
<1>5. CASE StartWalk(fit.zone, [NoRequest EXCEPT !.op = "ptr", !.size = n, !.need = need])
  <2> DEFINE r == [NoRequest EXCEPT !.op = "ptr", !.size = n, !.need = need]
  <2>1. r.op = "ptr" /\ r.size = n /\ r.need = need /\ r.mp = Null
    BY DEF NoRequest
  <2> HIDE DEF r
  <2>2. StartWalk(fit.zone, r)
    BY <1>5 DEF r
  <2> QED
    BY <1>1, <1>2, <2>1, <2>2, WalkStarts
<1> QED
  BY <1>3, <1>4, <1>5

LEMMA DisposePtrStep ==
    ASSUME MemoryInv, NEW p \in ptrs, DisposePtr(p)
    PROVE  MemoryInv'
<1>1. /\ MayCall /\ zone \in Zones /\ zone' = ReleasedPtr(zone, p.at)
      /\ ptrs' = ptrs \ {p}
      /\ UNCHANGED <<walkVars, holders, stored, locks, purged, disturbed>>
  BY DEF DisposePtr, MemoryInv, ZoneInv
<1>2. zone' \in Sums(zone) /\ zone'.mpBase = zone.mpBase
  BY <1>1, ReleasedPtrType
<1>3. ClientInv'
  BY <1>1, CallRests DEF MemoryInv, ClientInv
<1> QED
  BY <1>1, <1>2, <1>3, SumsKept, HoldersKept, CallRests DEF MemoryInv

\* A handle is given only if its master pointer is nobody's, or purged.
LEMMA GivenStep ==
    ASSUME MemoryInv, NEW i \in Masters, NEW n \in HandleSizes \cup Resizes, GivenTo(i, n),
           Spare(i), holders[i] < MaxHolders, zone'.mpBase[i] # Null,
           \A h \in Masters \ {i} : zone'.mpBase[h] = zone.mpBase[h],
           purged' = purged
    PROVE  /\ HolderInv'
           /\ holders' \in [Masters -> 0 .. MaxHolders]
           /\ stored' \in [Masters -> HandleSizes \cup Resizes \cup {0}]
           /\ locks' \in [Masters -> 0 .. MaxLocks]
<1>1. /\ holders \in [Masters -> 0 .. MaxHolders] /\ MaxHolders \in Nat /\ MaxLocks \in Nat
      /\ stored \in [Masters -> HandleSizes \cup Resizes \cup {0}]
      /\ locks \in [Masters -> 0 .. MaxLocks]
  BY MemoryAssumption DEF MemoryInv, ClientInv
<1>2. /\ holders' = [holders EXCEPT ![i] = holders[i] + 1]
      /\ stored' = [stored EXCEPT ![i] = n]
      /\ locks' = [locks EXCEPT ![i] = 0]
  BY DEF GivenTo
<1>3. holders[i] + 1 \in 0 .. MaxHolders /\ holders[i] \in Nat
  BY <1>1
<1>4. HolderInv'
  <2> SUFFICES ASSUME NEW h \in Masters
               PROVE  /\ holders'[h] > 1 => h \in purged
                      /\ holders'[h] > 0 /\ h \notin purged => zone'.mpBase[h] # Null
    BY DEF HolderInv
  <2>1. CASE h = i
    BY <1>1, <1>2, <1>3, <2>1 DEF Spare
  <2>2. CASE h # i
    BY <1>1, <1>2, <2>2 DEF MemoryInv, HolderInv
  <2> QED
    BY <2>1, <2>2
<1> QED
  BY <1>1, <1>2, <1>3, <1>4

LEMMA NewHandleStep ==
    ASSUME MemoryInv, NEW n \in HandleSizes, NewHandle(n)
    PROVE  MemoryInv'
<1> DEFINE need == HandleNeed(n)
           fit == FindFit(zone, need)
           mp == FirstMaster
           r == [NoRequest EXCEPT !.op = "handle", !.size = n, !.need = need, !.mp = mp]
           reserved == [fit.zone EXCEPT !.mpBase[mp] = Reserved]
<1>1. n \in Nat /\ need \in Nat /\ MayCall /\ zone \in Zones /\ holders[mp] < MaxHolders
  BY SizesType DEF NewHandle, MemoryInv, ZoneInv
<1>2. /\ fit.zone \in Zones /\ fit.zone \in Sums(zone) /\ fit.zone.mpBase = zone.mpBase
      /\ fit.found # Null => fit.found \in Addr /\ fit.found \in Nat
  BY <1>1, FoundFit
<1>3. mp \in Masters /\ Spare(mp)
  BY FirstMasterIs DEF NewHandle
<1>4. \/ /\ fit.found # Null
         /\ zone' = HandlePlaced(fit.zone, fit.found, need, n, mp)
         /\ GivenTo(mp, n)
         /\ UNCHANGED <<walkVars, ptrs, purged, disturbed>>
      \/ StartWalk(reserved, r)
  BY DEF NewHandle
<1>5. r.op = "handle" /\ r.size = n /\ r.need = need /\ r.mp = mp
  BY DEF NoRequest
<1>6. zone.mpBase \in [Masters -> Nat \cup {Null, Reserved}]
  BY <1>1 DEF Zones
<1> HIDE DEF need, fit, mp, r
<1>7. CASE fit.found # Null /\ zone' = HandlePlaced(fit.zone, fit.found, need, n, mp)
           /\ GivenTo(mp, n) /\ UNCHANGED <<walkVars, ptrs, purged, disturbed>>
  <2>1. /\ zone' \in Sums(zone)
        /\ \A i \in Masters : zone'.mpBase[i] = IF i = mp THEN fit.found ELSE zone.mpBase[i]
    BY <1>1, <1>2, <1>3, <1>7, FitTaken
  <2>2. zone'.mpBase[mp] # Null /\ \A h \in Masters \ {mp} : zone'.mpBase[h] = zone.mpBase[h]
    BY <1>2, <1>3, <1>7, <2>1, ConstantsType
  <2>3. HolderInv' /\ ClientInv'
    BY <1>1, <1>3, <1>7, <2>2, GivenStep, CallRests DEF MemoryInv, ClientInv
  <2> QED
    BY <1>1, <1>7, <2>1, <2>3, SumsKept, CallRests DEF MemoryInv
<1>8. CASE StartWalk(reserved, r)
  <2>1. /\ reserved \in Sums(zone)
        /\ \A h \in Masters : reserved.mpBase[h] = zone.mpBase[h] \/ reserved.mpBase[h] = Reserved
    <3> DEFINE y == fit.zone
    <3>1. y \in Sums(zone) /\ y.mpBase = zone.mpBase
      BY <1>2
    <3> HIDE DEF y
    <3>2. LET marked == [y EXCEPT !.mpBase[mp] = Reserved] IN
          /\ marked \in Sums(zone)
          /\ \A h \in Masters : marked.mpBase[h] = zone.mpBase[h] \/ marked.mpBase[h] = Reserved
      BY <1>1, <1>3, <3>1, FitReserved
    <3> QED
      BY <3>2 DEF y
  <2> HIDE DEF reserved
  <2> QED
    BY <1>1, <1>3, <1>5, <1>8, <2>1, WalkStarts
<1> QED
  BY <1>4, <1>7, <1>8

LEMMA DisposeHandleStep ==
    ASSUME MemoryInv, NEW h \in Masters, DisposeHandle(h)
    PROVE  MemoryInv'
<1>1. /\ MayCall /\ zone \in Zones /\ holders[h] > 0
      /\ zone' = ReleasedHandle(zone, h)
      /\ holders' = [holders EXCEPT ![h] = holders[h] - 1]
      /\ stored' = [stored EXCEPT ![h] = IF holders[h] = 1 THEN 0 ELSE stored[h]]
      /\ locks' = [locks EXCEPT ![h] = 0]
      /\ purged' = IF holders[h] = 1 THEN purged \ {h} ELSE purged
      /\ UNCHANGED <<walkVars, ptrs, disturbed>>
  BY DEF DisposeHandle, MemoryInv, ZoneInv
<1>2. /\ holders \in [Masters -> 0 .. MaxHolders] /\ MaxHolders \in Nat /\ MaxLocks \in Nat
      /\ stored \in [Masters -> HandleSizes \cup Resizes \cup {0}]
      /\ locks \in [Masters -> 0 .. MaxLocks]
  BY MemoryAssumption DEF MemoryInv, ClientInv
<1>3. /\ zone' \in Sums(zone)
      /\ zone'.mpBase \in {zone.mpBase, [zone.mpBase EXCEPT ![h] = Null]}
  BY <1>1, ReleasedHandleType
<1>4. zone.mpBase \in [Masters -> Nat \cup {Null, Reserved}]
  BY <1>1 DEF Zones
<1>5. holders[h] \in Nat /\ holders[h] - 1 \in 0 .. MaxHolders
  BY <1>1, <1>2
<1>6. ClientInv'
  BY <1>1, <1>2, <1>5, CallRests DEF MemoryInv, ClientInv
<1>7. HolderInv'
  <2> SUFFICES ASSUME NEW g \in Masters
               PROVE  /\ holders'[g] > 1 => g \in purged'
                      /\ holders'[g] > 0 /\ g \notin purged' => zone'.mpBase[g] # Null
    BY DEF HolderInv
  <2>1. CASE g = h
    BY <1>1, <1>2, <1>5, <2>1 DEF MemoryInv, HolderInv
  <2>2. CASE g # h
    <3>1. zone'.mpBase[g] = zone.mpBase[g] /\ holders'[g] = holders[g]
          /\ (g \in purged' <=> g \in purged)
      BY <1>1, <1>2, <1>3, <1>4, <2>2
    <3> QED
      BY <3>1 DEF MemoryInv, HolderInv
  <2> QED
    BY <2>1, <2>2
<1> QED
  BY <1>1, <1>3, <1>6, <1>7, SumsKept, CallRests DEF MemoryInv

LEMMA FlagStep ==
    ASSUME MemoryInv, NEW h \in Masters, HLock(h) \/ HUnlock(h) \/ HPurge(h) \/ HNoPurge(h)
    PROVE  MemoryInv'
<1>1. /\ MayCall /\ zone \in Zones
      /\ UNCHANGED <<walkVars, ptrs, holders, stored, purged, disturbed>>
  BY DEF HLock, HUnlock, HPurge, HNoPurge, clientVars, MemoryInv, ZoneInv
<1>2. zone' \in Rewrites(zone)
  <2>1. \A b : /\ Flags(zone, b) \cup {"PURGEABLE"} \in SUBSET FlagNames
               /\ Flags(zone, b) \ {"PURGEABLE"} \in SUBSET FlagNames
    BY <1>1, Reads DEF FlagNames
  <2> QED
    BY <1>1, <2>1, LocksType, SetType DEF HLock, HUnlock, HPurge, HNoPurge
<1>3. locks' \in [Masters -> 0 .. MaxLocks]
  <2>1. locks \in [Masters -> 0 .. MaxLocks] /\ MaxLocks \in Nat
    BY MemoryAssumption DEF MemoryInv, ClientInv
  <2> QED
    BY <2>1 DEF HLock, HUnlock, HPurge, HNoPurge, clientVars
<1>4. ClientInv'
  BY <1>1, <1>3, CallRests DEF MemoryInv, ClientInv
<1>5. zone' \in Sums(zone) /\ zone'.mpBase = zone.mpBase
  BY <1>1, <1>2, SumsCompose
<1> QED
  BY <1>1, <1>4, <1>5, SumsKept, HoldersKept, CallRests DEF MemoryInv

\* SetHandleSize has its new block in y: by find_fit at once or after the walks.
LEMMA ResizeStep ==
    ASSUME MemoryInv, NEW mp \in Masters, Spare(mp), NEW y \in Sums(zone), y.mpBase[mp] \in Nat,
           \A i \in Masters \ {mp} : y.mpBase[i] = zone.mpBase[i],
           NEW h \in Masters, NEW old, NEW size, NEW n \in Resizes,
           zone' = Resized(y, h, old, size, n, mp),
           stored' = [stored EXCEPT ![h] = Least(stored[h], n)],
           UNCHANGED <<ptrs, holders, locks, purged>>,
           disturbed' \in BOOLEAN, callsLeft' \in 0 .. CallsAfter
    PROVE  ZoneInv' /\ ClientInv' /\ HolderInv'
<1>1. y \in Zones /\ zone \in Zones
  BY SumsCompose DEF MemoryInv, ZoneInv
<1>2. /\ zone' \in Sums(y) /\ zone'.mpBase[mp] = Null
      /\ \A i \in Masters \ {mp} : zone'.mpBase[i] \in {y.mpBase[i], y.mpBase[mp]}
  BY <1>1, ResizedType
<1>3. ZoneInv'
  BY <1>1, <1>2, SumsCompose, SumsKept
<1>4. stored' \in [Masters -> HandleSizes \cup Resizes \cup {0}]
  BY DEF MemoryInv, ClientInv, Least
<1>5. ClientInv'
  BY <1>4 DEF MemoryInv, ClientInv
<1>6. HolderInv'
  <2> SUFFICES ASSUME NEW i \in Masters
               PROVE  /\ holders[i] > 1 => i \in purged
                      /\ holders[i] > 0 /\ i \notin purged => zone'.mpBase[i] # Null
    BY DEF HolderInv
  <2>1. CASE i = mp
    BY <2>1 DEF Spare
  <2>2. CASE i # mp
    BY <1>2, <2>2, ConstantsType DEF MemoryInv, HolderInv
  <2> QED
    BY <2>1, <2>2
<1> QED
  BY <1>3, <1>5, <1>6

LEMMA SetHandleSizeStep ==
    ASSUME MemoryInv, NEW h \in Masters, NEW n \in Resizes, SetHandleSize(h, n)
    PROVE  MemoryInv'
<1> DEFINE b == zone.mpBase[h]
           size == Size(zone, b) - HeaderSize
           need == HandleNeed(n)
           fit == FindFit(zone, need)
           mp == FirstMaster
           placed == HandlePlaced(fit.zone, fit.found, need, n, mp)
           reserved == [fit.zone EXCEPT !.mpBase[mp] = Reserved]
           r == [op |-> "resize", size |-> n, need |-> need, mp |-> mp, h |-> h,
                 old |-> b, oldSize |-> size]
<1>1. n \in Nat /\ need \in Nat /\ MayCall /\ zone \in Zones
  BY SizesType DEF SetHandleSize, MemoryInv, ZoneInv
<1>2. /\ fit.zone \in Zones /\ fit.zone \in Sums(zone) /\ fit.zone.mpBase = zone.mpBase
      /\ fit.found # Null => fit.found \in Addr /\ fit.found \in Nat
  BY <1>1, FoundFit
<1>3. mp \in Masters /\ Spare(mp)
  BY FirstMasterIs DEF SetHandleSize
<1>4. \/ /\ fit.found # Null
         /\ zone' = Resized(placed, h, b, size, n, mp)
         /\ stored' = [stored EXCEPT ![h] = Least(stored[h], n)]
         /\ UNCHANGED <<walkVars, ptrs, holders, locks, purged, disturbed>>
      \/ StartWalk(reserved, r)
  BY DEF SetHandleSize
<1>5. r.op = "resize" /\ r.size = n /\ r.need = need /\ r.mp = mp /\ r.h = h
  OBVIOUS
<1> HIDE DEF need, fit, mp, r, size, b
<1>6. CASE fit.found # Null /\ zone' = Resized(placed, h, b, size, n, mp)
           /\ stored' = [stored EXCEPT ![h] = Least(stored[h], n)]
           /\ UNCHANGED <<walkVars, ptrs, holders, locks, purged, disturbed>>
  <2>1. /\ placed \in Sums(zone)
        /\ \A i \in Masters : placed.mpBase[i] = IF i = mp THEN fit.found ELSE zone.mpBase[i]
    BY <1>1, <1>2, <1>3, <1>6, FitTaken
  <2> HIDE DEF placed
  <2>2. placed.mpBase[mp] \in Nat
    BY <1>2, <1>3, <1>6, <2>1
  <2>3. callsLeft' \in 0 .. CallsAfter /\ disturbed' \in BOOLEAN
    BY <1>1, <1>6, CallRests DEF MemoryInv, ClientInv
  <2>4. ZoneInv' /\ ClientInv' /\ HolderInv'
    BY <1>3, <1>6, <2>1, <2>2, <2>3, ResizeStep
  <2> QED
    BY <1>1, <1>6, <2>4, CallRests DEF MemoryInv
<1>7. CASE StartWalk(reserved, r)
  <2>1. /\ reserved \in Sums(zone)
        /\ \A i \in Masters : reserved.mpBase[i] = zone.mpBase[i] \/ reserved.mpBase[i] = Reserved
    <3> DEFINE y == fit.zone
    <3>1. y \in Sums(zone) /\ y.mpBase = zone.mpBase
      BY <1>2
    <3> HIDE DEF y
    <3>2. LET marked == [y EXCEPT !.mpBase[mp] = Reserved] IN
          /\ marked \in Sums(zone)
          /\ \A i \in Masters : marked.mpBase[i] = zone.mpBase[i] \/ marked.mpBase[i] = Reserved
      BY <1>1, <1>3, <3>1, FitReserved
    <3> QED
      BY <3>2 DEF y
  <2> HIDE DEF reserved
  <2> QED
    BY <1>1, <1>3, <1>5, <1>7, <2>1, WalkStarts
<1> QED
  BY <1>4, <1>6, <1>7

LEMMA ShrinkInPlaceStep ==
    ASSUME MemoryInv, NEW h \in Masters, NEW n \in Resizes, ShrinkInPlace(h, n)
    PROVE  MemoryInv'
<1>1. /\ MayCall /\ zone \in Zones /\ zone' = zone
      /\ stored' = [stored EXCEPT ![h] = n]
      /\ UNCHANGED <<walkVars, ptrs, holders, locks, purged, disturbed>>
  BY DEF ShrinkInPlace, MemoryInv, ZoneInv
<1>2. ClientInv'
  BY <1>1, CallRests DEF MemoryInv, ClientInv
<1> QED
  BY <1>1, <1>2, SumsCompose, SumsKept, HoldersKept, CallRests DEF MemoryInv

-----------------------------------------------------------------------------
(* The turns of the walks.                                                  *)

\* The walk goes on: its new place is further, or the turn after will be its last.
LEMMA TurnGoesOn ==
    ASSUME MemoryInv, walk.scan < ZoneSize, Size(zone, walk.scan) # 0,
           NEW s \in Nat, NEW d \in Nat, NEW l \in Nat, walk' = Turn(s, d, l),
           s > walk.scan \/ Size(zone', s) = 0, pc' \in {"purge", "compact"}
    PROVE  WalkInv'
<1>1. /\ walk.scan \in Nat /\ walk.turns \in Nat /\ walk.turns <= walk.scan
      /\ walk.turns + 1 \in Nat /\ ZoneSize \in Nat
  BY ConstantsType DEF MemoryInv, WalkInv
<1>2. walk' = [scan |-> s, dest |-> d, last |-> l, turns |-> walk.turns + 1]
  BY DEF Turn
<1>3. walk.turns + 1 <= ZoneSize /\ (s > walk.scan => walk.turns + 1 <= s)
  BY <1>1
<1> QED
  BY <1>1, <1>2, <1>3 DEF WalkInv

LEMMA CompactingBegins ==
    ASSUME MemoryInv, CompactBegins
    PROVE  WalkInv'
BY ConstantsType DEF CompactBegins, WalkInv, NoWalk

LEMMA RequestKept ==
    ASSUME MemoryInv, pc # "idle", pc' # "idle", UNCHANGED <<request, holders>>,
           purged \subseteq purged'
    PROVE  RequestInv'
BY DEF MemoryInv, RequestInv, Spare

LEMMA PurgeTurnGoesOn ==
    ASSUME MemoryInv, pc = "purge", walk.scan < ZoneSize, Size(zone, walk.scan) # 0,
           NEW z \in Zones, NEW b \in Nat, PurgeGoesOn(z, b)
    PROVE  WalkInv' /\ pc' # "idle"
<1>1. b + Size(z, b) \in Nat /\ walk.scan \in Nat /\ walk.dest \in Nat /\ walk.last \in Nat
  BY Reads DEF MemoryInv, WalkInv
<1>2. CASE b + Size(z, b) <= walk.scan
  BY <1>2, CompactingBegins DEF PurgeGoesOn, CompactBegins
<1>3. CASE ~(b + Size(z, b) <= walk.scan)
  <2>1. pc' = pc /\ walk' = Turn(b + Size(z, b), walk.dest, walk.last)
    BY <1>3 DEF PurgeGoesOn
  <2>2. b + Size(z, b) > walk.scan
    BY <1>1, <1>3
  <2> QED
    BY <1>1, <2>1, <2>2, TurnGoesOn
<1> QED
  BY <1>2, <1>3

LEMMA PurgePassesStep ==
    ASSUME MemoryInv, PurgePasses
    PROVE  MemoryInv'
<1>1. /\ pc = "purge" /\ walk.scan < ZoneSize /\ Size(zone, walk.scan) # 0
      /\ PurgeGoesOn(zone, walk.scan) /\ zone \in Zones /\ walk.scan \in Nat
      /\ UNCHANGED <<zone, request, clientVars, purged, disturbed, callsLeft>>
  BY DEF PurgePasses, BadSize, MemoryInv, ZoneInv, WalkInv
<1>2. WalkInv' /\ pc' # "idle"
  BY <1>1, PurgeTurnGoesOn
<1>3. RequestInv' /\ ClientInv' /\ ZoneInv' /\ HolderInv'
  BY <1>1, <1>2, RequestKept, HoldersKept DEF MemoryInv, ClientInv, ZoneInv, clientVars
<1> QED
  BY <1>2, <1>3 DEF MemoryInv

LEMMA PurgeFreesStep ==
    ASSUME MemoryInv, PurgeFrees
    PROVE  MemoryInv'
<1> DEFINE b == walk.scan
           freed == PurgedZone(b)
           g == MasterPtr(zone, b)
<1>1. /\ pc = "purge" /\ b < ZoneSize /\ Size(zone, b) # 0 /\ zone \in Zones /\ b \in Nat
      /\ zone' = AfterMaxMem(freed)
      /\ purged' = purged \cup {h \in {g} : h \in Masters /\ holders[h] > 0}
      /\ locks' = [h \in Masters |-> IF h = g THEN 0 ELSE locks[h]]
      /\ CompactBegins \/ PurgeGoesOn(freed, PurgedStart(b))
      /\ UNCHANGED <<request, ptrs, holders, stored, disturbed, callsLeft>>
  BY DEF PurgeFrees, BadSize, MemoryInv, ZoneInv, WalkInv
<1>2. /\ freed \in Sums(zone) /\ freed \in Zones
      /\ \A i \in Masters : freed.mpBase[i] = IF i = g THEN Null ELSE zone.mpBase[i]
  BY <1>1, PurgedZoneType, SumsCompose
<1>3. PurgedStart(b) \in Nat
  <2> DEFINE flagged == SetFlags(zone, b, {"FREE"})
  <2>1. flagged \in Zones
    BY <1>1, SetType, RewritesCompose DEF FlagNames
  <2> HIDE DEF flagged
  <2>2. CoalesceForward(flagged, b) \in Zones
    BY <2>1, CoalesceForwardType, RewritesCompose
  <2>3. Start(CoalesceForward(flagged, b), b) \in Nat
    BY <1>1, <2>2, StartType
  <2> QED
    BY <2>3 DEF PurgedStart, flagged
<1> HIDE DEF freed, g
<1>4. zone' \in Sums(zone) /\ \A i \in Masters : zone'.mpBase[i] = IF i = g THEN Null ELSE zone.mpBase[i]
  <2>1. zone' \in Rewrites(freed)
    BY <1>1, <1>2, DropType
  <2>2. zone' \in Sums(freed) /\ zone'.mpBase = freed.mpBase
    BY <1>2, <2>1, SumsCompose
  <2> QED
    BY <1>1, <1>2, <2>2, SumsCompose
<1>5. WalkInv' /\ pc' # "idle"
  BY <1>1, <1>2, <1>3, CompactingBegins, PurgeTurnGoesOn DEF CompactBegins
<1>6. RequestInv'
  BY <1>1, <1>5, RequestKept
<1>7. ClientInv'
  <2>1. MaxLocks \in Nat /\ locks \in [Masters -> 0 .. MaxLocks]
    BY MemoryAssumption DEF MemoryInv, ClientInv
  <2>2. locks' \in [Masters -> 0 .. MaxLocks]
    BY <1>1, <2>1
  <2>3. purged' \subseteq Masters
    BY <1>1 DEF MemoryInv, ClientInv
  <2> QED
    BY <1>1, <2>2, <2>3 DEF MemoryInv, ClientInv
<1>8. HolderInv'
  BY <1>1, <1>4 DEF MemoryInv, HolderInv
<1> QED
  BY <1>4, <1>5, <1>6, <1>7, <1>8, SumsKept DEF MemoryInv

LEMMA PurgeEndsStep ==
    ASSUME MemoryInv, PurgeEnds
    PROVE  MemoryInv'
<1>1. /\ pc = "purge" /\ pc' = "compact" /\ CompactBegins
      /\ UNCHANGED <<zone, request, clientVars, purged, disturbed, callsLeft>>
  BY DEF PurgeEnds, CompactBegins
<1>2. WalkInv' /\ RequestInv'
  BY <1>1, CompactingBegins, RequestKept DEF clientVars
<1>3. ClientInv' /\ ZoneInv' /\ HolderInv'
  BY <1>1, HoldersKept DEF MemoryInv, ClientInv, ZoneInv, clientVars
<1> QED
  BY <1>2, <1>3 DEF MemoryInv

LEMMA CompactPassesStep ==
    ASSUME MemoryInv, CompactPasses
    PROVE  MemoryInv'
<1> DEFINE s == walk.scan + Size(zone, walk.scan)
<1>1. /\ pc = "compact" /\ walk.scan < ZoneSize /\ Size(zone, walk.scan) # 0
      /\ zone \in Zones /\ walk.scan \in Nat /\ walk.dest \in Nat /\ walk.last \in Nat
      /\ walk' = Turn(s, walk.dest, walk.last)
      /\ UNCHANGED <<zone, pc, request, clientVars, purged, disturbed, callsLeft>>
  BY DEF CompactPasses, CompactAt, BadSize, MemoryInv, ZoneInv, WalkInv
<1>2. s \in Nat /\ s > walk.scan
  BY <1>1, Reads
<1> HIDE DEF s
<1>3. WalkInv' /\ pc' # "idle"
  BY <1>1, <1>2, TurnGoesOn
<1>4. RequestInv' /\ ClientInv' /\ ZoneInv' /\ HolderInv'
  BY <1>1, <1>3, RequestKept, HoldersKept DEF MemoryInv, ClientInv, ZoneInv, clientVars
<1> QED
  BY <1>3, <1>4 DEF MemoryInv

\* Where a turn leaves the place to read the next size from: further on, or, if
\* it has overwritten the size it read, where it was.
LEMMA NextPlace ==
    ASSUME NEW z \in Zones, NEW a \in Nat
    PROVE  LET s == a + Size(z, a) IN s \in Nat /\ (s > a \/ Size(z, s) = 0)
<1>1. Size(z, a) \in Nat
  BY Reads
<1>2. CASE Size(z, a) = 0
  <2>1. a + Size(z, a) = a
    BY <1>2
  <2> QED
    BY <1>2, <2>1
<1>3. CASE Size(z, a) # 0
  BY <1>1, <1>3
<1> QED
  BY <1>2, <1>3

LEMMA CompactMovesStep ==
    ASSUME MemoryInv, CompactMoves
    PROVE  MemoryInv'
<1> DEFINE moved == MovedTo(zone, walk.dest, walk.scan)
           size == Size(moved, walk.dest)
           s == walk.scan + Size(moved, walk.scan)
           d == walk.dest + size
<1>1. /\ pc = "compact" /\ walk.scan < ZoneSize /\ Size(zone, walk.scan) # 0
      /\ zone \in Zones /\ walk.scan \in Nat /\ walk.dest \in Nat
      /\ zone' = moved /\ walk' = Turn(s, d, size) /\ disturbed' = TRUE
      /\ UNCHANGED <<pc, request, clientVars, purged, callsLeft>>
  BY DEF CompactMoves, CompactAt, BadSize, MemoryInv, ZoneInv, WalkInv
<1>2. /\ moved \in Sums(zone) /\ moved \in Zones
      /\ \A i \in Masters : \/ moved.mpBase[i] = zone.mpBase[i]
                            \/ zone.mpBase[i] # Null /\ moved.mpBase[i] = walk.dest
  BY <1>1, MovedToType, SumsCompose
<1> HIDE DEF moved
<1>3. /\ size \in Nat /\ d \in Nat /\ s \in Nat
      /\ s > walk.scan \/ Size(moved, s) = 0
  BY <1>1, <1>2, Reads, NextPlace
<1> HIDE DEF size, s, d
<1>4. Size(zone', s) = Size(moved, s)
  BY <1>1
<1>5. WalkInv' /\ pc' # "idle"
  BY <1>1, <1>3, <1>4, TurnGoesOn
<1>6. RequestInv'
  BY <1>1, <1>5, RequestKept DEF clientVars
<1>7. ClientInv' /\ ZoneInv'
  BY <1>1, <1>2, SumsKept DEF MemoryInv, ClientInv, clientVars
<1>8. HolderInv'
  BY <1>1, <1>2, ConstantsType DEF MemoryInv, HolderInv, clientVars
<1> QED
  BY <1>5, <1>6, <1>7, <1>8 DEF MemoryInv

LEMMA CompactLeavesStep ==
    ASSUME MemoryInv, CompactLeaves
    PROVE  MemoryInv'
<1> DEFINE scan == walk.scan
           gap == scan - walk.dest
           freed == FreeBlockMade(zone, walk.dest, gap)
           made == SetPrevSize(freed, scan, gap)
           after == IF gap >= MinBlockSize THEN made ELSE zone
           end == scan + Size(after, scan)
           size == Size(after, scan)
<1>1. /\ pc = "compact" /\ scan < ZoneSize /\ Size(zone, scan) # 0
      /\ zone \in Zones /\ scan \in Nat /\ walk.dest \in Nat /\ walk.last \in Nat
      /\ zone' = after /\ walk' = Turn(end, end, size) /\ disturbed' \in BOOLEAN
      /\ UNCHANGED <<pc, request, clientVars, purged, callsLeft>>
  BY DEF CompactLeaves, CompactAt, BadSize, MemoryInv, ZoneInv, WalkInv, ClientInv
<1>2. after \in Rewrites(zone)
  <2>1. CASE gap >= MinBlockSize
    <3>1. gap \in Nat
      BY <1>1, <2>1 DEF MinBlockSize
    <3> HIDE DEF gap
    <3>2. freed \in Rewrites(zone) /\ freed \in Zones
      BY <1>1, <3>1, FreeBlockMadeType, RewritesCompose
    <3> HIDE DEF freed
    <3>3. made \in Rewrites(zone)
      BY <1>1, <3>1, <3>2, SetType, RewritesCompose
    <3> QED
      BY <2>1, <3>3
  <2>2. CASE ~(gap >= MinBlockSize)
    BY <1>1, <2>2, RewritesCompose
  <2> QED
    BY <2>1, <2>2
<1> HIDE DEF after
<1>3. after \in Sums(zone) /\ after \in Zones /\ after.mpBase = zone.mpBase
  BY <1>1, <1>2, SumsCompose
<1>4. /\ size \in Nat /\ end \in Nat
      /\ end > scan \/ Size(after, end) = 0
  BY <1>1, <1>3, Reads, NextPlace
<1> HIDE DEF size, end
<1>5. Size(zone', end) = Size(after, end)
  BY <1>1
<1>6. WalkInv' /\ pc' # "idle"
  BY <1>1, <1>4, <1>5, TurnGoesOn
<1>7. RequestInv'
  BY <1>1, <1>6, RequestKept DEF clientVars
<1>8. ClientInv' /\ ZoneInv' /\ HolderInv'
  BY <1>1, <1>3, SumsKept, HoldersKept DEF MemoryInv, ClientInv, clientVars
<1> QED
  BY <1>6, <1>7, <1>8 DEF MemoryInv

LEMMA TailZoneType ==
    ASSUME MemoryInv
    PROVE  TailZone \in Rewrites(zone)
<1> DEFINE limit == IF walk.scan < ZoneSize THEN walk.scan ELSE ZoneSize
           size == limit - walk.dest
<1>1. zone \in Zones /\ limit \in Nat /\ walk.dest \in Nat /\ walk.last \in Nat
  BY ConstantsType DEF MemoryInv, ZoneInv, WalkInv
<1> HIDE DEF limit
<1>2. CASE size >= MinBlockSize
  <2>1. size \in Nat
    BY <1>1, <1>2 DEF MinBlockSize
  <2> HIDE DEF size
  <2>2. FreeBlockMade(zone, walk.dest, size) \in Rewrites(zone)
    BY <1>1, <2>1, FreeBlockMadeType
  <2> QED
    BY <1>2, <2>2 DEF TailZone, size, limit
<1>3. CASE ~(size >= MinBlockSize)
  BY <1>1, <1>3, RewritesCompose DEF TailZone, limit
<1> QED
  BY <1>2, <1>3

\* A call that compaction could not help gives its master pointer back.
LEMMA RefusedStep ==
    ASSUME MemoryInv, pc # "idle", NEW z \in Sums(zone), z.mpBase = zone.mpBase,
           Refused(z), disturbed' \in BOOLEAN, UNCHANGED <<purged, callsLeft>>
    PROVE  ZoneInv' /\ ClientInv' /\ HolderInv'
<1>1. zone \in Zones /\ z \in Zones /\ UNCHANGED clientVars
  BY SumsCompose DEF MemoryInv, ZoneInv, Refused
<1>2. ClientInv'
  BY <1>1 DEF MemoryInv, ClientInv, clientVars
<1>3. CASE request.mp \in Masters
  <2> DEFINE mp == request.mp
             cleared == [z EXCEPT !.mpBase[mp] = Null]
  <2>1. /\ cleared \in Sums(z) /\ cleared.mpBase = [z.mpBase EXCEPT ![mp] = Null]
        /\ zone' = cleared
    BY <1>1, <1>3, PointedType DEF Refused
  <2> HIDE DEF cleared
  <2>2. zone' \in Sums(zone) /\ \A i \in Masters \ {mp} : zone'.mpBase[i] = zone.mpBase[i]
    BY <1>1, <2>1, SumsCompose DEF Zones
  <2>3. Spare(mp)
    BY <1>3, ConstantsType DEF MemoryInv, RequestInv
  <2>4. HolderInv'
    <3> SUFFICES ASSUME NEW i \in Masters
                 PROVE  /\ holders[i] > 1 => i \in purged
                        /\ holders[i] > 0 /\ i \notin purged => zone'.mpBase[i] # Null
      BY <1>1 DEF HolderInv, clientVars
    <3> QED
      BY <2>2, <2>3 DEF MemoryInv, HolderInv, Spare
  <2> QED
    BY <1>2, <2>2, <2>4, SumsKept
<1>4. CASE request.mp \notin Masters
  <2>1. zone' = z
    BY <1>4 DEF Refused
  <2> QED
    BY <1>1, <1>2, <2>1, SumsKept, HoldersKept DEF clientVars
<1> QED
  BY <1>3, <1>4

LEMMA GrantedStep ==
    ASSUME MemoryInv, pc # "idle", NEW z \in Sums(zone), z.mpBase = zone.mpBase,
           NEW b \in Addr, Granted(z, b), disturbed' \in BOOLEAN, UNCHANGED <<purged, callsLeft>>
    PROVE  ZoneInv' /\ ClientInv' /\ HolderInv'
<1> DEFINE n == request.size
           need == request.need
           mp == request.mp
           placed == HandlePlaced(z, b, need, n, mp)
<1>1. /\ zone \in Zones /\ z \in Zones /\ b \in Nat /\ need \in Nat
      /\ callsLeft' \in 0 .. CallsAfter
  BY SumsCompose, ConstantsType DEF MemoryInv, ZoneInv, RequestInv, ClientInv
<1>2. CASE request.op = "ptr"
  <2>1. /\ n \in PtrSizes /\ n \in Nat
        /\ zone' = PtrPlaced(z, b, need, n) /\ ptrs' = ptrs \cup {[at |-> b, size |-> n]}
        /\ UNCHANGED <<holders, stored, locks>>
    BY <1>2, SizesType DEF MemoryInv, RequestInv, Granted
  <2> HIDE DEF n, need
  <2>2. zone' \in Sums(z) /\ zone'.mpBase = z.mpBase
    BY <1>1, <2>1, PtrPlacedType
  <2>3. zone' \in Sums(zone) /\ zone'.mpBase = zone.mpBase
    BY <1>1, <2>2, SumsCompose
  <2>4. ClientInv'
    BY <1>1, <2>1 DEF MemoryInv, ClientInv
  <2> QED
    BY <2>1, <2>3, <2>4, SumsKept, HoldersKept
<1>3. CASE request.op = "handle"
  <2>1. /\ n \in HandleSizes /\ n \in Nat /\ Spare(mp) /\ mp \in Masters /\ holders[mp] < MaxHolders
        /\ zone' = placed /\ GivenTo(mp, n) /\ ptrs' = ptrs
    BY <1>3, SizesType DEF MemoryInv, RequestInv, Granted, Spare
  <2> HIDE DEF n, need, mp
  <2>2. /\ placed \in Sums(zone)
        /\ \A i \in Masters : placed.mpBase[i] = IF i = mp THEN b ELSE zone.mpBase[i]
    BY <1>1, <2>1, PlacedIn
  <2> HIDE DEF placed
  <2>3. zone'.mpBase[mp] # Null /\ \A i \in Masters \ {mp} : zone'.mpBase[i] = zone.mpBase[i]
    BY <1>1, <2>1, <2>2, ConstantsType
  <2>4. HolderInv' /\ ClientInv'
    BY <1>1, <2>1, <2>3, GivenStep DEF MemoryInv, ClientInv
  <2> QED
    BY <2>1, <2>2, <2>4, SumsKept
<1>4. CASE request.op = "resize"
  <2> DEFINE h == request.h
  <2>1. /\ n \in Resizes /\ n \in Nat /\ Spare(mp) /\ mp \in Masters /\ h \in Masters
        /\ zone' = Resized(placed, h, request.old, request.oldSize, n, mp)
        /\ stored' = [stored EXCEPT ![h] = Least(stored[h], n)]
        /\ UNCHANGED <<ptrs, holders, locks>>
    BY <1>4, SizesType DEF MemoryInv, RequestInv, Granted, Spare
  <2> HIDE DEF n, need, mp, h
  <2>2. /\ placed \in Sums(zone)
        /\ \A i \in Masters : placed.mpBase[i] = IF i = mp THEN b ELSE zone.mpBase[i]
    BY <1>1, <2>1, PlacedIn
  <2> HIDE DEF placed
  <2> QED
    BY <1>1, <2>1, <2>2, ResizeStep
<1> QED
  BY <1>2, <1>3, <1>4 DEF MemoryInv, RequestInv

LEMMA CompactEndsStep ==
    ASSUME MemoryInv, CompactEnds
    PROVE  MemoryInv'
<1> DEFINE tailed == TailZone
           seen == AfterMaxMem(tailed)
           fit == FindFit(seen, request.need)
           tooSmall == MaxMem(tailed) < request.need
<1>1. /\ pc # "idle" /\ zone \in Zones /\ request.need \in Nat
      /\ \/ Refused(IF tooSmall THEN seen ELSE fit.zone)
         \/ fit.found # Null /\ Granted(fit.zone, fit.found)
      /\ pc' = "idle" /\ walk' = NoWalk /\ request' = NoRequest
      /\ UNCHANGED <<purged, callsLeft>>
  BY DEF CompactEnds, MemoryInv, ZoneInv, RequestInv
<1>2. disturbed' \in BOOLEAN
  BY DEF CompactEnds, MemoryInv, ClientInv, TailDisturbs
<1>3. WalkInv' /\ RequestInv'
  BY <1>1, ConstantsType DEF WalkInv, RequestInv, NoWalk
<1>4. tailed \in Sums(zone) /\ tailed \in Zones /\ tailed.mpBase = zone.mpBase
  BY <1>1, TailZoneType, SumsCompose
<1> HIDE DEF tailed
<1>5. seen \in Sums(zone) /\ seen \in Zones /\ seen.mpBase = zone.mpBase
  <2>1. seen \in Rewrites(tailed)
    BY <1>4, DropType
  <2> HIDE DEF seen
  <2> QED
    BY <1>1, <1>4, <2>1, SumsCompose
<1> HIDE DEF seen
<1>6. /\ fit.zone \in Sums(zone) /\ fit.zone.mpBase = zone.mpBase
      /\ fit.found # Null => fit.found \in Addr
  <2>1. /\ fit.zone \in Sums(seen) /\ fit.zone.mpBase = seen.mpBase
        /\ fit.found # Null => fit.found \in Addr
    BY <1>1, <1>5, FoundFit
  <2> HIDE DEF fit
  <2> QED
    BY <1>1, <1>5, <2>1, SumsCompose
<1> HIDE DEF fit, tooSmall
<1>7. ZoneInv' /\ ClientInv' /\ HolderInv'
  BY <1>1, <1>2, <1>5, <1>6, RefusedStep, GrantedStep
<1> QED
  BY <1>3, <1>7 DEF MemoryInv

-----------------------------------------------------------------------------
(* The theorems.                                                            *)

LEMMA MemoryInit == Init => MemoryInv
<1> SUFFICES ASSUME Init PROVE MemoryInv
  OBVIOUS
<1> DEFINE empty == [mem |-> [a \in Addr |-> [lo |-> Zero, hi |-> Zero]],
                     freelists |-> [c \in Classes |-> Null],
                     mpBase |-> [i \in Masters |-> Null],
                     bytesUsed |-> 0, bytesFree |-> ZoneSize]
           made == FreeHeader(empty, 0, ZoneSize, 0)
<1>1. empty \in Zones /\ empty.bytesUsed + empty.bytesFree = ZoneSize
  BY WordKinds, ConstantsType DEF Zones, Cells
<1> HIDE DEF empty
<1>2. made \in Rewrites(empty) /\ made \in Zones
  BY <1>1, FreeHeaderType, RewritesCompose, ConstantsType
<1> HIDE DEF made
<1>3. FreelistInsert(made, 0) \in Rewrites(empty)
  BY <1>1, <1>2, FreelistInsertType, RewritesCompose
<1>4. zone \in Rewrites(empty)
  BY <1>3 DEF Init, InitZone, made, empty
<1>5. ZoneInv
  BY <1>1, <1>4 DEF ZoneInv, Rewrites
<1>6. ClientInv /\ HolderInv
  <2>1. /\ 0 \in 0 .. MaxHolders /\ 0 \in 0 .. MaxLocks /\ CallsAfter \in 0 .. CallsAfter
        /\ 0 \in HandleSizes \cup Resizes \cup {0}
    BY MemoryAssumption
  <2>2. /\ ptrs = {} /\ holders = [h \in Masters |-> 0] /\ stored = [h \in Masters |-> 0]
        /\ locks = [h \in Masters |-> 0] /\ purged = {} /\ disturbed = FALSE
        /\ callsLeft = CallsAfter
    BY DEF Init
  <2>3. ClientInv
    BY <2>1, <2>2 DEF ClientInv
  <2>4. HolderInv
    BY <2>2 DEF HolderInv
  <2> QED
    BY <2>3, <2>4
<1>7. WalkInv /\ RequestInv
  BY ConstantsType DEF Init, WalkInv, RequestInv, NoWalk
<1> QED
  BY <1>5, <1>6, <1>7 DEF MemoryInv

LEMMA MemoryStep == MemoryInv /\ [Next]_vars => MemoryInv'
<1> SUFFICES ASSUME MemoryInv, [Next]_vars PROVE MemoryInv'
  OBVIOUS
<1>1. CASE UNCHANGED vars
  <2>1. UNCHANGED <<zone, pc, walk, request, ptrs, holders, stored, locks,
                    purged, disturbed, callsLeft>>
    BY <1>1 DEF vars, walkVars, clientVars
  <2> QED
    BY <2>1 DEF MemoryInv, ZoneInv, ClientInv, WalkInv, RequestInv, HolderInv, Spare
<1>2. ASSUME NEW n \in PtrSizes, NewPtr(n) PROVE MemoryInv'
  BY <1>2, NewPtrStep
<1>3. ASSUME NEW p \in ptrs, DisposePtr(p) PROVE MemoryInv'
  BY <1>3, DisposePtrStep
<1>4. ASSUME NEW n \in HandleSizes, NewHandle(n) PROVE MemoryInv'
  BY <1>4, NewHandleStep
<1>5. ASSUME NEW h \in Masters, DisposeHandle(h) PROVE MemoryInv'
  BY <1>5, DisposeHandleStep
<1>6. ASSUME NEW h \in Masters, HLock(h) \/ HUnlock(h) \/ HPurge(h) \/ HNoPurge(h) PROVE MemoryInv'
  BY <1>6, FlagStep
<1>7. ASSUME NEW h \in Masters, NEW n \in Resizes, SetHandleSize(h, n) PROVE MemoryInv'
  BY <1>7, SetHandleSizeStep
<1>8. ASSUME NEW h \in Masters, NEW n \in Resizes, ShrinkInPlace(h, n) PROVE MemoryInv'
  BY <1>8, ShrinkInPlaceStep
<1>9. CASE Walk
  BY <1>9, PurgePassesStep, PurgeFreesStep, PurgeEndsStep, CompactPassesStep,
     CompactMovesStep, CompactLeavesStep, CompactEndsStep DEF Walk
<1> QED
  BY <1>1, <1>2, <1>3, <1>4, <1>5, <1>6, <1>7, <1>8, <1>9 DEF Next, Clients

\* MemoryInv holds in every state.
THEOREM MemoryCorrect == Spec => []MemoryInv
BY MemoryInit, MemoryStep, PTL DEF Spec

\* No call and no turn of a walk, on a heap compaction has damaged either, leaves
\* a list head, a master pointer, a counter or a word of the zone outside its
\* type; bytesUsed and bytesFree add up to the zone (NewPtr, DisposePtr and the
\* rest of MemoryManager.c that counts).
THEOREM MemoryTypeCorrect == Spec => []TypeOK
<1>1. MemoryInv => TypeOK
  BY MemoryInvImplies
<1> QED
  BY <1>1, MemoryCorrect, PTL

\* MP_Alloc hands a master pointer to a second client only after PurgeMem has taken
\* its block from the first.
THEOREM HandleHasOneHolder == Spec => []OneHolder
<1>1. MemoryInv => OneHolder
  BY MemoryInvImplies
<1> QED
  BY <1>1, MemoryCorrect, PTL

\* The loops of PurgeMem and CompactMem end, whatever sizes they read.
THEOREM WalksEnd == Spec => []WalkEnds
<1>1. MemoryInv => WalkEnds
  BY MemoryInvImplies
<1> QED
  BY <1>1, MemoryCorrect, PTL

-----------------------------------------------------------------------------
(* What handing out and taking back a block does to a sound heap.           *)

Pointed(z, i, x) == [z EXCEPT !.mpBase[i] = x]

\* A master pointer set to a block.
LEMMA PointedIs ==
    ASSUME NEW z \in Zones, NEW i \in Masters, NEW x \in Nat \cup {Null, Reserved}
    PROVE  LET y == Pointed(z, i, x) IN
           /\ y \in Zones /\ SameHeap(z, y)
           /\ y.bytesUsed = z.bytesUsed
           /\ \A k \in Masters : y.mpBase[k] = IF k = i THEN x ELSE z.mpBase[k]
<1>1. z.mpBase \in [Masters -> Nat \cup {Null, Reserved}]
  BY DEF Zones
<1> QED
  BY <1>1 DEF Pointed, Zones, SameHeap

\* A master pointer set to NULL.
LEMMA ClearedIs ==
    ASSUME NEW z \in Zones, NEW i \in Masters
    PROVE  LET y == Pointed(z, i, Null) IN
           /\ y \in Zones /\ SameHeap(z, y)
           /\ y.bytesUsed = z.bytesUsed
           /\ \A k \in Masters : y.mpBase[k] = IF k = i THEN Null ELSE z.mpBase[k]
<1>1. Null \in Nat \cup {Null, Reserved}
  OBVIOUS
<1> QED
  BY <1>1, PointedIs

\* A master pointer reserved.
LEMMA ReservedIs ==
    ASSUME NEW z \in Zones, NEW i \in Masters
    PROVE  LET y == Pointed(z, i, Reserved) IN
           /\ y \in Zones /\ SameHeap(z, y)
           /\ y.bytesUsed = z.bytesUsed
           /\ \A k \in Masters : y.mpBase[k] = IF k = i THEN Reserved ELSE z.mpBase[k]
<1>1. Reserved \in Nat \cup {Null, Reserved}
  OBVIOUS
<1> QED
  BY <1>1, PointedIs

\* Counting changes the counters alone.
LEMMA AccountIs ==
    ASSUME NEW z \in Zones, NEW n \in Int
    PROVE  LET y == Account(z, n) IN
           /\ y \in Zones /\ SameHeap(z, y) /\ y.mpBase = z.mpBase
           /\ y.bytesUsed = z.bytesUsed + n
<1>1. z.bytesUsed \in Int /\ z.bytesFree \in Int
  BY DEF Zones
<1>2. z.bytesUsed + n \in Int /\ z.bytesFree - n \in Int
  BY <1>1
<1>3. /\ Account(z, n) \in Zones /\ Account(z, n).mpBase = z.mpBase
      /\ Account(z, n).bytesUsed = z.bytesUsed + n
  BY <1>2 DEF Account, Zones
<1>4. Account(z, n).mem = z.mem /\ Account(z, n).freelists = z.freelists
  BY DEF Account, Zones
<1> QED
  BY <1>3, <1>4 DEF SameHeap

\* A sound heap whose counter is right.
Heap(z, B) == Sound(z, B) /\ Counted(z, UsedOf(z, B))

\* In a sound heap, a block has room for a header, and lies below the limit.
LEMMA BlockPlace ==
    ASSUME NEW z \in Zones, NEW B, Sound(z, B), NEW b \in B
    PROVE  /\ b \in Nat /\ b \in Addr /\ b + 1 \in Addr
           /\ Size(z, b) \in Nat /\ Size(z, b) >= 3 /\ b + Size(z, b) <= ZoneSize
<1>1. Tiles(z, B)
  BY DEF Sound
<1>2. Spaced(B) /\ b \in Nat /\ Size(z, b) \in Nat /\ Size(z, b) >= 3 /\ b + Size(z, b) <= ZoneSize
  BY <1>1, TilesFit
<1> QED
  BY <1>2, SpacedCells

\* NewPtr makes a sound zone of a sound one, with one block more in use.
LEMMA PtrPlacedSound ==
    ASSUME NEW z \in Zones, NEW B, Heap(z, B), NEW b \in FreeOf(z, B),
           NEW n \in Nat, n + 3 <= Size(z, b)
    PROVE  LET y == PtrPlaced(z, b, n + 3, n) IN
           /\ y \in Zones /\ y.mpBase = z.mpBase
           /\ \E B2 : Heap(y, B2) /\ UsedOf(y, B2) = UsedOf(z, B) \cup {b}
           /\ \A d \in UsedOf(z, B) : Kept(z, y, d)
           /\ Flags(y, b) = {"PTR"} /\ n + 3 <= Size(y, b)
           /\ HoldsIn(y, b + 2, n, Data(Null))
<1> DEFINE need == n + 3
           split == SplitBlock(z, b, need)
           size == Size(split, b)
           flagged == SetFlags(split, b, Flags(split, b) \cup {"PTR"})
           marked == SetMaster(flagged, b, Null)
           counted == Account(marked, size)
           canaried == SetLockCount(counted, b, CanarySize)
           framed == Fill(canaried, b + 2 + n, size - 2 - n, Canary)
           y == Fill(framed, b + 2, n, Data(Null))
<1>0. PtrPlaced(z, b, n + 3, n) = y
  BY DEF PtrPlaced, HeaderSize
<1>1. /\ split \in Rewrites(z) /\ split \in Zones
      /\ \E B2 : /\ Sound(split, B2) /\ b \in B2
                 /\ UsedOf(split, B2) = UsedOf(z, B) \cup {b}
      /\ Size(split, b) >= need /\ Flags(split, b) = {}
      /\ \A d \in UsedOf(z, B) : Kept(z, split, d)
  <2>1. Sound(z, B) /\ need \in Nat /\ need >= 3 /\ need <= Size(z, b)
    BY DEF Heap
  <2> HIDE DEF need
  <2> QED
    BY <2>1, SplitSound
<1> HIDE DEF split
<1>2. PICK B2 : /\ Sound(split, B2) /\ b \in B2
                /\ UsedOf(split, B2) = UsedOf(z, B) \cup {b}
  BY <1>1
<1>3. /\ b \in Nat /\ b \in Addr /\ b + 1 \in Addr
      /\ size \in Nat /\ b + size <= ZoneSize /\ size - 2 - n \in Nat /\ n + 3 <= size
  BY <1>1, <1>2, BlockPlace
<1>4. /\ Inside(split, flagged, b) /\ Flags(flagged, b) = {"PTR"}
      /\ flagged \in Rewrites(split) /\ flagged \in Zones
  <2>1. Flags(split, b) \cup {"PTR"} = {"PTR"} /\ {"PTR"} \in SUBSET FlagNames
    BY <1>1 DEF FlagNames
  <2>2. flagged = SetFlags(split, b, {"PTR"})
    BY <2>1
  <2> HIDE DEF flagged
  <2> QED
    BY <1>1, <1>3, <2>1, <2>2, HeaderInside, SetType, RewritesCompose
<1> HIDE DEF flagged
<1>5. /\ Inside(flagged, marked, b) /\ Flags(marked, b) = {"PTR"}
      /\ marked \in Rewrites(flagged) /\ marked \in Zones
  BY <1>3, <1>4, HeaderInside, SetType, RewritesCompose
<1> HIDE DEF marked
<1>6. /\ counted \in Zones /\ SameHeap(marked, counted) /\ counted.mpBase = marked.mpBase
      /\ counted.bytesUsed = marked.bytesUsed + size
      /\ Inside(marked, counted, b) /\ Flags(counted, b) = {"PTR"}
  <2>1. /\ counted \in Zones /\ SameHeap(marked, counted) /\ counted.mpBase = marked.mpBase
        /\ counted.bytesUsed = marked.bytesUsed + size
    <3>1. size \in Int
      BY <1>3
    <3> HIDE DEF size
    <3> QED
      BY <1>5, <3>1, AccountIs
  <2> HIDE DEF counted
  <2>2. Inside(marked, counted, b) /\ \A a : Cell(counted, a) = Cell(marked, a)
    BY <2>1, SameHeapInside
  <2> QED
    BY <1>5, <2>1, <2>2 DEF Flags
<1> HIDE DEF counted
<1>7. /\ Inside(counted, canaried, b) /\ Flags(canaried, b) = {"PTR"}
      /\ canaried \in Rewrites(counted) /\ canaried \in Zones
  <2>1. CanarySize \in Nat
    BY DEF CanarySize
  <2> QED
    BY <1>3, <1>6, <2>1, HeaderInside, SetType, RewritesCompose
<1> HIDE DEF canaried
<1>8. Inside(split, canaried, b) /\ Size(canaried, b) = size
  BY <1>1, <1>3, <1>4, <1>5, <1>6, <1>7, InsideCompose
<1>9. /\ Inside(canaried, framed, b) /\ framed \in Zones /\ framed \in Rewrites(canaried)
      /\ \A a : a \notin b + 2 + n .. b + 2 + n + (size - 2 - n) - 1 => Cell(framed, a) = Cell(canaried, a)
  <2> DEFINE from == b + 2 + n
             count == size - 2 - n
  <2>1. /\ from \in Nat /\ count \in Nat /\ from >= b + 2 /\ from + count <= b + Size(canaried, b)
        /\ b + Size(canaried, b) <= ZoneSize /\ Canary \in Word
    BY <1>3, <1>8, WordKinds
  <2> HIDE DEF from, count
  <2>2. /\ Inside(canaried, Fill(canaried, from, count, Canary), b)
        /\ \A a : a \notin from .. from + count - 1 =>
              Cell(Fill(canaried, from, count, Canary), a) = Cell(canaried, a)
    BY <1>3, <1>7, <2>1, FillInside
  <2>3. Fill(canaried, from, count, Canary) \in Rewrites(canaried)
    BY <1>7, <2>1, FillType
  <2> QED
    BY <1>7, <2>2, <2>3, RewritesCompose DEF from, count
<1> HIDE DEF framed
<1>10. /\ Inside(framed, y, b) /\ y \in Zones /\ y \in Rewrites(framed)
       /\ HoldsIn(y, b + 2, n, Data(Null))
       /\ \A a : a \notin b + 2 .. b + 2 + n - 1 => Cell(y, a) = Cell(framed, a)
  <2> DEFINE from == b + 2
  <2>1. Size(framed, b) = size
    BY <1>3, <1>7, <1>8, <1>9, InsideCompose
  <2>2. /\ from \in Nat /\ from >= b + 2 /\ from + n <= b + Size(framed, b)
        /\ b + Size(framed, b) <= ZoneSize /\ Data(Null) \in Word
    BY <1>3, <2>1, WordKinds
  <2> HIDE DEF from
  <2>3. /\ Inside(framed, Fill(framed, from, n, Data(Null)), b)
        /\ HoldsIn(Fill(framed, from, n, Data(Null)), from, n, Data(Null))
        /\ \A a : a \notin from .. from + n - 1 =>
              Cell(Fill(framed, from, n, Data(Null)), a) = Cell(framed, a)
    BY <1>3, <1>9, <2>2, FillInside
  <2>4. Fill(framed, from, n, Data(Null)) \in Rewrites(framed)
    BY <1>9, <2>2, FillType
  <2> QED
    BY <1>9, <2>3, <2>4, RewritesCompose DEF from
<1> HIDE DEF y
<1>11. Inside(split, y, b) /\ Size(y, b) = size
  BY <1>1, <1>3, <1>8, <1>9, <1>10, InsideCompose
<1>12. Flags(y, b) = {"PTR"}
  <2>1. /\ b \notin b + 2 .. b + 2 + n - 1
        /\ b \notin b + 2 + n .. b + 2 + n + (size - 2 - n) - 1
    BY <1>3
  <2>2. Cell(y, b) = Cell(canaried, b)
    BY <1>9, <1>10, <2>1
  <2> QED
    BY <1>7, <2>2 DEF Flags
<1>13. /\ Sound(y, B2) /\ UsedOf(y, B2) = UsedOf(z, B) \cup {b}
       /\ \A d \in UsedOf(split, B2) \ {b} : Kept(split, y, d)
  <2>1. b \in UsedOf(split, B2) /\ "FREE" \notin Flags(y, b)
    BY <1>2, <1>12
  <2> QED
    BY <1>1, <1>2, <1>11, <2>1, InsideSound
<1>14. b \notin UsedOf(z, B)
  BY DEF UsedOf
<1>15. ASSUME NEW d \in UsedOf(z, B) PROVE Kept(z, y, d)
  <2>1. Kept(z, split, d) /\ Kept(split, y, d)
    BY <1>1, <1>2, <1>13, <1>14
  <2> QED
    BY <1>1, <2>1, KeptCompose
<1>16. y.mpBase = z.mpBase /\ y.bytesUsed = z.bytesUsed + size
  BY <1>1, <1>4, <1>5, <1>6, <1>7, <1>9, <1>10 DEF Rewrites
<1>17. Counted(y, UsedOf(y, B2))
  <2>1. Tiles(y, B2) /\ UsedOf(z, B) \subseteq B2 /\ Counted(z, UsedOf(z, B))
    BY <1>13 DEF Sound, UsedOf, Heap
  <2>2. \A d \in UsedOf(z, B) : Size(y, d) = Size(z, d)
    BY <1>15, KeptReads
  <2>3. y.bytesUsed = z.bytesUsed + Size(y, b)
    BY <1>11, <1>16
  <2> HIDE DEF size
  <2>4. Counted(y, UsedOf(z, B) \cup {b})
    BY <1>2, <1>10, <1>14, <2>1, <2>2, <2>3, CountedMore
  <2> QED
    BY <1>13, <2>4
<1>18. \E C : Heap(y, C) /\ UsedOf(y, C) = UsedOf(z, B) \cup {b}
  BY <1>13, <1>17 DEF Heap
<1> QED
  BY <1>0, <1>3, <1>10, <1>11, <1>12, <1>15, <1>16, <1>18

\* A block that is taken from the free ones, and then written inside only, is in
\* use, and the rest of the heap is as it was.
LEMMA PlacedSound ==
    ASSUME NEW z \in Zones, NEW B, Heap(z, B), NEW b \in FreeOf(z, B),
           NEW need \in Nat, need >= 3, need <= Size(z, b),
           NEW y, Inside(SplitBlock(z, b, need), y, b), "FREE" \notin Flags(y, b),
           y.bytesUsed = z.bytesUsed + Size(SplitBlock(z, b, need), b)
    PROVE  /\ \E B2 : Heap(y, B2) /\ UsedOf(y, B2) = UsedOf(z, B) \cup {b}
           /\ \A d \in UsedOf(z, B) : Kept(z, y, d)
           /\ Size(y, b) = Size(SplitBlock(z, b, need), b) /\ b \notin UsedOf(z, B)
<1> DEFINE split == SplitBlock(z, b, need)
<1>1. /\ split \in Rewrites(z) /\ split \in Zones
      /\ \E B2 : /\ Sound(split, B2) /\ b \in B2
                 /\ UsedOf(split, B2) = UsedOf(z, B) \cup {b}
      /\ Size(split, b) >= need /\ Flags(split, b) = {}
      /\ \A d \in UsedOf(z, B) : Kept(z, split, d)
  BY SplitSound DEF Heap
<1>2. Inside(split, y, b) /\ y.bytesUsed = z.bytesUsed + Size(split, b)
  OBVIOUS
<1> HIDE DEF split
<1>3. PICK B2 : /\ Sound(split, B2) /\ b \in B2
                /\ UsedOf(split, B2) = UsedOf(z, B) \cup {b}
  BY <1>1
<1>4. b \in Nat
  BY <1>1, <1>3, BlockPlace
<1>5. y \in Zones /\ Size(y, b) = Size(split, b)
  BY <1>1, <1>2, <1>4, InsideCompose
<1>6. b \in UsedOf(split, B2) /\ b \notin UsedOf(z, B)
  BY <1>3 DEF UsedOf
<1>7. /\ Sound(y, B2) /\ UsedOf(y, B2) = UsedOf(z, B) \cup {b}
      /\ \A d \in UsedOf(split, B2) \ {b} : Kept(split, y, d)
  BY <1>1, <1>2, <1>3, <1>6, InsideSound
<1>8. ASSUME NEW d \in UsedOf(z, B) PROVE Kept(z, y, d)
  <2>1. Kept(z, split, d) /\ Kept(split, y, d)
    BY <1>1, <1>3, <1>6, <1>7
  <2> QED
    BY <1>1, <2>1, KeptCompose
<1>9. Counted(y, UsedOf(y, B2))
  <2>1. Tiles(y, B2) /\ UsedOf(z, B) \subseteq B2 /\ Counted(z, UsedOf(z, B))
    BY <1>7 DEF Sound, UsedOf, Heap
  <2>2. \A d \in UsedOf(z, B) : Size(y, d) = Size(z, d)
    BY <1>8, KeptReads
  <2>3. y.bytesUsed = z.bytesUsed + Size(y, b)
    BY <1>2, <1>5
  <2>4. Counted(y, UsedOf(z, B) \cup {b})
    BY <1>3, <1>5, <1>6, <2>1, <2>2, <2>3, CountedMore
  <2> QED
    BY <1>7, <2>4
<1>10. \E C : Heap(y, C) /\ UsedOf(y, C) = UsedOf(z, B) \cup {b}
  BY <1>7, <1>9 DEF Heap
<1> QED
  BY <1>5, <1>6, <1>8, <1>10 DEF split

\* NewHandle does, and points its master pointer and the block at one another.
LEMMA HandlePlacedSound ==
    ASSUME NEW z \in Zones, NEW B, Heap(z, B), NEW b \in FreeOf(z, B),
           NEW n \in Nat, NEW need \in Nat, need >= 3, n + 2 <= need, need <= Size(z, b),
           NEW mp \in Masters
    PROVE  LET y == HandlePlaced(z, b, need, n, mp) IN
           /\ y \in Zones /\ \A k \in Masters : y.mpBase[k] = IF k = mp THEN b ELSE z.mpBase[k]
           /\ \E B2 : Heap(y, B2) /\ UsedOf(y, B2) = UsedOf(z, B) \cup {b}
           /\ b \notin UsedOf(z, B) /\ \A d \in UsedOf(z, B) : Kept(z, y, d)
           /\ Flags(y, b) = {"HANDLE"} /\ MasterPtr(y, b) = mp /\ n + 2 <= Size(y, b)
           /\ HoldsIn(y, b + 2, n, Data(mp))
<1> DEFINE split == SplitBlock(z, b, need)
           size == Size(split, b)
           flagged == SetFlags(split, b, Flags(split, b) \cup {"HANDLE"})
           marked == SetMaster(flagged, b, mp)
           counted == Account(marked, size)
           pointed == Pointed(counted, mp, b)
           y == Fill(pointed, b + 2, n, Data(mp))
<1>0. HandlePlaced(z, b, need, n, mp) = y
  BY DEF HandlePlaced, HeaderSize, Pointed
<1>1. /\ split \in Rewrites(z) /\ split \in Zones
      /\ \E B2 : /\ Sound(split, B2) /\ b \in B2
                 /\ UsedOf(split, B2) = UsedOf(z, B) \cup {b}
      /\ size >= need /\ Flags(split, b) = {}
  BY SplitSound DEF Heap
<1>2. split = SplitBlock(z, b, need)
  OBVIOUS
<1> HIDE DEF split
<1>3. /\ b \in Nat /\ b \in Addr /\ b + 1 \in Addr
      /\ size \in Nat /\ b + size <= ZoneSize /\ n + 2 <= size
  <2>1. /\ b \in Nat /\ b \in Addr /\ b + 1 \in Addr /\ size \in Nat /\ b + size <= ZoneSize
    BY <1>1, BlockPlace
  <2> QED
    BY <1>1, <2>1
<1>4. /\ Inside(split, flagged, b) /\ Flags(flagged, b) = {"HANDLE"}
      /\ flagged \in Rewrites(split) /\ flagged \in Zones
  <2>1. Flags(split, b) \cup {"HANDLE"} = {"HANDLE"} /\ {"HANDLE"} \in SUBSET FlagNames
    BY <1>1 DEF FlagNames
  <2>2. flagged = SetFlags(split, b, {"HANDLE"})
    BY <2>1
  <2> HIDE DEF flagged
  <2> QED
    BY <1>1, <1>3, <2>1, <2>2, HeaderInside, SetType, RewritesCompose
<1> HIDE DEF flagged
<1>5. /\ Inside(flagged, marked, b) /\ Flags(marked, b) = {"HANDLE"} /\ MasterPtr(marked, b) = mp
      /\ marked \in Rewrites(flagged) /\ marked \in Zones
  <2>1. mp \in Masters \cup {Null}
    OBVIOUS
  <2>2. LET w == SetMaster(flagged, b, mp) IN
        Inside(flagged, w, b) /\ Flags(w, b) = Flags(flagged, b) /\ MasterPtr(w, b) = mp
    BY <1>3, <1>4, <2>1, HeaderInside
  <2> QED
    BY <1>4, <2>2, SetType, RewritesCompose
<1> HIDE DEF marked
<1>6. /\ counted \in Zones /\ SameHeap(marked, counted) /\ counted.mpBase = marked.mpBase
      /\ counted.bytesUsed = marked.bytesUsed + size
  <2>1. size \in Int
    BY <1>3
  <2> HIDE DEF size
  <2> QED
    BY <1>5, <2>1, AccountIs
<1> HIDE DEF counted
<1>7. /\ pointed \in Zones /\ SameHeap(counted, pointed) /\ pointed.bytesUsed = counted.bytesUsed
      /\ \A k \in Masters : pointed.mpBase[k] = IF k = mp THEN b ELSE counted.mpBase[k]
  <2>1. b \in Nat \cup {Null, Reserved}
    BY <1>3
  <2>2. LET w == Pointed(counted, mp, b) IN
        /\ w \in Zones /\ SameHeap(counted, w) /\ w.bytesUsed = counted.bytesUsed
        /\ \A k \in Masters : w.mpBase[k] = IF k = mp THEN b ELSE counted.mpBase[k]
    BY <1>6, <2>1, PointedIs
  <2> QED
    BY <2>2
<1> HIDE DEF pointed
<1>8. /\ Inside(marked, pointed, b) /\ \A a : Cell(pointed, a) = Cell(marked, a)
  <2>1. SameHeap(marked, pointed)
    BY <1>6, <1>7 DEF SameHeap
  <2> QED
    BY <2>1, SameHeapInside
<1>9. Inside(split, pointed, b) /\ Size(pointed, b) = size
  BY <1>1, <1>3, <1>4, <1>5, <1>8, InsideCompose
<1>10. /\ Inside(pointed, y, b) /\ y \in Zones /\ y \in Rewrites(pointed)
       /\ HoldsIn(y, b + 2, n, Data(mp))
       /\ \A a : a \notin b + 2 .. b + 2 + n - 1 => Cell(y, a) = Cell(pointed, a)
  <2> DEFINE from == b + 2
  <2>1. /\ from \in Nat /\ from >= b + 2 /\ from + n <= b + Size(pointed, b)
        /\ b + Size(pointed, b) <= ZoneSize /\ Data(mp) \in Word
    BY <1>3, <1>9, WordKinds
  <2> HIDE DEF from
  <2>2. /\ Inside(pointed, Fill(pointed, from, n, Data(mp)), b)
        /\ HoldsIn(Fill(pointed, from, n, Data(mp)), from, n, Data(mp))
        /\ \A a : a \notin from .. from + n - 1 =>
              Cell(Fill(pointed, from, n, Data(mp)), a) = Cell(pointed, a)
    BY <1>3, <1>7, <2>1, FillInside
  <2>3. Fill(pointed, from, n, Data(mp)) \in Rewrites(pointed)
    BY <1>7, <2>1, FillType
  <2> QED
    BY <1>7, <2>2, <2>3, RewritesCompose DEF from
<1> HIDE DEF y
<1>11. Inside(split, y, b) /\ Size(y, b) = size
  BY <1>1, <1>3, <1>9, <1>10, InsideCompose
<1>12. Flags(y, b) = {"HANDLE"} /\ MasterPtr(y, b) = mp
  <2>1. b \notin b + 2 .. b + 2 + n - 1 /\ b + 1 \notin b + 2 .. b + 2 + n - 1
    BY <1>3
  <2>2. Cell(y, b) = Cell(marked, b) /\ Cell(y, b + 1) = Cell(marked, b + 1)
    BY <1>8, <1>10, <2>1
  <2> QED
    BY <1>5, <2>2 DEF Flags, MasterPtr
<1>13. /\ y.bytesUsed = z.bytesUsed + size
       /\ \A k \in Masters : y.mpBase[k] = IF k = mp THEN b ELSE z.mpBase[k]
  BY <1>1, <1>4, <1>5, <1>6, <1>7, <1>10 DEF Rewrites
<1>14. /\ \E B2 : Heap(y, B2) /\ UsedOf(y, B2) = UsedOf(z, B) \cup {b}
       /\ \A d \in UsedOf(z, B) : Kept(z, y, d)
       /\ b \notin UsedOf(z, B)
  <2>1. "FREE" \notin Flags(y, b)
    BY <1>12
  <2>2. Inside(SplitBlock(z, b, need), y, b)
        /\ y.bytesUsed = z.bytesUsed + Size(SplitBlock(z, b, need), b)
    BY <1>2, <1>11, <1>13
  <2> HIDE DEF size
  <2> QED
    BY <2>1, <2>2, PlacedSound
<1> QED
  BY <1>0, <1>3, <1>10, <1>11, <1>12, <1>13, <1>14

\* A block in use that is given back is no longer in use, the rest of the heap is
\* as it was, and all the code's checks on the way succeed.
LEMMA ReleasedSound ==
    ASSUME NEW z \in Zones, NEW B, Heap(z, B), NEW b \in UsedOf(z, B),
           NEW y, Inside(z, y, b), y.bytesUsed = z.bytesUsed + (0 - Size(z, b))
    PROVE  LET forward == CoalesceForward(y, b)
               merged == CoalesceBackward(forward, b)
               at == Start(forward, b)
               w == Returned(y, b) IN
           /\ ValidateFreelist(z) /\ ValidateBlock(z, b)
           /\ ValidateBlock(forward, b) /\ ValidateBlock(merged, at)
           /\ ValidateFreelist(merged) /\ ValidateFreelist(w)
           /\ w \in Rewrites(y) /\ w \in Zones
           /\ \E B2 : Heap(w, B2) /\ at \in B2 /\ UsedOf(w, B2) = UsedOf(z, B) \ {b}
           /\ \A d \in UsedOf(z, B) \ {b} : Kept(z, w, d)
<1> DEFINE forward == CoalesceForward(y, b)
           merged == CoalesceBackward(forward, b)
           at == Start(forward, b)
           w == Returned(y, b)
<1>1. /\ Sound(z, B) /\ Counted(z, UsedOf(z, B)) /\ Tiles(z, B) /\ b \in B
      /\ UsedOf(z, B) \subseteq B
  BY DEF Heap, Sound, UsedOf
<1>2. y \in Zones
  BY DEF Inside
<1>3. Loose(y, B, FreeOf(z, B), b) /\ \A d \in UsedOf(z, B) \ {b} : Kept(z, y, d)
  BY <1>1, InsideSound
<1>4. /\ ValidateBlock(forward, b) /\ ValidateBlock(merged, at)
      /\ ValidateFreelist(merged) /\ ValidateFreelist(w)
      /\ w \in Rewrites(y) /\ w \in Zones
      /\ \E B2 : /\ Sound(w, B2) /\ at \in B2 /\ UsedOf(w, B2) = (B \ FreeOf(z, B)) \ {b}
      /\ \A d \in (B \ FreeOf(z, B)) \ {b} : Kept(y, w, d)
  BY <1>2, <1>3, ReturnedSound
<1> HIDE DEF forward, merged, at, w
<1>5. ValidateFreelist(z) /\ ValidateBlock(z, b)
  BY <1>1, SoundIsValid
<1>6. PICK B2 : Sound(w, B2) /\ at \in B2 /\ UsedOf(w, B2) = UsedOf(z, B) \ {b}
  BY <1>4 DEF UsedOf
<1>7. ASSUME NEW d \in UsedOf(z, B) \ {b} PROVE Kept(z, w, d)
  <2>1. Kept(z, y, d) /\ Kept(y, w, d)
    BY <1>3, <1>4 DEF UsedOf
  <2> QED
    BY <1>2, <2>1, KeptCompose
<1>8. Counted(w, UsedOf(z, B) \ {b})
  <2>1. \A d \in UsedOf(z, B) \ {b} : Size(w, d) = Size(z, d)
    BY <1>7, KeptReads
  <2>2. w.bytesUsed = z.bytesUsed - Size(z, b)
    <3>1. z.bytesUsed \in Int /\ Size(z, b) \in Nat /\ w.bytesUsed = y.bytesUsed
      BY <1>4, Reads DEF Zones, Rewrites
    <3> QED
      BY <3>1
  <2> QED
    BY <1>1, <2>1, <2>2, CountedLess
<1>9. Heap(w, B2)
  BY <1>6, <1>8 DEF Heap
<1>10. \E B3 : Heap(w, B3) /\ at \in B3 /\ UsedOf(w, B3) = UsedOf(z, B) \ {b}
  BY <1>6, <1>9
<1> QED
  BY <1>4, <1>5, <1>7, <1>10 DEF forward, merged, at, w

\* DisposePtr passes all its checks and gives the block back.
LEMMA ReleasedPtrSound ==
    ASSUME NEW z \in Zones, NEW B, Heap(z, B), NEW b \in UsedOf(z, B)
    PROVE  LET y == ReleasedPtr(z, b) IN
           /\ y \in Zones /\ y.mpBase = z.mpBase
           /\ \E B2 : Heap(y, B2) /\ UsedOf(y, B2) = UsedOf(z, B) \ {b}
           /\ \A d \in UsedOf(z, B) \ {b} : Kept(z, y, d)
<1> DEFINE unflagged == SetFlags(z, b, Flags(z, b) \ {"PTR"})
           freed == Account(unflagged, 0 - Size(z, b))
           w == Returned(freed, b)
<1>1. b \in Addr /\ b + 1 \in Addr /\ b \in Nat /\ Size(z, b) \in Nat
  BY BlockPlace DEF Heap, UsedOf
<1>2. Inside(z, unflagged, b) /\ unflagged \in Rewrites(z) /\ unflagged \in Zones
  <2>1. Flags(z, b) \ {"PTR"} \in SUBSET FlagNames
    BY Reads
  <2> QED
    BY <1>1, <2>1, HeaderInside, SetType, RewritesCompose
<1> HIDE DEF unflagged
<1>3. /\ freed \in Zones /\ SameHeap(unflagged, freed) /\ freed.mpBase = unflagged.mpBase
      /\ freed.bytesUsed = unflagged.bytesUsed + (0 - Size(z, b))
  <2>1. 0 - Size(z, b) \in Int
    BY <1>1
  <2> QED
    BY <1>2, <2>1, AccountIs
<1>4. /\ Inside(z, freed, b) /\ freed.mpBase = z.mpBase
      /\ freed.bytesUsed = z.bytesUsed + (0 - Size(z, b))
  <2>1. Inside(unflagged, freed, b)
    BY <1>3, SameHeapInside
  <2> HIDE DEF freed
  <2>2. Inside(z, freed, b)
    BY <1>1, <1>2, <2>1, InsideCompose
  <2> QED
    BY <1>2, <1>3, <2>2 DEF Rewrites
<1>5. LET forward == CoalesceForward(freed, b)
          merged == CoalesceBackward(forward, b)
          at == Start(forward, b) IN
      /\ ValidateFreelist(z) /\ ValidateBlock(z, b)
      /\ ValidateBlock(forward, b) /\ ValidateBlock(merged, at)
      /\ ValidateFreelist(merged) /\ ValidateFreelist(w)
      /\ w \in Rewrites(freed) /\ w \in Zones
      /\ \E B2 : Heap(w, B2) /\ at \in B2 /\ UsedOf(w, B2) = UsedOf(z, B) \ {b}
      /\ \A d \in UsedOf(z, B) \ {b} : Kept(z, w, d)
  <2> HIDE DEF freed
  <2> QED
    BY <1>4, ReleasedSound
<1>6. ReleasedPtr(z, b) = w
  BY <1>5 DEF ReleasedPtr, Returned, unflagged
<1>7. w.mpBase = z.mpBase
  BY <1>4, <1>5 DEF Rewrites
<1> HIDE DEF w, freed
<1> QED
  BY <1>5, <1>6, <1>7

\* A block that loses its owner.
LEMMA UnownedInside ==
    ASSUME NEW z \in Zones, NEW b \in Addr, b + 1 \in Addr
    PROVE  LET y == Unowned(z, b) IN
           /\ Inside(z, y, b) /\ y \in Rewrites(z) /\ y \in Zones
           /\ MasterPtr(y, b) = Null
<1> DEFINE x1 == SetFlags(z, b, Flags(z, b) \ {"HANDLE", "LOCKED", "PURGEABLE"})
           x2 == SetLockCount(x1, b, 0)
           y == SetMaster(x2, b, Null)
<1>0. b \in Nat
  BY ConstantsType
<1>1. Inside(z, x1, b) /\ x1 \in Zones
  <2>1. Flags(z, b) \ {"HANDLE", "LOCKED", "PURGEABLE"} \in SUBSET FlagNames
    BY Reads
  <2> QED
    BY <2>1, HeaderInside, SetType, RewritesCompose
<1> HIDE DEF x1
<1>2. Inside(x1, x2, b) /\ x2 \in Zones
  BY <1>1, HeaderInside, SetType, RewritesCompose
<1> HIDE DEF x2
<1>3. Inside(x2, y, b) /\ y \in Zones /\ MasterPtr(y, b) = Null
  <2>1. x2 \in Zones /\ Null \in Masters \cup {Null}
    BY <1>2
  <2>2. y \in Zones
    BY <2>1, SetType, RewritesCompose
  <2> QED
    BY <2>1, <2>2, HeaderInside
<1> HIDE DEF y
<1>4. Inside(z, y, b)
  BY <1>0, <1>1, <1>2, <1>3, InsideCompose
<1>5. Unowned(z, b) = y
  BY DEF Unowned, y, x2, x1
<1> QED
  BY <1>3, <1>4, <1>5, UnownedType

\* DisposeHandle passes all its checks and gives the block back.
LEMMA ReleasedHandleSound ==
    ASSUME NEW z \in Zones, NEW B, Heap(z, B), NEW h \in Masters, z.mpBase[h] \in UsedOf(z, B)
    PROVE  LET y == ReleasedHandle(z, h) IN
           /\ y \in Zones /\ \A k \in Masters : y.mpBase[k] = IF k = h THEN Null ELSE z.mpBase[k]
           /\ \E B2 : Heap(y, B2) /\ UsedOf(y, B2) = UsedOf(z, B) \ {z.mpBase[h]}
           /\ \A d \in UsedOf(z, B) \ {z.mpBase[h]} : Kept(z, y, d)
<1> DEFINE b == z.mpBase[h]
           pointed == Pointed(z, h, Null)
           unowned == Unowned(pointed, b)
           freed == Account(unowned, 0 - Size(z, b))
           w == Returned(freed, b)
<1>1. b \in Addr /\ b + 1 \in Addr /\ b \in Nat /\ Size(z, b) \in Nat
  BY BlockPlace DEF Heap, UsedOf
<1>0. b = z.mpBase[h]
  OBVIOUS
<1> HIDE DEF b
<1>2. /\ pointed \in Zones /\ Inside(z, pointed, b) /\ pointed.bytesUsed = z.bytesUsed
      /\ \A k \in Masters : pointed.mpBase[k] = IF k = h THEN Null ELSE z.mpBase[k]
  <2>1. Null \in Nat \cup {Null, Reserved}
    OBVIOUS
  <2> QED
    BY <2>1, PointedIs, SameHeapInside
<1> HIDE DEF pointed
<1>3. Inside(pointed, unowned, b) /\ unowned \in Rewrites(pointed) /\ unowned \in Zones
  BY <1>1, <1>2, UnownedInside
<1> HIDE DEF unowned
<1>4. /\ freed \in Zones /\ SameHeap(unowned, freed) /\ freed.mpBase = unowned.mpBase
      /\ freed.bytesUsed = unowned.bytesUsed + (0 - Size(z, b))
  <2>1. 0 - Size(z, b) \in Int
    BY <1>1
  <2> QED
    BY <1>3, <2>1, AccountIs
<1>5. /\ Inside(z, freed, b) /\ freed.mpBase = pointed.mpBase
      /\ freed.bytesUsed = z.bytesUsed + (0 - Size(z, b))
  <2>1. Inside(unowned, freed, b)
    BY <1>4, SameHeapInside
  <2> HIDE DEF freed
  <2>2. Inside(z, freed, b)
    BY <1>1, <1>2, <1>3, <2>1, InsideCompose
  <2> QED
    BY <1>2, <1>3, <1>4, <2>2 DEF Rewrites
<1>6. LET forward == CoalesceForward(freed, b)
          merged == CoalesceBackward(forward, b)
          at == Start(forward, b) IN
      /\ ValidateFreelist(z) /\ ValidateBlock(z, b)
      /\ ValidateBlock(forward, b) /\ ValidateBlock(merged, at)
      /\ ValidateFreelist(merged) /\ ValidateFreelist(w)
      /\ w \in Rewrites(freed) /\ w \in Zones
      /\ \E B2 : Heap(w, B2) /\ at \in B2 /\ UsedOf(w, B2) = UsedOf(z, B) \ {b}
      /\ \A d \in UsedOf(z, B) \ {b} : Kept(z, w, d)
  <2> HIDE DEF freed
  <2>1. b \in UsedOf(z, B)
    BY <1>0
  <2> QED
    BY <1>5, <2>1, ReleasedSound
<1>7. ReleasedHandle(z, h) = w
  BY <1>0, <1>1, <1>6 DEF ReleasedHandle, Returned, unowned, pointed, Pointed
<1>8. w.mpBase = pointed.mpBase
  BY <1>5, <1>6 DEF Rewrites
<1> HIDE DEF w, freed
<1> QED
  BY <1>0, <1>2, <1>6, <1>7, <1>8

\* Coalescing a block with the one after it changes nothing about whether it is
\* then coalesced with the one before it.
LEMMA StartForward ==
    ASSUME NEW z \in Zones, NEW B, NEW F, NEW b, Loose(z, B, F, b)
    PROVE  Start(CoalesceForward(z, b), b) = Start(z, b)
<1> DEFINE n == b + Size(z, b)
           y == CoalesceForward(z, b)
<1>1. /\ Tiles(z, B) /\ F \subseteq B /\ b \in B /\ b \notin F /\ Lists(z, F)
      /\ \A d \in B : d # b => (d \in F <=> "FREE" \in Flags(z, d))
      /\ n \in B \cup {ZoneSize}
  BY DEF Loose, Tiles
<1>2. /\ ZoneSize \notin B /\ ZoneSize \in Nat /\ b \in Addr /\ b \in Nat
      /\ \A d \in B : d \in Nat /\ Size(z, d) \in Nat /\ Size(z, d) >= 3
                      /\ d + Size(z, d) <= ZoneSize
  BY <1>1, TilesFit DEF Tiles
<1>3. CASE n \in F
  <2>1. n \in B /\ n > b /\ "FREE" \in Flags(z, n)
    BY <1>1, <1>2, <1>3
  <2>2. n + HeaderSize <= ZoneSize /\ Size(z, n) \in 1 .. ZoneSize - n
    BY <1>2, <2>1 DEF HeaderSize
  <2>3. y = Joined(z, b, n, n)
    BY <1>2, <2>1, <2>2 DEF CoalesceForward, Joined
  <2> HIDE DEF y
  <2>4. /\ \A d \in B : Tags(y, d) = Tags(z, d)
        /\ \A d \in B \ {n} :
              /\ Size(y, d) = IF d = b THEN Size(z, b) + Size(z, n) ELSE Size(z, d)
              /\ PrevSize(y, d) = IF d = n + Size(z, n) THEN Size(z, b) + Size(z, n)
                                  ELSE PrevSize(z, d)
    <3>1. Joinable(z, B, F, b, n, n)
      BY <1>1, <1>3 DEF Joinable
    <3> HIDE DEF n
    <3>2. LET w == Joined(z, b, n, n) IN
          /\ w \in Rewrites(z) /\ w \in Zones /\ Tiles(w, B \ {n}) /\ Lists(w, F \ {n})
          /\ SameTags(z, w, B) /\ Merged(z, w, B, b, n) /\ Writes(z, w, B, F \cup {b})
      BY <3>1, MergeSound
    <3> QED
      BY <2>3, <3>2 DEF SameTags, Merged
  <2>5. PrevSize(y, b) = PrevSize(z, b)
    <3>1. Size(z, n) \in Nat
      BY <1>2, <2>1
    <3>2. b # n /\ b # n + Size(z, n)
      BY <1>2, <2>1, <3>1
    <3> QED
      BY <1>1, <2>4, <3>2
  <2>6. CASE b = 0
    <3>1. PrevSize(z, b) = 0
      BY <1>1, <2>6 DEF Tiles
    <3>2. ~MergesBackward(y, b) /\ ~MergesBackward(z, b)
      BY <2>5, <3>1 DEF MergesBackward
    <3> QED
      BY <3>2 DEF Start, y
  <2>7. CASE b # 0
    <3>1. PICK d \in B : d < b /\ d + Size(z, d) = b /\ PrevSize(z, b) = Size(z, d)
      BY <1>1, <2>7, TilesBefore
    <3>2. d \in Nat /\ Size(z, d) \in Nat /\ b - PrevSize(z, b) = d /\ d # b /\ d # n
      BY <1>2, <2>1, <3>1
    <3>3. Size(y, d) = Size(z, d) /\ Flags(y, d) = Flags(z, d)
      BY <2>4, <3>2 DEF Tags
    <3>4. MergesBackward(y, b) <=> MergesBackward(z, b)
      BY <2>5, <3>2, <3>3 DEF MergesBackward
    <3> QED
      BY <2>5, <3>4 DEF Start, y
  <2> QED
    BY <2>6, <2>7
<1>4. CASE n \notin F
  <2>1. y = z
    <3>1. CASE n \in B
      <4>1. "FREE" \notin Flags(z, n)
        BY <1>1, <1>2, <1>4, <3>1
      <4> QED
        BY <4>1 DEF CoalesceForward
    <3>2. CASE n = ZoneSize
      <4>1. ~(n + HeaderSize <= ZoneSize)
        BY <1>2, <3>2 DEF HeaderSize
      <4> QED
        BY <4>1 DEF CoalesceForward
    <3> QED
      BY <1>1, <3>1, <3>2
  <2> QED
    BY <2>1
<1> QED
  BY <1>3, <1>4

\* Where a freed block begins depends on the memory alone.
LEMMA SameCellsSameStart ==
    ASSUME NEW z, NEW y, NEW b, \A a : Cell(y, a) = Cell(z, a)
    PROVE  Start(y, b) = Start(z, b)
  BY DEF Start, MergesBackward, PrevSize, Flags, Size

\* PurgeMem gives back the block of a handle and clears its master pointer.
LEMMA PurgedZoneSound ==
    ASSUME zone \in Zones, NEW B, Heap(zone, B), NEW b \in UsedOf(zone, B)
    PROVE  LET y == PurgedZone(b) IN
           /\ y \in Zones
           /\ \A k \in Masters :
                 y.mpBase[k] = IF k = MasterPtr(zone, b) THEN Null ELSE zone.mpBase[k]
           /\ \E B2 : /\ Heap(y, B2) /\ PurgedStart(b) \in B2
                      /\ UsedOf(y, B2) = UsedOf(zone, B) \ {b}
           /\ \A d \in UsedOf(zone, B) \ {b} : Kept(zone, y, d)
<1> DEFINE h == MasterPtr(zone, b)
           cleared == IF h \in Masters THEN Pointed(zone, h, Null) ELSE zone
           freed == Account(SetFlags(cleared, b, {"FREE"}), 0 - Size(zone, b))
           alone == SetFlags(zone, b, {"FREE"})
           w == Returned(freed, b)
<1>1. b \in Addr /\ b + 1 \in Addr /\ b \in Nat /\ Size(zone, b) \in Nat
  BY BlockPlace DEF Heap, UsedOf
<1>2. cleared \in Zones /\ SameHeap(zone, cleared) /\ cleared.bytesUsed = zone.bytesUsed
  <2>1. CASE h \in Masters
    <3>1. Null \in Nat \cup {Null, Reserved}
      OBVIOUS
    <3> QED
      BY <2>1, <3>1, PointedIs
  <2>2. CASE h \notin Masters
    BY <2>2 DEF SameHeap
  <2> QED
    BY <2>1, <2>2
<1>3. {"FREE"} \in SUBSET FlagNames
  BY DEF FlagNames
<1>4. /\ freed \in Zones /\ Inside(zone, freed, b)
      /\ freed.bytesUsed = zone.bytesUsed + (0 - Size(zone, b))
      /\ freed.mem = alone.mem
  <2> DEFINE flagged == SetFlags(cleared, b, {"FREE"})
  <2>1. Inside(zone, cleared, b)
    BY <1>2, SameHeapInside
  <2>2. Inside(cleared, flagged, b) /\ flagged \in Rewrites(cleared) /\ flagged \in Zones
    BY <1>1, <1>2, <1>3, HeaderInside, SetType, RewritesCompose
  <2>3. flagged.mem = alone.mem
    <3>1. cleared.mem = zone.mem
      BY <1>2 DEF SameHeap
    <3>2. Cell(cleared, b) = Cell(zone, b)
      BY <3>1 DEF Cell
    <3> HIDE DEF cleared
    <3>3. LockCount(cleared, b) = LockCount(zone, b)
      BY <3>2 DEF LockCount
    <3> QED
      BY <1>1, <1>2, <3>1, <3>3 DEF SetFlags, PutHi, Zones
  <2> HIDE DEF flagged
  <2>4. LET v == Account(flagged, 0 - Size(zone, b)) IN
        /\ v \in Zones /\ SameHeap(flagged, v)
        /\ v.bytesUsed = flagged.bytesUsed + (0 - Size(zone, b))
    <3>1. 0 - Size(zone, b) \in Int
      BY <1>1
    <3> QED
      BY <2>2, <3>1, AccountIs
  <2>5. freed = Account(flagged, 0 - Size(zone, b))
    BY DEF flagged
  <2> HIDE DEF freed
  <2>6. Inside(flagged, freed, b)
    BY <2>4, <2>5, SameHeapInside
  <2>7. Inside(zone, freed, b)
    BY <1>1, <1>2, <2>1, <2>2, <2>6, InsideCompose
  <2> QED
    BY <1>2, <2>2, <2>3, <2>4, <2>5, <2>7 DEF SameHeap, Rewrites
<1>5. PurgedZone(b) = w
  BY DEF PurgedZone, Listed, Returned, Pointed
<1> HIDE DEF freed, cleared
<1>6. LET forward == CoalesceForward(freed, b)
          merged == CoalesceBackward(forward, b)
          at == Start(forward, b) IN
      /\ ValidateFreelist(zone) /\ ValidateBlock(zone, b)
      /\ ValidateBlock(forward, b) /\ ValidateBlock(merged, at)
      /\ ValidateFreelist(merged) /\ ValidateFreelist(w)
      /\ w \in Rewrites(freed) /\ w \in Zones
      /\ \E B2 : Heap(w, B2) /\ at \in B2 /\ UsedOf(w, B2) = UsedOf(zone, B) \ {b}
      /\ \A d \in UsedOf(zone, B) \ {b} : Kept(zone, w, d)
  BY <1>4, ReleasedSound
<1> HIDE DEF w
<1>7. Start(CoalesceForward(freed, b), b) = PurgedStart(b)
  <2>1. Sound(zone, B)
    BY DEF Heap
  <2>2. Inside(zone, alone, b) /\ alone \in Zones
    BY <1>1, <1>3, HeaderInside, SetType, RewritesCompose
  <2> HIDE DEF alone
  <2>3. Loose(freed, B, FreeOf(zone, B), b) /\ Loose(alone, B, FreeOf(zone, B), b)
    BY <1>4, <2>1, <2>2, InsideSound
  <2>4. \A a : Cell(freed, a) = Cell(alone, a)
    BY <1>4 DEF Cell
  <2>5. Start(CoalesceForward(freed, b), b) = Start(freed, b)
    BY <1>4, <2>3, StartForward
  <2>6. Start(CoalesceForward(alone, b), b) = Start(alone, b)
    BY <2>2, <2>3, StartForward
  <2>7. Start(freed, b) = Start(alone, b)
    BY <2>4, SameCellsSameStart
  <2> QED
    BY <2>5, <2>6, <2>7 DEF PurgedStart, alone
<1> QED
  BY <1>5, <1>6, <1>7, PurgedZoneType

\* What is said of a heap depends on its memory, its lists and its counter alone.
LEMMA SameHeapSound ==
    ASSUME NEW z \in Zones, NEW y, SameHeap(z, y), y.bytesUsed = z.bytesUsed, NEW B, Heap(z, B)
    PROVE  Heap(y, B) /\ UsedOf(y, B) = UsedOf(z, B)
<1>1. /\ \A a : Cell(y, a) = Cell(z, a)
      /\ y.freelists = z.freelists
  BY DEF SameHeap, Cell
<1>2. /\ \A d : Size(y, d) = Size(z, d) /\ PrevSize(y, d) = PrevSize(z, d)
      /\ \A d : Flags(y, d) = Flags(z, d) /\ Links(y, d) = Links(z, d)
  BY <1>1 DEF Size, PrevSize, Flags, Links, NextNode, PrevNode
<1>3. FreeOf(y, B) = FreeOf(z, B) /\ UsedOf(y, B) = UsedOf(z, B)
  BY <1>2 DEF FreeOf, UsedOf
<1>4. Tiles(y, B)
  BY <1>2, TilesSame DEF Heap, Sound
<1>5. Lists(y, FreeOf(y, B))
  BY <1>1, <1>2, <1>3, ListsKept DEF Heap, Sound
<1>6. Apart(y, FreeOf(y, B))
  BY <1>2, <1>3 DEF Heap, Sound, Apart
<1>7. Space(y, UsedOf(y, B)) = Space(z, UsedOf(z, B))
  BY <1>2, <1>3, SpaceSame
<1> QED
  BY <1>3, <1>4, <1>5, <1>6, <1>7 DEF Heap, Sound, Counted

\* A block in use that is written inside only stays in use, in a sound heap.
LEMMA HeapInside ==
    ASSUME NEW z \in Zones, NEW B, Heap(z, B), NEW b \in UsedOf(z, B),
           NEW y, Inside(z, y, b), "FREE" \notin Flags(y, b), y.bytesUsed = z.bytesUsed
    PROVE  /\ Heap(y, B) /\ UsedOf(y, B) = UsedOf(z, B)
           /\ \A d \in UsedOf(z, B) \ {b} : Kept(z, y, d)
           /\ \A d \in B : Size(y, d) = Size(z, d) /\ PrevSize(y, d) = PrevSize(z, d)
           /\ FreeOf(y, B) = FreeOf(z, B)
<1>1. /\ Sound(z, B) /\ Counted(z, UsedOf(z, B)) /\ Tiles(z, B) /\ b \in B
      /\ UsedOf(z, B) \subseteq B
  BY DEF Heap, Sound, UsedOf
<1>2. /\ Sound(y, B) /\ FreeOf(y, B) = FreeOf(z, B) /\ UsedOf(y, B) = UsedOf(z, B)
      /\ \A d \in UsedOf(z, B) \ {b} : Kept(z, y, d)
  BY <1>1, InsideSound
<1>3. \A d \in B : Size(y, d) = Size(z, d) /\ PrevSize(y, d) = PrevSize(z, d)
  BY <1>1, InsideKeeps
<1>4. Space(y, UsedOf(z, B)) = Space(z, UsedOf(z, B))
  BY <1>1, <1>3, SpaceSame
<1>5. Counted(y, UsedOf(y, B))
  BY <1>1, <1>2, <1>4 DEF Counted
<1> QED
  BY <1>2, <1>3, <1>5 DEF Heap

\* SetHandleSize takes the handle's data and flags to the new block and gives the
\* old one back.
LEMMA ResizedSound ==
    ASSUME NEW z \in Zones, NEW B, Heap(z, B), NEW h \in Masters, NEW mp \in Masters, mp # h,
           NEW new \in UsedOf(z, B), NEW old \in UsedOf(z, B), new # old,
           z.mpBase[mp] = new, z.mpBase[h] = old,
           MasterPtr(z, old) = h, NEW size, size = Size(z, old) - 2,
           NEW n \in Nat, n + 2 <= Size(z, new)
    PROVE  LET y == Resized(z, h, old, size, n, mp) IN
           /\ y \in Zones
           /\ \A k \in Masters : y.mpBase[k] = IF k = mp THEN Null
                                               ELSE IF k = h THEN new ELSE z.mpBase[k]
           /\ \E B2 : Heap(y, B2) /\ UsedOf(y, B2) = UsedOf(z, B) \ {old}
           /\ \A d \in UsedOf(z, B) \ {old, new} : Kept(z, y, d)
           /\ Size(y, new) = Size(z, new) /\ Flags(y, new) = Flags(z, old)
           /\ MasterPtr(y, new) = h
           /\ \A m \in Nat : \A x :
                 m <= Least(size, n) /\ HoldsIn(z, old + 2, m, x) => HoldsIn(y, new + 2, m, x)
<1> DEFINE count == Least(size, n)
           copied == Copied(z, new + 2, old + 2, count)
           pointed == Pointed(copied, h, new)
           flagged == SetFlags(pointed, new, Flags(pointed, old))
           taken == SetMaster(flagged, new, h)
           unowned == Unowned(taken, old)
           freed == Account(unowned, 0 - Size(taken, old))
           w == Returned(freed, old)
           y == Pointed(w, mp, Null)
<1>1. /\ new \in B /\ old \in B /\ Sound(z, B) /\ Tiles(z, B)
      /\ new \in Nat /\ new \in Addr /\ new + 1 \in Addr
      /\ old \in Nat /\ old \in Addr /\ old + 1 \in Addr
      /\ Size(z, new) \in Nat /\ new + Size(z, new) <= ZoneSize
      /\ Size(z, old) \in Nat /\ Size(z, old) >= 3 /\ old + Size(z, old) <= ZoneSize
  <2>1. new \in B /\ old \in B /\ Sound(z, B)
    BY DEF UsedOf, Heap
  <2> QED
    BY <2>1, BlockPlace DEF Sound
<1>2. count \in Nat /\ count <= n /\ count <= size
  BY <1>1 DEF Least
<1> HIDE DEF count
<1>3. /\ Inside(z, copied, new) /\ copied \in Rewrites(z) /\ copied \in Zones
      /\ \A a \in new + 2 .. new + 2 + count - 1 :
            Cell(copied, a) = Cell(z, (old + 2) + (a - (new + 2)))
  <2> DEFINE to == new + 2
             from == old + 2
  <2>1. to \in Nat /\ from \in Nat /\ to >= new + 2 /\ to + count <= new + Size(z, new)
    BY <1>1, <1>2
  <2> HIDE DEF to, from
  <2>2. LET v == Copied(z, to, from, count) IN
        /\ Inside(z, v, new) /\ v \in Rewrites(z)
        /\ \A a \in to .. to + count - 1 : Cell(v, a) = Cell(z, from + (a - to))
    BY <1>1, <1>2, <2>1, CopiedInside, CopiedType
  <2> QED
    BY <2>2, RewritesCompose DEF to, from
<1> HIDE DEF copied
<1>4. MasterPtr(copied, old) = h /\ Flags(copied, old) = Flags(z, old)
  <2>1. Kept(z, copied, old)
    BY <1>1, <1>3, InsideKeeps
  <2> QED
    BY <2>1, KeptReads
<1>5. /\ pointed \in Zones /\ SameHeap(copied, pointed)
      /\ pointed.bytesUsed = copied.bytesUsed
      /\ \A k \in Masters : pointed.mpBase[k] = IF k = h THEN new ELSE copied.mpBase[k]
  <2>1. new \in Nat \cup {Null, Reserved}
    BY <1>1
  <2> QED
    BY <1>3, <2>1, PointedIs
<1> HIDE DEF pointed
<1>6. /\ Inside(copied, pointed, new) /\ \A a : Cell(pointed, a) = Cell(copied, a)
      /\ Flags(pointed, old) = Flags(z, old)
  <2>1. Inside(copied, pointed, new) /\ \A a : Cell(pointed, a) = Cell(copied, a)
    BY <1>5, SameHeapInside
  <2> QED
    BY <1>4, <2>1 DEF Flags
<1>7. /\ Inside(pointed, flagged, new) /\ flagged \in Rewrites(pointed) /\ flagged \in Zones
      /\ Flags(flagged, new) = Flags(z, old)
      /\ \A a : a \notin {new, new + 1} => Cell(flagged, a) = Cell(pointed, a)
  <2>1. Flags(pointed, old) \in SUBSET FlagNames
    BY <1>5, Reads
  <2>2. LET v == SetFlags(pointed, new, Flags(pointed, old)) IN
        /\ Inside(pointed, v, new) /\ Flags(v, new) = Flags(pointed, old)
        /\ \A a : a \notin {new, new + 1} => Cell(v, a) = Cell(pointed, a)
    BY <1>1, <1>5, <2>1, HeaderInside
  <2> QED
    BY <1>5, <1>6, <2>1, <2>2, SetType, RewritesCompose
<1> HIDE DEF flagged
<1>8. /\ Inside(flagged, taken, new) /\ taken \in Rewrites(flagged) /\ taken \in Zones
      /\ Flags(taken, new) = Flags(z, old) /\ MasterPtr(taken, new) = h
      /\ \A a : a \notin {new, new + 1} => Cell(taken, a) = Cell(flagged, a)
  <2>1. h \in Masters \cup {Null}
    OBVIOUS
  <2>2. LET v == SetMaster(flagged, new, h) IN
        /\ Inside(flagged, v, new) /\ Flags(v, new) = Flags(flagged, new) /\ MasterPtr(v, new) = h
        /\ \A a : a \notin {new, new + 1} => Cell(v, a) = Cell(flagged, a)
    BY <1>1, <1>7, <2>1, HeaderInside
  <2> QED
    BY <1>7, <2>2, SetType, RewritesCompose
<1> HIDE DEF taken
<1>9. /\ Inside(z, taken, new) /\ taken.bytesUsed = z.bytesUsed
      /\ \A k \in Masters : taken.mpBase[k] = IF k = h THEN new ELSE z.mpBase[k]
  <2>1. Inside(z, taken, new)
    BY <1>1, <1>3, <1>6, <1>7, <1>8, InsideCompose
  <2> QED
    BY <1>3, <1>5, <1>7, <1>8, <2>1 DEF Rewrites
<1>10. /\ Heap(taken, B) /\ UsedOf(taken, B) = UsedOf(z, B)
       /\ \A d \in UsedOf(z, B) \ {new} : Kept(z, taken, d)
       /\ Size(taken, new) = Size(z, new)
  <2>1. "FREE" \notin Flags(taken, new)
    BY <1>8 DEF UsedOf, FreeOf
  <2> QED
    BY <1>1, <1>9, <2>1, HeapInside
<1>11. Inside(taken, unowned, old) /\ unowned \in Rewrites(taken) /\ unowned \in Zones
  BY <1>1, <1>8, UnownedInside
<1> HIDE DEF unowned
<1>12. /\ freed \in Zones /\ SameHeap(unowned, freed) /\ freed.mpBase = unowned.mpBase
       /\ freed.bytesUsed = unowned.bytesUsed + (0 - Size(taken, old))
  <2>1. 0 - Size(taken, old) \in Int
    BY <1>8, Reads
  <2> QED
    BY <1>11, <2>1, AccountIs
<1>13. /\ Inside(taken, freed, old) /\ freed.mpBase = taken.mpBase
       /\ freed.bytesUsed = taken.bytesUsed + (0 - Size(taken, old))
  <2>1. Inside(unowned, freed, old)
    BY <1>12, SameHeapInside
  <2> HIDE DEF freed
  <2>2. Inside(taken, freed, old)
    BY <1>1, <1>8, <1>11, <2>1, InsideCompose
  <2> QED
    BY <1>11, <1>12, <2>2 DEF Rewrites
<1> HIDE DEF freed
<1>14. /\ w \in Rewrites(freed) /\ w \in Zones
       /\ \E B2 : Heap(w, B2) /\ UsedOf(w, B2) = UsedOf(taken, B) \ {old}
       /\ \A d \in UsedOf(taken, B) \ {old} : Kept(taken, w, d)
  <2>1. old \in UsedOf(taken, B)
    BY <1>10
  <2> QED
    BY <1>8, <1>10, <1>13, <2>1, ReleasedSound
<1>15. Resized(z, h, old, size, n, mp) = y
  <2>1. z.mpBase[h] \in Addr /\ new = z.mpBase[mp]
    BY <1>1
  <2> QED
    BY <1>4, <2>1 DEF Resized, Listed, Returned, w, freed, unowned, taken, flagged, pointed,
                      Pointed, copied, count, HeaderSize
<1> HIDE DEF w
<1>16. /\ y \in Zones /\ SameHeap(w, y) /\ y.bytesUsed = w.bytesUsed
       /\ \A k \in Masters : y.mpBase[k] = IF k = mp THEN Null ELSE w.mpBase[k]
  <2>1. Null \in Nat \cup {Null, Reserved}
    OBVIOUS
  <2>2. w \in Zones
    BY <1>14
  <2> HIDE DEF y
  <2>3. LET v == Pointed(w, mp, Null) IN
        /\ v \in Zones /\ SameHeap(w, v) /\ v.bytesUsed = w.bytesUsed
        /\ \A k \in Masters : v.mpBase[k] = IF k = mp THEN Null ELSE w.mpBase[k]
    BY <2>2, ClearedIs
  <2> QED
    BY <2>3 DEF y
<1> HIDE DEF y
<1>17. \A a : Cell(y, a) = Cell(w, a)
  BY <1>16 DEF SameHeap, Cell
<1>18. \E B2 : Heap(y, B2) /\ UsedOf(y, B2) = UsedOf(z, B) \ {old}
  <2>1. PICK B2 : Heap(w, B2) /\ UsedOf(w, B2) = UsedOf(taken, B) \ {old}
    BY <1>14
  <2>2. Heap(y, B2) /\ UsedOf(y, B2) = UsedOf(w, B2)
    BY <1>14, <1>16, <2>1, SameHeapSound
  <2> QED
    BY <1>10, <2>1, <2>2
<1>19. ASSUME NEW d \in UsedOf(z, B) \ {old, new} PROVE Kept(z, y, d)
  <2>1. Kept(z, taken, d) /\ Kept(taken, w, d)
    BY <1>10, <1>14
  <2>2. Kept(w, y, d)
    BY <1>17 DEF Kept
  <2> QED
    BY <1>8, <1>14, <2>1, <2>2, KeptCompose
<1>20. Kept(taken, y, new)
  <2>1. Kept(taken, w, new)
    BY <1>10, <1>14
  <2>2. Kept(w, y, new)
    BY <1>17 DEF Kept
  <2> QED
    BY <1>8, <1>14, <2>1, <2>2, KeptCompose
<1>21. Size(y, new) = Size(z, new) /\ Flags(y, new) = Flags(z, old) /\ MasterPtr(y, new) = h
  BY <1>8, <1>10, <1>20, KeptReads
<1>22. ASSUME NEW m \in Nat, NEW x, m <= Least(size, n), HoldsIn(z, old + 2, m, x)
       PROVE  HoldsIn(y, new + 2, m, x)
  <2> SUFFICES ASSUME NEW a \in new + 2 .. new + 2 + m - 1
               PROVE  Cell(y, a) = [lo |-> x, hi |-> x]
    BY DEF HoldsIn
  <2>1. m <= count
    <3>1. count = Least(size, n)
      BY DEF count
    <3> QED
      BY <1>22, <3>1
  <2>2. /\ a \in new + 2 .. new + 2 + count - 1 /\ a \notin {new, new + 1}
        /\ a \in new + 2 .. new + Size(taken, new) - 1
        /\ (old + 2) + (a - (new + 2)) \in old + 2 .. old + 2 + m - 1
    BY <1>1, <1>2, <1>10, <2>1
  <2>3. Cell(copied, a) = [lo |-> x, hi |-> x]
    <3>1. Cell(copied, a) = Cell(z, (old + 2) + (a - (new + 2)))
      BY <1>3, <2>2
    <3>2. \A c \in old + 2 .. old + 2 + m - 1 : Cell(z, c) = [lo |-> x, hi |-> x]
      BY <1>22 DEF HoldsIn
    <3> QED
      BY <2>2, <3>1, <3>2
  <2>4. Cell(taken, a) = Cell(copied, a)
    BY <1>6, <1>7, <1>8, <2>2
  <2>5. Cell(y, a) = Cell(taken, a)
    BY <1>20, <2>2 DEF Kept
  <2> QED
    BY <2>3, <2>4, <2>5
<1>23. \A k \in Masters : y.mpBase[k] = IF k = mp THEN Null
                                        ELSE IF k = h THEN new ELSE z.mpBase[k]
  BY <1>9, <1>13, <1>14, <1>16 DEF Rewrites
<1> QED
  BY <1>15, <1>16, <1>18, <1>19, <1>21, <1>22, <1>23

-----------------------------------------------------------------------------
(* What clients hold in a heap, and how a call changes it.                   *)

Kinds == {"FREE", "PTR", "HANDLE"}
Using(z) == {h \in Masters : z.mpBase[h] \notin {Null, Reserved}}
PtrIs(z, p) ==
    /\ p.at \in Nat /\ p.size \in Nat
    /\ Flags(z, p.at) \cap Kinds = {"PTR"} /\ p.size + 3 <= Size(z, p.at)
    /\ HoldsIn(z, p.at + 2, p.size, Data(Null))
HandleIs(z, b, h, n) ==
    /\ b \in Nat /\ n \in Nat
    /\ Flags(z, b) \cap Kinds = {"HANDLE"} /\ MasterPtr(z, b) = h /\ n + 2 <= Size(z, b)
    /\ HoldsIn(z, b + 2, n, Data(h))
Places(z, P) == {p.at : p \in P} \cup {z.mpBase[h] : h \in Using(z)}

\* The heap is sound and the blocks in use are those of U.
HeapIs(z, U) == \E B : Heap(z, B) /\ UsedOf(z, B) = U

\* The Ptrs P and the handles of z hold the data of clients, who keep st[h] in h.
Contents(z, P, ho, st) ==
    /\ \A p \in P : PtrIs(z, p)
    /\ \A p, q \in P : p.at = q.at => p = q
    /\ \A h \in Using(z) : ho[h] > 0 /\ HandleIs(z, z.mpBase[h], h, st[h])
Held(z, P, ho, st) == HeapIs(z, Places(z, P)) /\ Contents(z, P, ho, st)

\* A sound heap is the one a walk of its blocks finds.
LEMMA HeapIsWalked ==
    ASSUME NEW z \in Zones, NEW U, HeapIs(z, U)
    PROVE  Heap(z, Walked(z)) /\ UsedOf(z, Walked(z)) = U
<1>1. PICK B : Heap(z, B) /\ UsedOf(z, B) = U
  BY DEF HeapIs
<1>2. Walked(z) = B
  BY <1>1, WalkedAre DEF Heap, Sound
<1> QED
  BY <1>1, <1>2

\* A client's block that is kept is still that client's, with its data.
LEMMA ContentsKept ==
    ASSUME NEW z \in Zones, NEW y, NEW b, Kept(z, y, b)
    PROVE  /\ \A p : p.at = b /\ PtrIs(z, p) => PtrIs(y, p)
           /\ \A h : \A n : \A m \in Nat :
                 HandleIs(z, b, h, n) /\ m <= n => HandleIs(y, b, h, m)
<1>1. /\ Size(y, b) = Size(z, b) /\ Flags(y, b) = Flags(z, b) /\ MasterPtr(y, b) = MasterPtr(z, b)
  BY KeptReads
<1>2. Size(z, b) \in Nat
  BY Reads
<1>3. ASSUME NEW n \in Nat, n + 2 <= Size(z, b), b \in Nat, NEW w, HoldsIn(z, b + 2, n, w),
             NEW m \in Nat, m <= n
      PROVE  HoldsIn(y, b + 2, m, w)
  <2> SUFFICES ASSUME NEW a \in b + 2 .. b + 2 + m - 1
               PROVE  Cell(y, a) = [lo |-> w, hi |-> w]
    BY DEF HoldsIn
  <2>1. a \in b + 2 .. b + Size(z, b) - 1 /\ a \in b + 2 .. b + 2 + n - 1
    BY <1>2, <1>3
  <2>2. Cell(y, a) = Cell(z, a) /\ Cell(z, a) = [lo |-> w, hi |-> w]
    BY <1>3, <2>1 DEF Kept, HoldsIn
  <2> QED
    BY <2>2
<1>4. ASSUME NEW p, p.at = b, PtrIs(z, p) PROVE PtrIs(y, p)
  <2>1. /\ b \in Nat /\ p.size \in Nat /\ p.size + 3 <= Size(z, b)
        /\ HoldsIn(z, b + 2, p.size, Data(Null))
    BY <1>4 DEF PtrIs
  <2>2. p.size + 2 <= Size(z, b) /\ p.size <= p.size
    BY <1>2, <2>1
  <2>3. HoldsIn(y, b + 2, p.size, Data(Null))
    BY <1>3, <2>1, <2>2
  <2> QED
    BY <1>1, <1>4, <2>1, <2>3 DEF PtrIs
<1>5. ASSUME NEW h, NEW n, NEW m \in Nat, HandleIs(z, b, h, n), m <= n
      PROVE  HandleIs(y, b, h, m)
  <2>1. /\ b \in Nat /\ n \in Nat /\ n + 2 <= Size(z, b) /\ HoldsIn(z, b + 2, n, Data(h))
    BY <1>5 DEF HandleIs
  <2>2. HoldsIn(y, b + 2, m, Data(h))
    BY <1>3, <1>5, <2>1
  <2>3. m + 2 <= Size(z, b)
    BY <1>2, <1>5, <2>1
  <2> QED
    BY <1>1, <1>5, <2>1, <2>2, <2>3 DEF HandleIs
<1> QED
  BY <1>4, <1>5

\* Of the blocks in use each has one owner.
LEMMA OwnersApart ==
    ASSUME NEW z, NEW P, NEW ho, NEW st, Contents(z, P, ho, st)
    PROVE  /\ \A p \in P, h \in Using(z) : p.at # z.mpBase[h]
           /\ \A h, k \in Using(z) : z.mpBase[h] = z.mpBase[k] => h = k
<1>1. ASSUME NEW p \in P, NEW h \in Using(z), p.at = z.mpBase[h] PROVE FALSE
  <2>1. Flags(z, p.at) \cap Kinds = {"PTR"} /\ Flags(z, p.at) \cap Kinds = {"HANDLE"}
    BY <1>1 DEF Contents, PtrIs, HandleIs
  <2>2. {"PTR"} # {"HANDLE"}
    OBVIOUS
  <2> QED
    BY <2>1, <2>2
<1>2. ASSUME NEW h \in Using(z), NEW k \in Using(z), z.mpBase[h] = z.mpBase[k] PROVE h = k
  BY <1>2 DEF Contents, HandleIs
<1> QED
  BY <1>1, <1>2

\* The blocks and their owners stay as they are, and clients keep no more in them.
LEMMA HeldSame ==
    ASSUME NEW z \in Zones, NEW y \in Zones, NEW P, NEW ho, NEW st, Held(z, P, ho, st),
           \A h \in Masters : \/ y.mpBase[h] = z.mpBase[h]
                              \/ y.mpBase[h] \in {Null, Reserved} /\ z.mpBase[h] \in {Null, Reserved},
           HeapIs(y, Places(z, P)), \A d \in Places(z, P) : Kept(z, y, d),
           NEW st2, \A h \in Using(z) : st2[h] \in Nat /\ st2[h] <= st[h]
    PROVE  Held(y, P, ho, st2)
<1>1. Using(y) = Using(z) /\ \A h \in Using(z) : y.mpBase[h] = z.mpBase[h]
  BY DEF Using
<1>2. Places(y, P) = Places(z, P)
  BY <1>1 DEF Places
<1>3. ASSUME NEW p \in P PROVE PtrIs(y, p)
  <2>1. Kept(z, y, p.at) /\ PtrIs(z, p)
    BY DEF Places, Held, Contents
  <2> QED
    BY <2>1, ContentsKept
<1>4. ASSUME NEW h \in Using(y) PROVE ho[h] > 0 /\ HandleIs(y, y.mpBase[h], h, st2[h])
  <2>1. /\ Kept(z, y, z.mpBase[h]) /\ HandleIs(z, z.mpBase[h], h, st[h]) /\ ho[h] > 0
        /\ st2[h] \in Nat /\ st2[h] <= st[h]
    BY <1>1 DEF Places, Held, Contents
  <2>2. HandleIs(y, z.mpBase[h], h, st2[h])
    BY <2>1, ContentsKept
  <2> QED
    BY <1>1, <2>1, <2>2
<1>5. \A p, q \in P : p.at = q.at => p = q
  BY DEF Held, Contents
<1> QED
  BY <1>2, <1>3, <1>4, <1>5 DEF Held, Contents

\* One more Ptr.
LEMMA HeldPtrMore ==
    ASSUME NEW z \in Zones, NEW y \in Zones, NEW P, NEW ho, NEW st, Held(z, P, ho, st),
           \A h \in Masters : y.mpBase[h] = z.mpBase[h],
           NEW p, p.at \notin Places(z, P), HeapIs(y, Places(z, P) \cup {p.at}), PtrIs(y, p),
           \A d \in Places(z, P) : Kept(z, y, d)
    PROVE  Held(y, P \cup {p}, ho, st)
<1>1. Using(y) = Using(z) /\ \A h \in Using(z) : y.mpBase[h] = z.mpBase[h]
  BY DEF Using
<1>2. Places(y, P \cup {p}) = Places(z, P) \cup {p.at}
  BY <1>1 DEF Places
<1>3. ASSUME NEW q \in P PROVE PtrIs(y, q)
  <2>1. Kept(z, y, q.at) /\ PtrIs(z, q)
    BY DEF Places, Held, Contents
  <2> QED
    BY <2>1, ContentsKept
<1>4. ASSUME NEW h \in Using(y) PROVE ho[h] > 0 /\ HandleIs(y, y.mpBase[h], h, st[h])
  <2>1. /\ Kept(z, y, z.mpBase[h]) /\ HandleIs(z, z.mpBase[h], h, st[h]) /\ ho[h] > 0
    BY <1>1 DEF Places, Held, Contents
  <2>2. st[h] \in Nat /\ st[h] <= st[h]
    BY <2>1 DEF HandleIs
  <2>3. HandleIs(y, z.mpBase[h], h, st[h])
    BY <2>1, <2>2, ContentsKept
  <2> QED
    BY <1>1, <2>1, <2>3
<1>5. \A q, r \in P \cup {p} : q.at = r.at => q = r
  BY DEF Held, Contents, Places
<1> QED
  BY <1>2, <1>3, <1>4, <1>5 DEF Held, Contents

\* One Ptr less.
LEMMA HeldPtrLess ==
    ASSUME NEW z \in Zones, NEW y \in Zones, NEW P, NEW ho, NEW st, Held(z, P, ho, st),
           \A h \in Masters : y.mpBase[h] = z.mpBase[h],
           NEW p \in P, HeapIs(y, Places(z, P) \ {p.at}),
           \A d \in Places(z, P) \ {p.at} : Kept(z, y, d)
    PROVE  Held(y, P \ {p}, ho, st)
<1>1. Using(y) = Using(z) /\ \A h \in Using(z) : y.mpBase[h] = z.mpBase[h]
  BY DEF Using
<1>2. Contents(z, P, ho, st)
  BY DEF Held
<1>3. /\ \A h \in Using(z) : p.at # z.mpBase[h]
      /\ \A q \in P \ {p} : q.at # p.at
  BY <1>2, OwnersApart DEF Contents
<1>4. Places(y, P \ {p}) = Places(z, P) \ {p.at}
  BY <1>1, <1>3 DEF Places
<1>5. ASSUME NEW q \in P \ {p} PROVE PtrIs(y, q)
  <2>1. Kept(z, y, q.at) /\ PtrIs(z, q)
    BY <1>2, <1>3 DEF Places, Contents
  <2> QED
    BY <2>1, ContentsKept
<1>6. ASSUME NEW h \in Using(y) PROVE ho[h] > 0 /\ HandleIs(y, y.mpBase[h], h, st[h])
  <2>1. /\ Kept(z, y, z.mpBase[h]) /\ HandleIs(z, z.mpBase[h], h, st[h]) /\ ho[h] > 0
    BY <1>1, <1>2, <1>3 DEF Places, Contents
  <2>2. st[h] \in Nat /\ st[h] <= st[h]
    BY <2>1 DEF HandleIs
  <2>3. HandleIs(y, z.mpBase[h], h, st[h])
    BY <2>1, <2>2, ContentsKept
  <2> QED
    BY <1>1, <2>1, <2>3
<1>7. \A q, r \in P \ {p} : q.at = r.at => q = r
  BY <1>2 DEF Contents
<1> QED
  BY <1>4, <1>5, <1>6, <1>7 DEF Held, Contents

\* One more handle.
LEMMA HeldHandleMore ==
    ASSUME NEW z \in Zones, NEW y \in Zones, NEW P, NEW ho, NEW st, Held(z, P, ho, st),
           NEW i \in Masters, i \notin Using(z), NEW b \in Nat, b \notin Places(z, P),
           \A k \in Masters : y.mpBase[k] = IF k = i THEN b ELSE z.mpBase[k],
           HeapIs(y, Places(z, P) \cup {b}), \A d \in Places(z, P) : Kept(z, y, d),
           NEW ho2, \A k \in Using(z) \cup {i} : ho2[k] > 0,
           NEW st2, \A k \in Using(z) : st2[k] = st[k], HandleIs(y, b, i, st2[i])
    PROVE  Held(y, P, ho2, st2)
<1>1. /\ Using(y) = Using(z) \cup {i} /\ y.mpBase[i] = b
      /\ \A h \in Using(z) : y.mpBase[h] = z.mpBase[h]
  BY ConstantsType DEF Using
<1>2. Places(y, P) = Places(z, P) \cup {b}
  BY <1>1 DEF Places
<1>3. ASSUME NEW q \in P PROVE PtrIs(y, q)
  <2>1. Kept(z, y, q.at) /\ PtrIs(z, q)
    BY DEF Places, Held, Contents
  <2> QED
    BY <2>1, ContentsKept
<1>4. ASSUME NEW h \in Using(y) PROVE ho2[h] > 0 /\ HandleIs(y, y.mpBase[h], h, st2[h])
  <2>1. CASE h = i
    BY <1>1, <2>1
  <2>2. CASE h # i
    <3>1. h \in Using(z) /\ ho2[h] > 0 /\ st2[h] = st[h]
      BY <1>1, <2>2
    <3>2. /\ Kept(z, y, z.mpBase[h]) /\ HandleIs(z, z.mpBase[h], h, st[h])
      BY <3>1 DEF Places, Held, Contents
    <3>3. st[h] \in Nat /\ st[h] <= st[h]
      BY <3>2 DEF HandleIs
    <3>4. HandleIs(y, z.mpBase[h], h, st[h])
      BY <3>2, <3>3, ContentsKept
    <3> QED
      BY <1>1, <3>1, <3>4
  <2> QED
    BY <2>1, <2>2
<1>5. \A q, r \in P : q.at = r.at => q = r
  BY DEF Held, Contents
<1> QED
  BY <1>2, <1>3, <1>4, <1>5 DEF Held, Contents

\* One handle less.
LEMMA HeldHandleLess ==
    ASSUME NEW z \in Zones, NEW y \in Zones, NEW P, NEW ho, NEW st, Held(z, P, ho, st),
           NEW i \in Using(z),
           \A k \in Masters : y.mpBase[k] = IF k = i THEN Null ELSE z.mpBase[k],
           HeapIs(y, Places(z, P) \ {z.mpBase[i]}),
           \A d \in Places(z, P) \ {z.mpBase[i]} : Kept(z, y, d),
           NEW ho2, \A k \in Using(z) \ {i} : ho2[k] > 0,
           NEW st2, \A k \in Using(z) \ {i} : st2[k] = st[k]
    PROVE  Held(y, P, ho2, st2)
<1>1. /\ Using(y) = Using(z) \ {i}
      /\ \A h \in Using(z) \ {i} : y.mpBase[h] = z.mpBase[h]
  BY DEF Using
<1>2. Contents(z, P, ho, st)
  BY DEF Held
<1>3. /\ \A p \in P : p.at # z.mpBase[i]
      /\ \A h \in Using(z) \ {i} : z.mpBase[h] # z.mpBase[i]
  BY <1>2, OwnersApart
<1>4. Places(y, P) = Places(z, P) \ {z.mpBase[i]}
  BY <1>1, <1>3 DEF Places
<1>5. ASSUME NEW q \in P PROVE PtrIs(y, q)
  <2>1. Kept(z, y, q.at) /\ PtrIs(z, q)
    BY <1>2, <1>3 DEF Places, Contents
  <2> QED
    BY <2>1, ContentsKept
<1>6. ASSUME NEW h \in Using(y) PROVE ho2[h] > 0 /\ HandleIs(y, y.mpBase[h], h, st2[h])
  <2>1. h \in Using(z) \ {i} /\ ho2[h] > 0 /\ st2[h] = st[h]
    BY <1>1
  <2>2. Kept(z, y, z.mpBase[h]) /\ HandleIs(z, z.mpBase[h], h, st[h])
    BY <1>2, <1>3, <2>1 DEF Places, Contents
  <2>3. st[h] \in Nat /\ st[h] <= st[h]
    BY <2>2 DEF HandleIs
  <2>4. HandleIs(y, z.mpBase[h], h, st[h])
    BY <2>2, <2>3, ContentsKept
  <2> QED
    BY <1>1, <2>1, <2>4
<1>7. \A q, r \in P : q.at = r.at => q = r
  BY <1>2 DEF Contents
<1> QED
  BY <1>4, <1>5, <1>6, <1>7 DEF Held, Contents

\* The block of handle i is written, and still is the block of i.
LEMMA HeldWritten ==
    ASSUME NEW z \in Zones, NEW y \in Zones, NEW P, NEW ho, NEW st, Held(z, P, ho, st),
           NEW i \in Using(z), \A k \in Masters : y.mpBase[k] = z.mpBase[k],
           HeapIs(y, Places(z, P)), \A d \in Places(z, P) \ {z.mpBase[i]} : Kept(z, y, d),
           HandleIs(y, z.mpBase[i], i, st[i])
    PROVE  Held(y, P, ho, st)
<1>1. Using(y) = Using(z) /\ \A h \in Using(z) : y.mpBase[h] = z.mpBase[h]
  BY DEF Using
<1>2. Contents(z, P, ho, st)
  BY DEF Held
<1>3. /\ \A p \in P : p.at # z.mpBase[i]
      /\ \A h \in Using(z) \ {i} : z.mpBase[h] # z.mpBase[i]
  BY <1>2, OwnersApart
<1>4. Places(y, P) = Places(z, P)
  BY <1>1 DEF Places
<1>5. ASSUME NEW q \in P PROVE PtrIs(y, q)
  <2>1. Kept(z, y, q.at) /\ PtrIs(z, q)
    BY <1>2, <1>3 DEF Places, Contents
  <2> QED
    BY <2>1, ContentsKept
<1>6. ASSUME NEW h \in Using(y) PROVE ho[h] > 0 /\ HandleIs(y, y.mpBase[h], h, st[h])
  <2>1. h \in Using(z) /\ ho[h] > 0 /\ HandleIs(z, z.mpBase[h], h, st[h])
    BY <1>1, <1>2 DEF Contents
  <2>2. CASE h = i
    BY <1>1, <2>1, <2>2
  <2>3. CASE h # i
    <3>1. Kept(z, y, z.mpBase[h])
      BY <1>3, <2>1, <2>3 DEF Places
    <3>2. st[h] \in Nat /\ st[h] <= st[h]
      BY <2>1 DEF HandleIs
    <3>3. HandleIs(y, z.mpBase[h], h, st[h])
      BY <2>1, <3>1, <3>2, ContentsKept
    <3> QED
      BY <1>1, <2>1, <3>3
  <2> QED
    BY <2>2, <2>3
<1>7. \A q, r \in P : q.at = r.at => q = r
  BY <1>2 DEF Contents
<1> QED
  BY <1>4, <1>5, <1>6, <1>7 DEF Held, Contents

\* Handle i gets the block of j, which goes, and gives its own back.
LEMMA HeldResized ==
    ASSUME NEW z \in Zones, NEW y \in Zones, NEW P, NEW ho, NEW st, Held(z, P, ho, st),
           NEW i \in Using(z), NEW j \in Using(z), i # j,
           \A k \in Masters : y.mpBase[k] = IF k = j THEN Null
                                            ELSE IF k = i THEN z.mpBase[j] ELSE z.mpBase[k],
           HeapIs(y, Places(z, P) \ {z.mpBase[i]}),
           \A d \in Places(z, P) \ {z.mpBase[i], z.mpBase[j]} : Kept(z, y, d),
           NEW ho2, \A k \in Using(z) \ {j} : ho2[k] > 0,
           NEW st2, \A k \in Using(z) \ {i, j} : st2[k] = st[k],
           HandleIs(y, z.mpBase[j], i, st2[i])
    PROVE  Held(y, P, ho2, st2)
<1>1. /\ Using(y) = Using(z) \ {j} /\ y.mpBase[i] = z.mpBase[j]
      /\ \A h \in Using(z) \ {i, j} : y.mpBase[h] = z.mpBase[h]
  BY DEF Using
<1>2. Contents(z, P, ho, st)
  BY DEF Held
<1>3. /\ \A p \in P : p.at # z.mpBase[i] /\ p.at # z.mpBase[j]
      /\ \A h \in Using(z) \ {i} : z.mpBase[h] # z.mpBase[i]
      /\ \A h \in Using(z) \ {j} : z.mpBase[h] # z.mpBase[j]
  BY <1>2, OwnersApart
<1>4. Places(y, P) = Places(z, P) \ {z.mpBase[i]}
  <2>1. \A h \in Using(y) : y.mpBase[h] \in Places(z, P) \ {z.mpBase[i]}
    BY <1>1, <1>3 DEF Places
  <2>2. \A h \in Using(z) \ {i} : z.mpBase[h] \in Places(y, P)
    BY <1>1 DEF Places
  <2> QED
    BY <1>3, <2>1, <2>2 DEF Places
<1>5. ASSUME NEW q \in P PROVE PtrIs(y, q)
  <2>1. Kept(z, y, q.at) /\ PtrIs(z, q)
    BY <1>2, <1>3 DEF Places, Contents
  <2> QED
    BY <2>1, ContentsKept
<1>6. ASSUME NEW h \in Using(y) PROVE ho2[h] > 0 /\ HandleIs(y, y.mpBase[h], h, st2[h])
  <2>1. h \in Using(z) \ {j} /\ ho2[h] > 0
    BY <1>1
  <2>2. CASE h = i
    BY <1>1, <2>1, <2>2
  <2>3. CASE h # i
    <3>1. /\ Kept(z, y, z.mpBase[h]) /\ HandleIs(z, z.mpBase[h], h, st[h])
          /\ st2[h] = st[h] /\ y.mpBase[h] = z.mpBase[h]
      BY <1>1, <1>2, <1>3, <2>1, <2>3 DEF Places, Contents
    <3>2. st[h] \in Nat /\ st[h] <= st[h]
      BY <3>1 DEF HandleIs
    <3>3. HandleIs(y, z.mpBase[h], h, st[h])
      BY <3>1, <3>2, ContentsKept
    <3> QED
      BY <2>1, <3>1, <3>3
  <2> QED
    BY <2>2, <2>3
<1>7. \A q, r \in P : q.at = r.at => q = r
  BY <1>2 DEF Contents
<1> QED
  BY <1>4, <1>5, <1>6, <1>7 DEF Held, Contents

\* find_fit in a sound heap.
LEMMA FitIs ==
    ASSUME NEW z \in Zones, NEW U, HeapIs(z, U), NEW need \in Nat
    PROVE  LET s == FindFit(z, need) IN
           /\ s.zone = z
           /\ \/ s.found \in FreeOf(z, Walked(z)) /\ need <= Size(z, s.found)
              \/ s.found = Null /\ \A d \in FreeOf(z, Walked(z)) : Size(z, d) < need
<1>1. Stocked(z, FreeOf(z, Walked(z)))
  BY HeapIsWalked, SoundIsValid DEF Heap
<1>2. LET s == FindFit(z, need) IN
      /\ s.zone = z
      /\ \/ s.found \in FreeOf(z, Walked(z)) /\ Size(z, s.found) >= need
         \/ s.found = Null /\ \A d \in FreeOf(z, Walked(z)) : Size(z, d) < need
  BY <1>1, FindFitFinds
<1>3. \A d : Size(z, d) \in Nat
  BY Reads
<1> QED
  BY <1>2, <1>3

\* A client of NewPtr holds what it was given, and the others what they had.
LEMMA PtrGiven ==
    ASSUME NEW z \in Zones, NEW P, NEW ho, NEW st, Held(z, P, ho, st),
           NEW b \in FreeOf(z, Walked(z)), NEW n \in Nat, n + 3 <= Size(z, b)
    PROVE  /\ Held(PtrPlaced(z, b, n + 3, n), P \cup {[at |-> b, size |-> n]}, ho, st)
           /\ PtrPlaced(z, b, n + 3, n).mpBase = z.mpBase
           /\ b \notin Places(z, P)
<1> DEFINE y == PtrPlaced(z, b, n + 3, n)
           p == [at |-> b, size |-> n]
<1>1. Heap(z, Walked(z)) /\ UsedOf(z, Walked(z)) = Places(z, P)
  BY HeapIsWalked DEF Held
<1>2. /\ y \in Zones /\ y.mpBase = z.mpBase
      /\ \E B2 : Heap(y, B2) /\ UsedOf(y, B2) = UsedOf(z, Walked(z)) \cup {b}
      /\ \A d \in UsedOf(z, Walked(z)) : Kept(z, y, d)
      /\ Flags(y, b) = {"PTR"} /\ n + 3 <= Size(y, b)
      /\ HoldsIn(y, b + 2, n, Data(Null))
  BY <1>1, PtrPlacedSound
<1> HIDE DEF y
<1>3. HeapIs(y, Places(z, P) \cup {p.at}) /\ \A d \in Places(z, P) : Kept(z, y, d)
  BY <1>1, <1>2 DEF HeapIs
<1>4. p.at \notin Places(z, P)
  BY <1>1 DEF UsedOf
<1>5. b \in Nat
  BY <1>1, BlockPlace DEF FreeOf, Heap
<1>6. PtrIs(y, p)
  <2>1. {"PTR"} \cap Kinds = {"PTR"}
    BY DEF Kinds
  <2> QED
    BY <1>2, <1>5, <2>1 DEF PtrIs
<1>7. \A h \in Masters : y.mpBase[h] = z.mpBase[h]
  BY <1>2
<1> HIDE DEF p
<1>8. Held(y, P \cup {p}, ho, st)
  BY <1>2, <1>3, <1>4, <1>6, <1>7, HeldPtrMore
<1> QED
  BY <1>2, <1>4, <1>8 DEF y, p

\* A client of NewHandle holds what it was given, and the others what they had.
LEMMA HandleGiven ==
    ASSUME NEW z \in Zones, NEW P, NEW ho, NEW st, Held(z, P, ho, st),
           NEW b \in FreeOf(z, Walked(z)), NEW n \in Nat, NEW need \in Nat,
           need >= 3, n + 2 <= need, need <= Size(z, b),
           NEW i \in Masters, i \notin Using(z),
           NEW ho2, \A k \in Using(z) \cup {i} : ho2[k] > 0,
           NEW st2, \A k \in Using(z) : st2[k] = st[k], st2[i] = n
    PROVE  LET y == HandlePlaced(z, b, need, n, i) IN
           /\ y \in Zones /\ Held(y, P, ho2, st2)
           /\ \A k \in Masters : y.mpBase[k] = IF k = i THEN b ELSE z.mpBase[k]
           /\ b \in Nat /\ b \notin Places(z, P) /\ \A d \in Places(z, P) : Kept(z, y, d)
           /\ n + 2 <= Size(y, b)
<1> DEFINE y == HandlePlaced(z, b, need, n, i)
<1>1. Heap(z, Walked(z)) /\ UsedOf(z, Walked(z)) = Places(z, P)
  BY HeapIsWalked DEF Held
<1>2. /\ y \in Zones /\ \A k \in Masters : y.mpBase[k] = IF k = i THEN b ELSE z.mpBase[k]
      /\ \E B2 : Heap(y, B2) /\ UsedOf(y, B2) = UsedOf(z, Walked(z)) \cup {b}
      /\ b \notin UsedOf(z, Walked(z)) /\ \A d \in UsedOf(z, Walked(z)) : Kept(z, y, d)
      /\ Flags(y, b) = {"HANDLE"} /\ MasterPtr(y, b) = i /\ n + 2 <= Size(y, b)
      /\ HoldsIn(y, b + 2, n, Data(i))
  BY <1>1, HandlePlacedSound
<1> HIDE DEF y
<1>3. HeapIs(y, Places(z, P) \cup {b}) /\ \A d \in Places(z, P) : Kept(z, y, d)
  BY <1>1, <1>2 DEF HeapIs
<1>4. b \in Nat
  BY <1>1, BlockPlace DEF FreeOf, Heap
<1>5. HandleIs(y, b, i, st2[i])
  <2>1. {"HANDLE"} \cap Kinds = {"HANDLE"}
    BY DEF Kinds
  <2> QED
    BY <1>2, <1>4, <2>1 DEF HandleIs
<1>6. Held(y, P, ho2, st2)
  BY <1>1, <1>2, <1>3, <1>4, <1>5, HeldHandleMore
<1> QED
  BY <1>1, <1>2, <1>3, <1>4, <1>6 DEF y

\* After DisposePtr the others hold what they had.
LEMMA PtrBack ==
    ASSUME NEW z \in Zones, NEW P, NEW ho, NEW st, Held(z, P, ho, st), NEW p \in P
    PROVE  /\ Held(ReleasedPtr(z, p.at), P \ {p}, ho, st)
           /\ ReleasedPtr(z, p.at).mpBase = z.mpBase
<1> DEFINE y == ReleasedPtr(z, p.at)
<1>1. Heap(z, Walked(z)) /\ UsedOf(z, Walked(z)) = Places(z, P)
  BY HeapIsWalked DEF Held
<1>2. p.at \in UsedOf(z, Walked(z))
  BY <1>1 DEF Places
<1>3. /\ y \in Zones /\ y.mpBase = z.mpBase
      /\ \E B2 : Heap(y, B2) /\ UsedOf(y, B2) = UsedOf(z, Walked(z)) \ {p.at}
      /\ \A d \in UsedOf(z, Walked(z)) \ {p.at} : Kept(z, y, d)
  BY <1>1, <1>2, ReleasedPtrSound
<1> HIDE DEF y
<1>4. HeapIs(y, Places(z, P) \ {p.at}) /\ \A d \in Places(z, P) \ {p.at} : Kept(z, y, d)
  BY <1>1, <1>3 DEF HeapIs
<1>5. \A h \in Masters : y.mpBase[h] = z.mpBase[h]
  BY <1>3
<1>6. Held(y, P \ {p}, ho, st)
  BY <1>3, <1>4, <1>5, HeldPtrLess
<1> QED
  BY <1>3, <1>6 DEF y

\* After DisposeHandle the others hold what they had.
LEMMA HandleBack ==
    ASSUME NEW z \in Zones, NEW P, NEW ho, NEW st, Held(z, P, ho, st), NEW i \in Using(z),
           NEW ho2, \A k \in Using(z) \ {i} : ho2[k] > 0,
           NEW st2, \A k \in Using(z) \ {i} : st2[k] = st[k]
    PROVE  /\ Held(ReleasedHandle(z, i), P, ho2, st2)
           /\ \A k \in Masters :
                 ReleasedHandle(z, i).mpBase[k] = IF k = i THEN Null ELSE z.mpBase[k]
<1> DEFINE y == ReleasedHandle(z, i)
           b == z.mpBase[i]
<1>1. Heap(z, Walked(z)) /\ UsedOf(z, Walked(z)) = Places(z, P)
  BY HeapIsWalked DEF Held
<1>2. b \in UsedOf(z, Walked(z)) /\ i \in Masters
  BY <1>1 DEF Places, Using
<1>3. /\ y \in Zones /\ \A k \in Masters : y.mpBase[k] = IF k = i THEN Null ELSE z.mpBase[k]
      /\ \E B2 : Heap(y, B2) /\ UsedOf(y, B2) = UsedOf(z, Walked(z)) \ {b}
      /\ \A d \in UsedOf(z, Walked(z)) \ {b} : Kept(z, y, d)
  BY <1>1, <1>2, ReleasedHandleSound
<1> HIDE DEF y
<1>4. HeapIs(y, Places(z, P) \ {b}) /\ \A d \in Places(z, P) \ {b} : Kept(z, y, d)
  BY <1>1, <1>3 DEF HeapIs
<1>5. Held(y, P, ho2, st2)
  BY <1>3, <1>4, HeldHandleLess
<1> QED
  BY <1>3, <1>5 DEF y

\* Only flags of a handle's block change, and not those that say what it is.
LEMMA HandleFlagged ==
    ASSUME NEW z \in Zones, NEW P, NEW ho, NEW st, Held(z, P, ho, st), NEW i \in Using(z),
           NEW y \in Rewrites(z), Inside(z, y, z.mpBase[i]),
           Flags(y, z.mpBase[i]) \cap Kinds = Flags(z, z.mpBase[i]) \cap Kinds,
           MasterPtr(y, z.mpBase[i]) = MasterPtr(z, z.mpBase[i]),
           \A a : a \notin {z.mpBase[i], z.mpBase[i] + 1} => Cell(y, a) = Cell(z, a)
    PROVE  Held(y, P, ho, st)
<1> DEFINE b == z.mpBase[i]
<1>1. Heap(z, Walked(z)) /\ UsedOf(z, Walked(z)) = Places(z, P)
  BY HeapIsWalked DEF Held
<1>2. b \in UsedOf(z, Walked(z)) /\ i \in Masters /\ HandleIs(z, b, i, st[i])
  BY <1>1 DEF Places, Using, Held, Contents
<1>3. "FREE" \notin Flags(y, b)
  <2>1. Flags(y, b) \cap Kinds = {"HANDLE"} /\ "FREE" \in Kinds /\ "FREE" # "HANDLE"
    BY <1>2 DEF HandleIs, Kinds
  <2> QED
    BY <2>1
<1>4. y \in Zones /\ y.bytesUsed = z.bytesUsed /\ y.mpBase = z.mpBase
  BY DEF Rewrites
<1>5. /\ Heap(y, Walked(z)) /\ UsedOf(y, Walked(z)) = UsedOf(z, Walked(z))
      /\ \A d \in UsedOf(z, Walked(z)) \ {b} : Kept(z, y, d)
  <2>1. Inside(z, y, b)
    OBVIOUS
  <2> HIDE DEF b
  <2> QED
    BY <1>1, <1>2, <1>3, <1>4, <2>1, HeapInside
<1>6. HeapIs(y, Places(z, P)) /\ \A d \in Places(z, P) \ {b} : Kept(z, y, d)
  BY <1>1, <1>5 DEF HeapIs
<1>7. HandleIs(y, b, i, st[i])
  <2>1. b \in Nat /\ st[i] \in Nat /\ HoldsIn(z, b + 2, st[i], Data(i))
    BY <1>2 DEF HandleIs
  <2>2. Size(y, b) = Size(z, b)
    BY <2>1, InsideCompose
  <2>3. HoldsIn(y, b + 2, st[i], Data(i))
    <3>1. \A a \in b + 2 .. b + 2 + st[i] - 1 : a \notin {b, b + 1}
      BY <2>1
    <3> QED
      BY <2>1, <3>1 DEF HoldsIn
  <2> QED
    BY <1>2, <2>1, <2>2, <2>3 DEF HandleIs
<1> QED
  BY <1>4, <1>6, <1>7, HeldWritten

\* After SetHandleSize its client holds as much of its data as both sizes have room
\* for, in the new block.
LEMMA HandleResized ==
    ASSUME NEW z \in Zones, NEW P, NEW ho, NEW st, Held(z, P, ho, st),
           NEW b \in FreeOf(z, Walked(z)), NEW n \in Nat, NEW need \in Nat,
           need >= 3, n + 2 <= need, need <= Size(z, b),
           NEW j \in Masters, j \notin Using(z), NEW i \in Using(z), i \in Masters,
           NEW old, old = z.mpBase[i], NEW size, size = Size(z, old) - 2,
           NEW st2, \A k \in Using(z) \ {i} : st2[k] = st[k], st2[i] = Least(st[i], n)
    PROVE  LET y == Resized(HandlePlaced(z, b, need, n, j), i, old, size, n, j) IN
           /\ y \in Zones /\ Held(y, P, ho, st2)
           /\ \A k \in Masters : y.mpBase[k] = IF k = j THEN Null
                                               ELSE IF k = i THEN b ELSE z.mpBase[k]
           /\ b # old
<1> DEFINE x == HandlePlaced(z, b, need, n, j)
           ho1 == [k \in Masters |-> IF k = j THEN 1 ELSE ho[k]]
           st1 == [k \in Masters |-> IF k = j THEN n ELSE st[k]]
           y == Resized(x, i, old, size, n, j)
<1>0. i # j /\ Using(z) \subseteq Masters
  BY DEF Using
<1>1. /\ x \in Zones /\ Held(x, P, ho1, st1)
      /\ \A k \in Masters : x.mpBase[k] = IF k = j THEN b ELSE z.mpBase[k]
      /\ b \in Nat /\ b \notin Places(z, P) /\ \A d \in Places(z, P) : Kept(z, x, d)
      /\ n + 2 <= Size(x, b)
  <2>1. /\ \A k \in Using(z) \cup {j} : ho1[k] > 0
        /\ \A k \in Using(z) : st1[k] = st[k]
        /\ st1[j] = n
    BY <1>0 DEF Held, Contents
  <2> HIDE DEF ho1, st1
  <2> QED
    BY <2>1, HandleGiven
<1> HIDE DEF x
<1>2. /\ old \in Places(z, P) /\ old # b /\ Kept(z, x, old)
      /\ HandleIs(z, old, i, st[i])
  BY <1>1 DEF Places, Held, Contents
<1>3. /\ Size(x, old) = Size(z, old) /\ Flags(x, old) = Flags(z, old)
      /\ HandleIs(x, old, i, st[i])
  <2>1. st[i] \in Nat /\ st[i] <= st[i]
    BY <1>2 DEF HandleIs
  <2> QED
    BY <1>2, <2>1, KeptReads, ContentsKept
<1>4. Heap(x, Walked(x)) /\ UsedOf(x, Walked(x)) = Places(x, P)
  BY <1>1, HeapIsWalked DEF Held
<1>5. /\ x.mpBase[j] = b /\ x.mpBase[i] = old
      /\ i \in Using(x) /\ j \in Using(x)
      /\ b \in Places(x, P) /\ old \in Places(x, P)
  <2>1. x.mpBase[j] = b /\ x.mpBase[i] = old
    BY <1>0, <1>1
  <2>2. i \in Using(x) /\ j \in Using(x)
    BY <1>1, <2>1, ConstantsType DEF Using
  <2> QED
    BY <2>1, <2>2 DEF Places
<1>6. /\ y \in Zones
      /\ \A k \in Masters : y.mpBase[k] = IF k = j THEN Null
                                          ELSE IF k = i THEN b ELSE x.mpBase[k]
      /\ \E B2 : Heap(y, B2) /\ UsedOf(y, B2) = UsedOf(x, Walked(x)) \ {old}
      /\ \A d \in UsedOf(x, Walked(x)) \ {old, b} : Kept(x, y, d)
      /\ Size(y, b) = Size(x, b) /\ Flags(y, b) = Flags(x, old)
      /\ MasterPtr(y, b) = i
      /\ \A m \in Nat : \A w :
            m <= Least(size, n) /\ HoldsIn(x, old + 2, m, w) => HoldsIn(y, b + 2, m, w)
  <2>1. /\ b \in UsedOf(x, Walked(x)) /\ old \in UsedOf(x, Walked(x))
        /\ MasterPtr(x, old) = i /\ size = Size(x, old) - 2
    BY <1>3, <1>4, <1>5 DEF HandleIs
  <2>2. /\ x \in Zones /\ Heap(x, Walked(x)) /\ i \in Masters /\ j \in Masters /\ j # i
        /\ b # old /\ x.mpBase[j] = b /\ x.mpBase[i] = old
        /\ n \in Nat /\ n + 2 <= Size(x, b)
    BY <1>0, <1>1, <1>2, <1>4, <1>5
  <2> HIDE DEF y
  <2>3. LET v == Resized(x, i, old, size, n, j) IN
        /\ v \in Zones
        /\ \A k \in Masters : v.mpBase[k] = IF k = j THEN Null
                                            ELSE IF k = i THEN b ELSE x.mpBase[k]
        /\ \E B2 : Heap(v, B2) /\ UsedOf(v, B2) = UsedOf(x, Walked(x)) \ {old}
        /\ \A d \in UsedOf(x, Walked(x)) \ {old, b} : Kept(x, v, d)
        /\ Size(v, b) = Size(x, b) /\ Flags(v, b) = Flags(x, old)
        /\ MasterPtr(v, b) = i
        /\ \A m \in Nat : \A w :
              m <= Least(size, n) /\ HoldsIn(x, old + 2, m, w) => HoldsIn(v, b + 2, m, w)
    BY ONLY <2>1, <2>2, ResizedSound, SMTT(60)
  <2> QED
    BY <2>3 DEF y
<1> HIDE DEF y
<1>7. HandleIs(y, b, i, st2[i])
  <2>1. /\ st[i] \in Nat /\ st[i] + 2 <= Size(x, old) /\ Size(x, old) \in Nat
        /\ HoldsIn(x, old + 2, st[i], Data(i)) /\ old \in Nat
        /\ Flags(x, old) \cap Kinds = {"HANDLE"}
    BY <1>1, <1>3, Reads DEF HandleIs
  <2>2. /\ st2[i] \in Nat /\ st2[i] <= st[i] /\ st2[i] <= n /\ st2[i] <= Least(size, n)
    BY <1>3, <2>1 DEF Least
  <2>3. HoldsIn(x, old + 2, st2[i], Data(i))
    <3>1. \A a \in old + 2 .. old + 2 + st2[i] - 1 : a \in old + 2 .. old + 2 + st[i] - 1
      BY <2>1, <2>2
    <3> QED
      BY <2>1, <3>1 DEF HoldsIn
  <2>4. HoldsIn(y, b + 2, st2[i], Data(i))
    BY <1>6, <2>2, <2>3
  <2>5. st2[i] + 2 <= Size(y, b)
    <3>1. Size(x, b) \in Nat
      BY <1>1, Reads
    <3> QED
      BY <1>1, <1>6, <2>2, <3>1
  <2> QED
    BY <1>1, <1>6, <2>1, <2>2, <2>4, <2>5 DEF HandleIs
<1>8. HeapIs(y, Places(x, P) \ {old}) /\ \A d \in Places(x, P) \ {old, b} : Kept(x, y, d)
  BY <1>4, <1>6 DEF HeapIs
<1>9. Using(x) = Using(z) \cup {j}
  BY <1>1, <1>0, ConstantsType DEF Using
<1>10. /\ \A k \in Using(x) \ {j} : ho[k] > 0
       /\ \A k \in Using(x) \ {i, j} : st2[k] = st1[k]
  BY <1>0, <1>9 DEF Held, Contents
<1>11. Held(y, P, ho, st2)
  <2> HIDE DEF st1, ho1
  <2> QED
    BY <1>0, <1>1, <1>5, <1>6, <1>7, <1>8, <1>10, HeldResized
<1>12. \A k \in Masters : y.mpBase[k] = IF k = j THEN Null
                                        ELSE IF k = i THEN b ELSE z.mpBase[k]
  BY <1>1, <1>6
<1> QED
  BY <1>2, <1>6, <1>11, <1>12 DEF y, x

\* The master pointers and the accounts of y may differ from those of z, as long as
\* no handle gets or loses a block.
LEMMA SameHeapHeld ==
    ASSUME NEW z \in Zones, NEW y \in Zones, NEW P, NEW ho, NEW st, Held(z, P, ho, st),
           SameHeap(z, y), y.bytesUsed = z.bytesUsed,
           \A h \in Masters : \/ y.mpBase[h] = z.mpBase[h]
                              \/ y.mpBase[h] \in {Null, Reserved} /\ z.mpBase[h] \in {Null, Reserved}
    PROVE  Held(y, P, ho, st) /\ Walked(y) = Walked(z) /\ \A a : Cell(y, a) = Cell(z, a)
<1>1. \A a : Cell(y, a) = Cell(z, a)
  BY DEF SameHeap, Cell
<1>2. \A d : Kept(z, y, d)
  BY <1>1 DEF Kept
<1>3. Heap(z, Walked(z)) /\ UsedOf(z, Walked(z)) = Places(z, P)
  BY HeapIsWalked DEF Held
<1>4. Heap(y, Walked(z)) /\ UsedOf(y, Walked(z)) = UsedOf(z, Walked(z))
  BY <1>3, SameHeapSound
<1>5. HeapIs(y, Places(z, P))
  BY <1>3, <1>4 DEF HeapIs
<1>6. \A h \in Using(z) : st[h] \in Nat /\ st[h] <= st[h]
  BY DEF Held, Contents, HandleIs
<1>7. Held(y, P, ho, st)
  BY <1>2, <1>5, <1>6, HeldSame
<1>8. Walked(y) = Walked(z)
  BY <1>4, WalkedAre DEF Heap, Sound
<1> QED
  BY <1>1, <1>7, <1>8

-----------------------------------------------------------------------------
(* The inductive invariant of the heap while nothing has disturbed it.       *)

\* A request asks for room for its data and a header, and a canary if it is NewPtr's.
RequestFits == pc # "idle" =>
    /\ request.need >= 3
    /\ request.op = "ptr" => request.need = request.size + 3
    /\ request.op # "ptr" => request.size + 2 <= request.need

\* Only the request that walks has a master pointer reserved.
MastersReserved ==
    /\ \A h \in Masters : zone.mpBase[h] = Reserved => pc # "idle" /\ request.mp = h
    /\ pc # "idle" /\ request.mp \in Masters => zone.mpBase[request.mp] = Reserved

\* SetHandleSize knows how long its handle's block is, while the handle has it.
OldIsKnown == pc # "idle" /\ request.op = "resize" =>
    /\ request.old \in Nat
    /\ zone.mpBase[request.h] = request.old => request.oldSize = Size(zone, request.old) - 2

\* A walk is at a block or at the end. What CompactMem has behind it up to scan is
\* nothing or one free block, whose prevSize it knows.
WalkIsAtBlocks ==
    /\ pc # "idle" => walk.scan \in Walked(zone) \cup {ZoneSize}
    /\ pc = "compact" =>
          /\ walk.dest \in Walked(zone) \cup {ZoneSize}
          /\ \/ walk.dest = walk.scan
             \/ /\ walk.dest \in FreeOf(zone, Walked(zone))
                /\ walk.dest + Size(zone, walk.dest) = walk.scan
          /\ walk.dest \in Walked(zone) /\ walk.dest # 0 => walk.last = PrevSize(zone, walk.dest)

CalmInv == ~disturbed =>
    /\ Held(zone, ptrs, holders, stored)
    /\ MastersReserved /\ OldIsKnown /\ WalkIsAtBlocks

SoundInv == MemoryInv /\ RequestFits /\ CalmInv

\* A call that is done leaves the rest of the invariant as it was.
LEMMA CallDone ==
    ASSUME CalmInv, ~disturbed, pc = "idle", pc' = "idle",
           \A h \in Masters : zone'.mpBase[h] = Reserved => zone.mpBase[h] = Reserved,
           Held(zone', ptrs', holders', stored')
    PROVE  CalmInv'
<1>1. MastersReserved'
  BY DEF CalmInv, MastersReserved
<1>2. OldIsKnown' /\ WalkIsAtBlocks'
  BY DEF OldIsKnown, WalkIsAtBlocks
<1> QED
  BY <1>1, <1>2 DEF CalmInv

\* The facts a step starts from.
LEMMA CalmFacts ==
    ASSUME SoundInv, ~disturbed
    PROVE  /\ zone \in Zones /\ Held(zone, ptrs, holders, stored)
           /\ Heap(zone, Walked(zone))
           /\ HeapIs(zone, Places(zone, ptrs))
           /\ UsedOf(zone, Walked(zone)) = Places(zone, ptrs)
           /\ Tiles(zone, Walked(zone)) /\ 0 \in Walked(zone)
           /\ MastersReserved /\ OldIsKnown /\ WalkIsAtBlocks
<1>1. zone \in Zones /\ Held(zone, ptrs, holders, stored)
      /\ MastersReserved /\ OldIsKnown /\ WalkIsAtBlocks
  BY DEF SoundInv, MemoryInv, ZoneInv, CalmInv
<1>2. HeapIs(zone, Places(zone, ptrs))
  BY <1>1 DEF Held
<1>3. Heap(zone, Walked(zone)) /\ UsedOf(zone, Walked(zone)) = Places(zone, ptrs)
  BY <1>1, <1>2, HeapIsWalked
<1>4. Tiles(zone, Walked(zone)) /\ 0 \in Walked(zone)
  BY <1>3 DEF Heap, Sound, Tiles
<1> QED
  BY <1>1, <1>2, <1>3, <1>4

\* A call that starts a walk starts it at the first block.
LEMMA WalkBegun ==
    ASSUME SoundInv, ~disturbed, pc = "idle", NEW z \in Zones, NEW r, StartWalk(z, r),
           SameHeap(zone, z), z.bytesUsed = zone.bytesUsed,
           \A h \in Masters : z.mpBase[h] = IF h = r.mp THEN Reserved ELSE zone.mpBase[h],
           r.mp \in Masters => zone.mpBase[r.mp] = Null,
           r.op = "resize" => r.old \in Nat /\ r.oldSize = Size(zone, r.old) - 2
    PROVE  CalmInv'
<1>1. /\ zone' = z /\ pc' = "purge" /\ walk' = NoWalk /\ request' = r
      /\ UNCHANGED <<ptrs, holders, stored, locks, purged, disturbed>>
  BY DEF StartWalk, clientVars
<1>2. /\ zone \in Zones /\ Held(zone, ptrs, holders, stored) /\ 0 \in Walked(zone)
      /\ MastersReserved
  BY CalmFacts
<1>3. \A h \in Masters : \/ z.mpBase[h] = zone.mpBase[h]
                         \/ z.mpBase[h] \in {Null, Reserved} /\ zone.mpBase[h] \in {Null, Reserved}
  OBVIOUS
<1>4. /\ Held(z, ptrs, holders, stored) /\ Walked(z) = Walked(zone)
      /\ \A a : Cell(z, a) = Cell(zone, a)
  BY <1>2, <1>3, SameHeapHeld
<1>5. WalkIsAtBlocks'
  BY <1>1, <1>2, <1>4 DEF WalkIsAtBlocks, NoWalk
<1>6. OldIsKnown'
  <2>1. Size(z, r.old) = Size(zone, r.old)
    BY <1>4 DEF Size
  <2> QED
    BY <1>1, <2>1 DEF OldIsKnown
<1>7. MastersReserved'
  <2>1. \A h \in Masters : zone.mpBase[h] # Reserved
    BY <1>2 DEF MastersReserved
  <2> QED
    BY <1>1, <2>1 DEF MastersReserved
<1> QED
  BY <1>1, <1>4, <1>5, <1>6, <1>7 DEF CalmInv

\* NewPtr keeps CalmInv.
LEMMA NewPtrCalm ==
    ASSUME SoundInv, ~disturbed, NEW n \in PtrSizes, NewPtr(n)
    PROVE  CalmInv'
<1> DEFINE need == n + HeaderSize + 1
           fit == FindFit(zone, need)
<1>1. /\ zone \in Zones /\ Held(zone, ptrs, holders, stored)
      /\ HeapIs(zone, Places(zone, ptrs))
  BY CalmFacts
<1>2. n \in Nat /\ need \in Nat /\ need = n + 3 /\ pc = "idle" /\ CalmInv
  BY MemoryAssumption DEF HeaderSize, NewPtr, MayCall, SoundInv
<1> HIDE DEF need
<1>3. /\ fit.zone = zone
      /\ \/ fit.found \in FreeOf(zone, Walked(zone)) /\ need <= Size(zone, fit.found)
         \/ fit.found = Null /\ \A d \in FreeOf(zone, Walked(zone)) : Size(zone, d) < need
  BY <1>1, <1>2, FitIs
<1> HIDE DEF fit
<1>4. CASE fit.found # Null
  <2>1. /\ zone' = PtrPlaced(zone, fit.found, n + 3, n)
        /\ ptrs' = ptrs \cup {[at |-> fit.found, size |-> n]}
        /\ UNCHANGED <<pc, holders, stored>>
    BY <1>2, <1>3, <1>4 DEF NewPtr, walkVars, fit, need
  <2>2. fit.found \in FreeOf(zone, Walked(zone)) /\ n + 3 <= Size(zone, fit.found)
    BY <1>2, <1>3, <1>4
  <2>3. Held(zone', ptrs', holders, stored) /\ zone'.mpBase = zone.mpBase
    BY <1>1, <1>2, <2>1, <2>2, PtrGiven
  <2>4. Held(zone', ptrs', holders', stored')
    BY <2>1, <2>3
  <2> QED
    BY <1>2, <2>1, <2>3, <2>4, CallDone
<1>5. CASE fit.found = Null
  <2> DEFINE r == [NoRequest EXCEPT !.op = "ptr", !.size = n, !.need = need]
  <2>1. StartWalk(zone, r)
    BY <1>3, <1>5 DEF NewPtr, fit, need
  <2>2. r.op = "ptr" /\ r.mp = Null /\ Null \notin Masters
    BY ConstantsType DEF NoRequest
  <2> HIDE DEF r
  <2>3. SameHeap(zone, zone)
    BY <1>1 DEF SameHeap
  <2> QED
    BY <1>1, <1>2, <2>1, <2>2, <2>3, WalkBegun
<1> QED
  BY <1>4, <1>5

\* DisposePtr keeps CalmInv.
LEMMA DisposePtrCalm ==
    ASSUME SoundInv, ~disturbed, NEW p \in ptrs, DisposePtr(p)
    PROVE  CalmInv'
<1>1. zone \in Zones /\ Held(zone, ptrs, holders, stored) /\ CalmInv
  BY CalmFacts DEF SoundInv
<1>2. /\ pc = "idle" /\ zone' = ReleasedPtr(zone, p.at) /\ ptrs' = ptrs \ {p}
      /\ UNCHANGED <<pc, holders, stored>>
  BY DEF DisposePtr, MayCall, walkVars
<1>3. /\ Held(ReleasedPtr(zone, p.at), ptrs \ {p}, holders, stored)
      /\ ReleasedPtr(zone, p.at).mpBase = zone.mpBase
  BY <1>1, PtrBack
<1>4. Held(zone', ptrs', holders', stored')
  BY <1>2, <1>3
<1> QED
  BY <1>1, <1>2, <1>3, <1>4, CallDone

\* What NewHandle and SetHandleSize look for has room for a header and the data.
LEMMA HandleNeeds ==
    ASSUME NEW n \in HandleSizes \cup Resizes
    PROVE  n \in Nat /\ HandleNeed(n) \in Nat /\ HandleNeed(n) >= 3 /\ n + 2 <= HandleNeed(n)
<1>1. n \in Nat
  BY MemoryAssumption
<1> QED
  BY <1>1 DEF HandleNeed, HeaderSize, MinBlockSize

\* A handle that clients may be given next has no block.
LEMMA FirstMasterSpare ==
    ASSUME SoundInv, FreeMasters # {}
    PROVE  /\ FirstMaster \in Masters /\ zone.mpBase[FirstMaster] = Null
           /\ FirstMaster \notin Using(zone)
<1>1. FirstMaster \in Masters /\ zone.mpBase[FirstMaster] = Null
  BY FirstMasterIs DEF SoundInv
<1> QED
  BY <1>1 DEF Using

\* Giving a handle to one more client.
LEMMA GivenCounts ==
    ASSUME SoundInv, ~disturbed, NEW i \in Masters, NEW n, GivenTo(i, n), i \notin Using(zone)
    PROVE  /\ \A k \in Using(zone) \cup {i} : holders'[k] > 0
           /\ \A k \in Using(zone) : stored'[k] = stored[k]
           /\ stored'[i] = n
<1>1. /\ holders \in [Masters -> 0 .. MaxHolders] /\ stored \in [Masters -> HandleSizes \cup Resizes \cup {0}]
      /\ \A k \in Using(zone) : holders[k] > 0
  BY CalmFacts DEF SoundInv, MemoryInv, ClientInv, Held, Contents
<1>2. Using(zone) \subseteq Masters /\ holders[i] + 1 > 0
  BY <1>1, MemoryAssumption DEF Using
<1> QED
  BY <1>1, <1>2 DEF GivenTo

\* NewHandle keeps CalmInv.
LEMMA NewHandleCalm ==
    ASSUME SoundInv, ~disturbed, NEW n \in HandleSizes, NewHandle(n)
    PROVE  CalmInv'
<1> DEFINE need == HandleNeed(n)
           fit == FindFit(zone, need)
           i == FirstMaster
<1>1. /\ zone \in Zones /\ Held(zone, ptrs, holders, stored)
      /\ HeapIs(zone, Places(zone, ptrs)) /\ MastersReserved
  BY CalmFacts
<1>2. n \in Nat /\ need \in Nat /\ need >= 3 /\ n + 2 <= need /\ pc = "idle" /\ CalmInv
  BY HandleNeeds DEF NewHandle, MayCall, SoundInv
<1>3. i \in Masters /\ zone.mpBase[i] = Null /\ i \notin Using(zone)
  BY FirstMasterSpare DEF NewHandle
<1> HIDE DEF need, i
<1>4. /\ fit.zone = zone
      /\ \/ fit.found \in FreeOf(zone, Walked(zone)) /\ need <= Size(zone, fit.found)
         \/ fit.found = Null /\ \A d \in FreeOf(zone, Walked(zone)) : Size(zone, d) < need
  BY <1>1, <1>2, FitIs
<1> HIDE DEF fit
<1>5. CASE fit.found # Null
  <2>1. /\ zone' = HandlePlaced(zone, fit.found, need, n, i) /\ GivenTo(i, n)
        /\ UNCHANGED <<pc, ptrs>>
    BY <1>4, <1>5 DEF NewHandle, walkVars, fit, need, i
  <2>2. fit.found \in FreeOf(zone, Walked(zone)) /\ need <= Size(zone, fit.found)
    BY <1>4, <1>5
  <2>3. /\ \A k \in Using(zone) \cup {i} : holders'[k] > 0
        /\ \A k \in Using(zone) : stored'[k] = stored[k]
        /\ stored'[i] = n
    BY <1>3, <2>1, GivenCounts
  <2>4. LET y == HandlePlaced(zone, fit.found, need, n, i) IN
        /\ y \in Zones /\ Held(y, ptrs, holders', stored')
        /\ \A k \in Masters : y.mpBase[k] = IF k = i THEN fit.found ELSE zone.mpBase[k]
        /\ fit.found \in Nat
    BY <1>1, <1>2, <1>3, <2>2, <2>3, HandleGiven
  <2>5. \A k \in Masters : zone'.mpBase[k] = Reserved => zone.mpBase[k] = Reserved
    BY <2>1, <2>4, ConstantsType
  <2>6. Held(zone', ptrs', holders', stored')
    BY <2>1, <2>4
  <2> QED
    BY <1>2, <2>1, <2>5, <2>6, CallDone
<1>6. CASE fit.found = Null
  <2> DEFINE r == [NoRequest EXCEPT !.op = "handle", !.size = n, !.need = need, !.mp = i]
             z == Pointed(zone, i, Reserved)
  <2>1. StartWalk(z, r)
    BY <1>4, <1>6 DEF NewHandle, fit, need, i, Pointed
  <2>2. r.op = "handle" /\ r.mp = i
    BY DEF NoRequest
  <2> HIDE DEF r
  <2>4. /\ z \in Zones /\ SameHeap(zone, z) /\ z.bytesUsed = zone.bytesUsed
        /\ \A k \in Masters : z.mpBase[k] = IF k = i THEN Reserved ELSE zone.mpBase[k]
    BY <1>1, <1>3, ReservedIs
  <2> HIDE DEF z
  <2> QED
    BY <1>2, <1>3, <2>1, <2>2, <2>4, WalkBegun
<1> QED
  BY <1>5, <1>6

\* What is said of contents depends only on the counts of handles that have a block.
LEMMA ContentsCounts ==
    ASSUME NEW z, NEW P, NEW ho, NEW st, Held(z, P, ho, st),
           NEW ho2, \A k \in Using(z) : ho2[k] > 0,
           NEW st2, \A k \in Using(z) : st2[k] = st[k]
    PROVE  Held(z, P, ho2, st2)
  BY DEF Held, Contents

\* DisposeHandle keeps CalmInv, of a handle that was purged too.
LEMMA DisposeHandleCalm ==
    ASSUME SoundInv, ~disturbed, NEW h \in Masters, DisposeHandle(h)
    PROVE  CalmInv'
<1>1. zone \in Zones /\ Held(zone, ptrs, holders, stored) /\ CalmInv /\ MastersReserved
  BY CalmFacts DEF SoundInv
<1>2. /\ pc = "idle" /\ zone' = ReleasedHandle(zone, h)
      /\ holders' = [holders EXCEPT ![h] = @ - 1]
      /\ stored' = [stored EXCEPT ![h] = IF holders[h] = 1 THEN 0 ELSE @]
      /\ UNCHANGED <<pc, ptrs>>
  BY DEF DisposeHandle, MayCall, walkVars
<1>3. /\ holders \in [Masters -> 0 .. MaxHolders] /\ stored \in [Masters -> HandleSizes \cup Resizes \cup {0}]
      /\ \A k \in Using(zone) : holders[k] > 0
      /\ Using(zone) \subseteq Masters
  BY <1>1 DEF SoundInv, MemoryInv, ClientInv, Held, Contents, Using
<1>4. /\ \A k \in Using(zone) \ {h} : holders'[k] > 0
      /\ \A k \in Using(zone) \ {h} : stored'[k] = stored[k]
  BY <1>2, <1>3
<1>5. CASE h \in Using(zone)
  <2>1. /\ Held(ReleasedHandle(zone, h), ptrs, holders', stored')
        /\ \A k \in Masters :
              ReleasedHandle(zone, h).mpBase[k] = IF k = h THEN Null ELSE zone.mpBase[k]
    BY <1>1, <1>4, <1>5, HandleBack
  <2>2. \A k \in Masters : zone'.mpBase[k] = Reserved => zone.mpBase[k] = Reserved
    BY <1>2, <2>1, ConstantsType
  <2>3. Held(zone', ptrs', holders', stored')
    BY <1>2, <2>1
  <2> QED
    BY <1>1, <1>2, <2>2, <2>3, CallDone
<1>6. CASE h \notin Using(zone)
  <2>1. zone.mpBase[h] \notin Addr
    BY <1>6, ConstantsType DEF Using
  <2>2. zone' = zone
    BY <1>2, <2>1 DEF ReleasedHandle
  <2>3. Held(zone, ptrs, holders', stored')
    BY <1>1, <1>4, <1>6, ContentsCounts
  <2>4. Held(zone', ptrs', holders', stored')
    BY <1>2, <2>2, <2>3
  <2> QED
    BY <1>1, <1>2, <2>2, <2>4, CallDone
<1> QED
  BY <1>5, <1>6

\* What a change of the flags of b leaves as it was.
FlagsOnly(z, y, b) ==
    /\ y \in Rewrites(z) /\ Inside(z, y, b)
    /\ Flags(y, b) \cap Kinds = Flags(z, b) \cap Kinds
    /\ MasterPtr(y, b) = MasterPtr(z, b)
    /\ \A a : a \notin {b, b + 1} => Cell(y, a) = Cell(z, a)

\* Setting and clearing the lock and the purge bit, and counting locks, are such changes.
LEMMA FlagsSet ==
    ASSUME NEW z \in Zones, NEW b \in Addr, b + 1 \in Addr, NEW fs,
           fs \subseteq {"LOCKED", "PURGEABLE"}, NEW k \in Nat
    PROVE  /\ FlagsOnly(z, SetFlags(z, b, Flags(z, b) \cup fs), b)
           /\ FlagsOnly(z, SetFlags(z, b, Flags(z, b) \ fs), b)
           /\ LET x == SetLockCount(z, b, k) IN
              /\ x \in Zones /\ Flags(x, b) = Flags(z, b)
              /\ FlagsOnly(z, SetFlags(x, b, Flags(z, b) \cup fs), b)
              /\ FlagsOnly(z, SetFlags(x, b, Flags(z, b) \ fs), b)
<1> DEFINE more == Flags(z, b) \cup fs
           less == Flags(z, b) \ fs
           x == SetLockCount(z, b, k)
<1>0. b \in Nat
  BY ConstantsType
<1>1. /\ more \in SUBSET FlagNames /\ less \in SUBSET FlagNames
      /\ more \cap Kinds = Flags(z, b) \cap Kinds /\ less \cap Kinds = Flags(z, b) \cap Kinds
  <2>1. Flags(z, b) \in SUBSET FlagNames
    BY Reads
  <2>2. fs \cap Kinds = {} /\ fs \subseteq FlagNames
    BY DEF Kinds, FlagNames
  <2> QED
    BY <2>1, <2>2
<1> HIDE DEF more, less
<1>2. /\ x \in Rewrites(z) /\ x \in Zones /\ Inside(z, x, b) /\ Flags(x, b) = Flags(z, b)
      /\ MasterPtr(x, b) = MasterPtr(z, b)
      /\ \A a : a \notin {b, b + 1} => Cell(x, a) = Cell(z, a)
  BY HeaderInside, SetType, RewritesCompose
<1> HIDE DEF x
<1>3. ASSUME NEW gs \in {more, less} PROVE FlagsOnly(z, SetFlags(z, b, gs), b)
  <2>1. gs \in SUBSET FlagNames /\ gs \cap Kinds = Flags(z, b) \cap Kinds
    BY <1>1, <1>3
  <2>2. LET y == SetFlags(z, b, gs) IN
        /\ Inside(z, y, b) /\ Flags(y, b) = gs /\ MasterPtr(y, b) = MasterPtr(z, b)
        /\ \A a : a \notin {b, b + 1} => Cell(y, a) = Cell(z, a)
    BY <2>1, HeaderInside
  <2>3. SetFlags(z, b, gs) \in Rewrites(z)
    BY <2>1, SetType
  <2> QED
    BY <2>1, <2>2, <2>3 DEF FlagsOnly
<1>4. ASSUME NEW gs \in {more, less} PROVE FlagsOnly(z, SetFlags(x, b, gs), b)
  <2>1. gs \in SUBSET FlagNames /\ gs \cap Kinds = Flags(z, b) \cap Kinds
    BY <1>1, <1>4
  <2> DEFINE y == SetFlags(x, b, gs)
  <2>2. /\ Inside(x, y, b) /\ Flags(y, b) = gs /\ MasterPtr(y, b) = MasterPtr(x, b)
        /\ \A a : a \notin {b, b + 1} => Cell(y, a) = Cell(x, a)
    BY <1>2, <2>1, HeaderInside
  <2>3. y \in Rewrites(x)
    BY <1>2, <2>1, SetType
  <2> HIDE DEF y
  <2>4. Inside(z, y, b)
    BY <1>0, <1>2, <2>2, InsideCompose
  <2>5. y \in Rewrites(z)
    BY <1>2, <2>3, RewritesCompose
  <2>6. FlagsOnly(z, y, b)
    BY <1>2, <2>1, <2>2, <2>4, <2>5 DEF FlagsOnly
  <2> QED
    BY <2>6 DEF y
<1> QED
  BY <1>2, <1>3, <1>4 DEF more, less, x

\* HLock, HUnlock, HPurge and HNoPurge keep CalmInv.
LEMMA FlagsCalm ==
    ASSUME SoundInv, ~disturbed, NEW h \in Masters, HLock(h) \/ HUnlock(h) \/ HPurge(h) \/ HNoPurge(h)
    PROVE  CalmInv' /\ FlagsOnly(zone, zone', zone.mpBase[h]) /\ zone'.mpBase = zone.mpBase
<1> DEFINE b == zone.mpBase[h]
<1>1. /\ zone \in Zones /\ Held(zone, ptrs, holders, stored) /\ CalmInv
      /\ Heap(zone, Walked(zone)) /\ UsedOf(zone, Walked(zone)) = Places(zone, ptrs)
  BY CalmFacts DEF SoundInv
<1>2. pc = "idle" /\ b \in Addr /\ UNCHANGED <<pc, ptrs, holders, stored>>
  BY DEF HLock, HUnlock, HPurge, HNoPurge, MayCall, walkVars, clientVars
<1>3. h \in Using(zone)
  BY <1>2, ConstantsType DEF Using
<1>4. b + 1 \in Addr
  <2>1. b \in UsedOf(zone, Walked(zone))
    BY <1>1, <1>3 DEF Places
  <2> QED
    BY <1>1, <2>1, BlockPlace DEF UsedOf, Heap
<1> HIDE DEF b
<1>5. FlagsOnly(zone, zone', b)
  <2>1. CASE HLock(h)
    <3>1. zone' = SetFlags(SetLockCount(zone, b, LockCount(zone, b) + 1), b, Flags(zone, b) \cup {"LOCKED"})
      BY <2>1 DEF HLock, LockedBy, b
    <3>2. LockCount(zone, b) + 1 \in Nat /\ {"LOCKED"} \subseteq {"LOCKED", "PURGEABLE"}
      BY <1>1, Reads
    <3> QED
      BY <1>1, <1>2, <1>4, <3>1, <3>2, FlagsSet
  <2>2. CASE HUnlock(h)
    <3> DEFINE k == IF LockCount(zone, b) > 0 THEN LockCount(zone, b) - 1 ELSE 0
               fs == IF k = 0 THEN {"LOCKED"} ELSE {}
    <3>1. zone' = SetFlags(SetLockCount(zone, b, k), b, Flags(zone, b) \ fs)
      BY <2>2 DEF HUnlock, UnlockedBy, b
    <3>2. k \in Nat
      BY <1>1, Reads
    <3>3. fs \subseteq {"LOCKED", "PURGEABLE"}
      OBVIOUS
    <3> HIDE DEF k, fs
    <3> QED
      BY <1>1, <1>2, <1>4, <3>1, <3>2, <3>3, FlagsSet
  <2>3. CASE HPurge(h) \/ HNoPurge(h)
    <3>1. \/ zone' = SetFlags(zone, b, Flags(zone, b) \cup {"PURGEABLE"})
          \/ zone' = SetFlags(zone, b, Flags(zone, b) \ {"PURGEABLE"})
      BY <2>3 DEF HPurge, HNoPurge, b
    <3>2. {"PURGEABLE"} \subseteq {"LOCKED", "PURGEABLE"} /\ 0 \in Nat
      OBVIOUS
    <3> QED
      BY <1>1, <1>2, <1>4, <3>1, <3>2, FlagsSet
  <2> QED
    BY <2>1, <2>2, <2>3
<1>6. Held(zone', ptrs, holders, stored) /\ zone'.mpBase = zone.mpBase
  BY <1>1, <1>3, <1>5, HandleFlagged DEF FlagsOnly, b, Rewrites
<1>7. Held(zone', ptrs', holders', stored')
  BY <1>2, <1>6
<1>8. \A k \in Masters : zone'.mpBase[k] = Reserved => zone.mpBase[k] = Reserved
  BY <1>6
<1>9. CalmInv'
  BY <1>1, <1>2, <1>7, <1>8, CallDone
<1> QED
  BY <1>5, <1>6, <1>9 DEF b

\* SetHandleSize keeps CalmInv.
LEMMA SetHandleSizeCalm ==
    ASSUME SoundInv, ~disturbed, NEW h \in Masters, NEW n \in Resizes, SetHandleSize(h, n)
    PROVE  CalmInv'
<1> DEFINE need == HandleNeed(n)
           fit == FindFit(zone, need)
           i == FirstMaster
           b == zone.mpBase[h]
           size == Size(zone, b) - HeaderSize
<1>1. /\ zone \in Zones /\ Held(zone, ptrs, holders, stored)
      /\ HeapIs(zone, Places(zone, ptrs)) /\ MastersReserved
  BY CalmFacts
<1>2. n \in Nat /\ need \in Nat /\ need >= 3 /\ n + 2 <= need /\ pc = "idle" /\ CalmInv
  BY HandleNeeds DEF SetHandleSize, MayCall, SoundInv
<1>3. i \in Masters /\ zone.mpBase[i] = Null /\ i \notin Using(zone)
  BY FirstMasterSpare DEF SetHandleSize
<1>4. b \in Addr /\ b \in Nat /\ h \in Using(zone)
  BY ConstantsType DEF SetHandleSize, Using
<1>5. size = Size(zone, b) - 2 /\ b = zone.mpBase[h]
  BY DEF HeaderSize
<1> HIDE DEF need, i, size, b
<1>6. /\ fit.zone = zone
      /\ \/ fit.found \in FreeOf(zone, Walked(zone)) /\ need <= Size(zone, fit.found)
         \/ fit.found = Null /\ \A d \in FreeOf(zone, Walked(zone)) : Size(zone, d) < need
  BY <1>1, <1>2, FitIs
<1> HIDE DEF fit
<1>7. CASE fit.found # Null
  <2>1. /\ zone' = Resized(HandlePlaced(zone, fit.found, need, n, i), h, b, size, n, i)
        /\ stored' = [stored EXCEPT ![h] = Least(stored[h], n)]
        /\ UNCHANGED <<pc, ptrs, holders>>
    BY <1>6, <1>7 DEF SetHandleSize, walkVars, fit, need, i, b, size
  <2>2. fit.found \in FreeOf(zone, Walked(zone)) /\ need <= Size(zone, fit.found)
    BY <1>6, <1>7
  <2>3. (\A k \in Using(zone) \ {h} : stored'[k] = stored[k]) /\ stored'[h] = Least(stored[h], n)
    BY <2>1 DEF SoundInv, MemoryInv, ClientInv, Using
  <2>4. LET y == Resized(HandlePlaced(zone, fit.found, need, n, i), h, b, size, n, i) IN
        /\ y \in Zones /\ Held(y, ptrs, holders, stored')
        /\ \A k \in Masters : y.mpBase[k] = IF k = i THEN Null
                                            ELSE IF k = h THEN fit.found ELSE zone.mpBase[k]
        /\ fit.found # b
    BY <1>1, <1>2, <1>3, <1>4, <1>5, <2>2, <2>3, HandleResized
  <2>5. fit.found \in Nat
    BY <2>2, CalmFacts, BlockPlace DEF FreeOf, Heap
  <2>6. \A k \in Masters : zone'.mpBase[k] = Reserved => zone.mpBase[k] = Reserved
    BY <2>1, <2>4, <2>5, ConstantsType
  <2>7. Held(zone', ptrs', holders', stored')
    BY <2>1, <2>4
  <2> QED
    BY <1>2, <2>1, <2>6, <2>7, CallDone
<1>8. CASE fit.found = Null
  <2> DEFINE r == [op |-> "resize", size |-> n, need |-> need, mp |-> i, h |-> h,
                   old |-> b, oldSize |-> size]
             z == Pointed(zone, i, Reserved)
  <2>1. StartWalk(z, r)
    BY <1>6, <1>8 DEF SetHandleSize, fit, need, i, Pointed, b, size
  <2>2. r.mp = i /\ r.old = b /\ r.oldSize = size
    OBVIOUS
  <2> HIDE DEF r
  <2>3. /\ z \in Zones /\ SameHeap(zone, z) /\ z.bytesUsed = zone.bytesUsed
        /\ \A k \in Masters : z.mpBase[k] = IF k = i THEN Reserved ELSE zone.mpBase[k]
    BY <1>1, <1>3, ReservedIs
  <2> HIDE DEF z
  <2> QED
    BY <1>2, <1>3, <1>4, <1>5, <2>1, <2>2, <2>3, WalkBegun
<1> QED
  BY <1>7, <1>8

\* A change of size in place keeps CalmInv.
LEMMA ShrinkInPlaceCalm ==
    ASSUME SoundInv, ~disturbed, NEW h \in Masters, NEW n \in Resizes, ShrinkInPlace(h, n)
    PROVE  CalmInv'
<1>1. /\ zone \in Zones /\ Held(zone, ptrs, holders, stored)
      /\ HeapIs(zone, Places(zone, ptrs)) /\ CalmInv
  BY CalmFacts DEF SoundInv
<1>2. /\ pc = "idle" /\ n \in Nat /\ n < stored[h] /\ zone' = zone
      /\ stored' = [stored EXCEPT ![h] = n]
      /\ UNCHANGED <<pc, ptrs, holders>>
  BY MemoryAssumption DEF ShrinkInPlace, MayCall, walkVars
<1>3. \A k \in Using(zone) : stored[k] \in Nat /\ stored'[k] \in Nat /\ stored'[k] <= stored[k]
  <2>1. \A k \in Using(zone) : stored[k] \in Nat
    BY <1>1 DEF Held, Contents, HandleIs
  <2>2. \A k \in Using(zone) : stored'[k] = IF k = h THEN n ELSE stored[k]
    BY <1>2 DEF SoundInv, MemoryInv, ClientInv, Using
  <2> QED
    BY <1>2, <2>1, <2>2
<1>4. \A d : Kept(zone, zone, d)
  BY DEF Kept
<1>5. Held(zone, ptrs, holders, stored')
  BY <1>1, <1>3, <1>4, HeldSame
<1>6. Held(zone', ptrs', holders', stored')
  BY <1>2, <1>5
<1> QED
  BY <1>1, <1>2, <1>6, CallDone

-----------------------------------------------------------------------------
(* PurgeMem.                                                                *)

\* Where a block ends there is another one, or the end of the zone.
LEMMA BlockAt ==
    ASSUME SoundInv, ~disturbed, NEW b \in Walked(zone)
    PROVE  /\ b \in Nat /\ b < ZoneSize /\ ~BadSize(b) /\ Size(zone, b) \in Nat
           /\ Size(zone, b) >= 3
           /\ b + Size(zone, b) \in Walked(zone) \cup {ZoneSize} /\ b + Size(zone, b) > b
           /\ b + Size(zone, b) <= ZoneSize
<1>1. zone \in Zones /\ Tiles(zone, Walked(zone))
  BY CalmFacts
<1>2. /\ b \in Nat /\ b \in Addr /\ Size(zone, b) \in Nat /\ Size(zone, b) >= 3
      /\ b + Size(zone, b) <= ZoneSize /\ ZoneSize \in Nat
      /\ b + Size(zone, b) \in Walked(zone) \cup {ZoneSize}
  BY <1>1, TilesFit DEF Tiles
<1>3. b < ZoneSize /\ ~BadSize(b) /\ b + Size(zone, b) > b
  BY <1>2 DEF BadSize
<1> QED
  BY <1>2, <1>3

\* A walk whose scan is not at the end is at a block, and one that stops is at the end.
LEMMA ScanAt ==
    ASSUME SoundInv, ~disturbed, pc # "idle"
    PROVE  /\ walk.scan < ZoneSize => walk.scan \in Walked(zone)
           /\ walk.scan >= ZoneSize \/ BadSize(walk.scan) => walk.scan = ZoneSize
<1>1. walk.scan \in Walked(zone) \cup {ZoneSize} /\ ZoneSize \in Nat
  BY CalmFacts, ConstantsType DEF WalkIsAtBlocks
<1>2. walk.scan \in Walked(zone) => walk.scan \in Nat /\ walk.scan < ZoneSize /\ ~BadSize(walk.scan)
  BY BlockAt
<1> QED
  BY <1>1, <1>2

\* CompactMem starts at the first block.
LEMMA CompactingIsAtBlocks ==
    ASSUME NEW z \in Zones, Tiles(z, Walked(z)), zone' = z, CompactBegins
    PROVE  WalkIsAtBlocks'
<1>1. 0 \in Walked(z)
  BY DEF Tiles
<1> QED
  BY <1>1 DEF WalkIsAtBlocks, CompactBegins, NoWalk

\* A purge that goes on is at the block behind b.
LEMMA PurgingIsAtBlocks ==
    ASSUME NEW z \in Zones, Tiles(z, Walked(z)), NEW b \in Walked(z), zone' = z, pc = "purge",
           PurgeGoesOn(z, b)
    PROVE  WalkIsAtBlocks'
<1>1. CASE CompactBegins
  BY <1>1, CompactingIsAtBlocks
<1>2. CASE ~CompactBegins
  <2>1. pc' = "purge" /\ walk'.scan = b + Size(z, b)
    BY <1>2 DEF PurgeGoesOn, Turn
  <2>2. b + Size(z, b) \in Walked(z) \cup {ZoneSize}
    BY DEF Tiles
  <2> QED
    BY <2>1, <2>2 DEF WalkIsAtBlocks
<1> QED
  BY <1>1, <1>2

\* A turn of PurgeMem that passes a block keeps CalmInv.
LEMMA PurgePassesCalm ==
    ASSUME SoundInv, ~disturbed, PurgePasses
    PROVE  CalmInv'
<1>1. /\ zone \in Zones /\ Held(zone, ptrs, holders, stored) /\ Tiles(zone, Walked(zone))
      /\ MastersReserved /\ OldIsKnown
  BY CalmFacts
<1>2. /\ pc = "purge" /\ PurgeGoesOn(zone, walk.scan) /\ walk.scan < ZoneSize
      /\ UNCHANGED <<zone, request, ptrs, holders, stored, disturbed>>
      /\ pc' \in {"purge", "compact"}
  BY DEF PurgePasses, clientVars, PurgeGoesOn, CompactBegins
<1>3. walk.scan \in Walked(zone)
  BY <1>2, ScanAt
<1>4. WalkIsAtBlocks'
  BY <1>1, <1>2, <1>3, PurgingIsAtBlocks
<1>5. MastersReserved' /\ OldIsKnown'
  BY <1>1, <1>2 DEF MastersReserved, OldIsKnown
<1>6. Held(zone', ptrs', holders', stored')
  BY <1>1, <1>2
<1> QED
  BY <1>4, <1>5, <1>6 DEF CalmInv

\* The end of PurgeMem keeps CalmInv.
LEMMA PurgeEndsCalm ==
    ASSUME SoundInv, ~disturbed, PurgeEnds
    PROVE  CalmInv'
<1>1. /\ zone \in Zones /\ Held(zone, ptrs, holders, stored) /\ Tiles(zone, Walked(zone))
      /\ MastersReserved /\ OldIsKnown
  BY CalmFacts
<1>2. /\ pc = "purge" /\ CompactBegins /\ pc' = "compact"
      /\ UNCHANGED <<zone, request, ptrs, holders, stored, disturbed>>
  BY DEF PurgeEnds, clientVars, CompactBegins
<1>3. WalkIsAtBlocks'
  BY <1>1, <1>2, CompactingIsAtBlocks
<1>4. MastersReserved' /\ OldIsKnown'
  BY <1>1, <1>2 DEF MastersReserved, OldIsKnown
<1>5. Held(zone', ptrs', holders', stored')
  BY <1>1, <1>2
<1> QED
  BY <1>3, <1>4, <1>5 DEF CalmInv

\* A block that may be purged is a handle's.
LEMMA PurgedIsHandles ==
    ASSUME SoundInv, ~disturbed, NEW b \in Walked(zone), IsPurged(b)
    PROVE  \E h \in Using(zone) : b = zone.mpBase[h] /\ MasterPtr(zone, b) = h
<1>1. /\ Heap(zone, Walked(zone)) /\ UsedOf(zone, Walked(zone)) = Places(zone, ptrs)
      /\ Contents(zone, ptrs, holders, stored)
  BY CalmFacts DEF Held
<1>2. "HANDLE" \in Flags(zone, b)
  BY DEF IsPurged
<1>3. b \in Places(zone, ptrs)
  BY <1>1, <1>2 DEF Heap, Sound, Apart, FreeOf, UsedOf
<1>4. CASE \E p \in ptrs : b = p.at
  BY <1>1, <1>2, <1>4 DEF Contents, PtrIs, Kinds
<1>5. CASE \E h \in Using(zone) : b = zone.mpBase[h]
  BY <1>1, <1>5 DEF Contents, HandleIs
<1> QED
  BY <1>3, <1>4, <1>5 DEF Places

\* A turn of PurgeMem that frees a block keeps CalmInv.
LEMMA PurgeFreesCalm ==
    ASSUME SoundInv, ~disturbed, PurgeFrees
    PROVE  CalmInv'
<1> DEFINE b == walk.scan
           freed == PurgedZone(b)
<1>1. /\ zone \in Zones /\ Held(zone, ptrs, holders, stored) /\ HeapIs(zone, Places(zone, ptrs))
      /\ Heap(zone, Walked(zone)) /\ UsedOf(zone, Walked(zone)) = Places(zone, ptrs)
      /\ MastersReserved /\ OldIsKnown
  BY CalmFacts
<1>2. /\ pc = "purge" /\ b < ZoneSize /\ IsPurged(b)
      /\ zone' = AfterMaxMem(freed)
      /\ CompactBegins \/ PurgeGoesOn(freed, PurgedStart(b))
      /\ UNCHANGED <<request, ptrs, holders, stored, disturbed>>
      /\ pc' \in {"purge", "compact"}
  BY DEF PurgeFrees, PurgeGoesOn, CompactBegins
<1>3. b \in Walked(zone)
  BY <1>2, ScanAt
<1>4. PICK h \in Using(zone) : b = zone.mpBase[h] /\ MasterPtr(zone, b) = h
  BY <1>2, <1>3, PurgedIsHandles
<1>5. h \in Masters /\ b \in UsedOf(zone, Walked(zone))
  BY <1>1, <1>4 DEF Using, Places
<1> HIDE DEF b
<1>6. LET y == PurgedZone(b) IN
      /\ y \in Zones
      /\ \A k \in Masters :
            y.mpBase[k] = IF k = MasterPtr(zone, b) THEN Null ELSE zone.mpBase[k]
      /\ \E B2 : /\ Heap(y, B2) /\ PurgedStart(b) \in B2
                 /\ UsedOf(y, B2) = UsedOf(zone, Walked(zone)) \ {b}
      /\ \A d \in UsedOf(zone, Walked(zone)) \ {b} : Kept(zone, y, d)
  BY <1>1, <1>5, PurgedZoneSound
<1> HIDE DEF freed
<1>7. /\ freed \in Zones
      /\ \A k \in Masters : freed.mpBase[k] = IF k = h THEN Null ELSE zone.mpBase[k]
      /\ \A d \in Places(zone, ptrs) \ {zone.mpBase[h]} : Kept(zone, freed, d)
  BY <1>1, <1>4, <1>6 DEF freed
<1>8. PICK B2 : /\ Heap(freed, B2) /\ PurgedStart(b) \in B2
                /\ UsedOf(freed, B2) = Places(zone, ptrs) \ {zone.mpBase[h]}
  BY <1>1, <1>4, <1>6 DEF freed
<1>9. HeapIs(freed, Places(zone, ptrs) \ {zone.mpBase[h]})
  BY <1>8 DEF HeapIs
<1>10. Walked(freed) = B2 /\ Tiles(freed, Walked(freed)) /\ Stocked(freed, FreeOf(freed, B2))
  BY <1>7, <1>8, WalkedAre, SoundIsValid DEF Heap, Sound
<1>11. zone' = freed
  BY <1>2, <1>7, <1>10, MaxMemSees
<1>12. /\ \A k \in Using(zone) \ {h} : holders'[k] > 0
       /\ \A k \in Using(zone) \ {h} : stored'[k] = stored[k]
  BY <1>1, <1>2 DEF Held, Contents
<1>13. Held(freed, ptrs, holders', stored')
  BY <1>1, <1>4, <1>7, <1>9, <1>12, HeldHandleLess
<1>14. Held(zone', ptrs', holders', stored')
  BY <1>2, <1>11, <1>13
<1>15. WalkIsAtBlocks'
  <2>1. CASE CompactBegins
    BY <1>7, <1>10, <1>11, <2>1, CompactingIsAtBlocks
  <2>2. CASE PurgeGoesOn(freed, PurgedStart(b))
    <3>1. PurgedStart(b) \in Walked(freed)
      BY <1>8, <1>10
    <3> QED
      BY <1>2, <1>7, <1>10, <1>11, <2>2, <3>1, PurgingIsAtBlocks
  <2> QED
    BY <1>2, <2>1, <2>2
<1>16. MastersReserved'
  <2>1. \A k \in Masters : zone'.mpBase[k] = IF k = h THEN Null ELSE zone.mpBase[k]
    BY <1>7, <1>11
  <2>2. zone.mpBase[h] # Reserved
    BY <1>4 DEF Using
  <2> QED
    BY <1>1, <1>2, <2>1, <2>2, ConstantsType DEF MastersReserved
<1>17. OldIsKnown'
  <2> SUFFICES ASSUME request.op = "resize", zone'.mpBase[request.h] = request.old
               PROVE  request.oldSize = Size(zone', request.old) - 2
    BY <1>1, <1>2 DEF OldIsKnown
  <2>1. request.h \in Masters /\ request.old \in Nat
    BY <1>1, <1>2 DEF SoundInv, MemoryInv, RequestInv, OldIsKnown
  <2>2. request.h # h /\ zone.mpBase[request.h] = request.old
    BY <1>7, <1>11, <2>1, ConstantsType
  <2>3. request.h \in Using(zone) /\ request.old # zone.mpBase[h]
    <3>1. request.h \in Using(zone)
      BY <2>1, <2>2, ConstantsType DEF Using
    <3>2. zone.mpBase[request.h] # zone.mpBase[h]
      BY <1>1, <1>4, <2>2, <3>1, OwnersApart DEF Held
    <3> QED
      BY <2>2, <3>1, <3>2
  <2>4. Kept(zone, freed, request.old)
    BY <1>7, <2>2, <2>3 DEF Places
  <2>5. Size(freed, request.old) = Size(zone, request.old)
    BY <1>1, <2>4, KeptReads
  <2> QED
    BY <1>1, <1>2, <1>11, <2>2, <2>5 DEF OldIsKnown
<1> QED
  BY <1>14, <1>15, <1>16, <1>17 DEF CalmInv

-----------------------------------------------------------------------------
(* CompactMem.                                                              *)

\* The blocks of y are those of z: what is free, and what blocks in use hold.
Alike(z, y, B) ==
    /\ y \in Rewrites(z) /\ y \in Zones
    /\ Sound(y, B) /\ FreeOf(y, B) = FreeOf(z, B)
    /\ \A d \in B : Size(y, d) = Size(z, d) /\ PrevSize(y, d) = PrevSize(z, d)
    /\ \A d \in UsedOf(z, B) : Kept(z, y, d)

\* A block may be told again what it knows of the block before it.
LEMMA PrevSizeAgain ==
    ASSUME NEW z \in Zones, NEW B, Sound(z, B), NEW b \in B, NEW n, n = PrevSize(z, b)
    PROVE  Alike(z, SetPrevSize(z, b, n), B)
<1> DEFINE y == SetPrevSize(z, b, n)
           F == FreeOf(z, B)
<1>1. /\ Tiles(z, B) /\ Lists(z, F) /\ Apart(z, F) /\ F \subseteq B /\ Spaced(B)
  BY TilesFit DEF Sound, FreeOf
<1>2. n \in Nat
  BY Reads
<1>3. LET x == SetPrevSize(z, b, n) IN
      /\ x \in Rewrites(z) /\ x \in Zones /\ x.freelists = z.freelists
      /\ \A a : a # b + 1 => Cell(x, a) = Cell(z, a)
      /\ Cell(x, b + 1).hi = Cell(z, b + 1).hi
      /\ \A d \in B : /\ PrevSize(x, d) = IF d = b THEN n ELSE PrevSize(z, d)
                      /\ Size(x, d) = Size(z, d)
                      /\ Tags(x, d) = Tags(z, d) /\ Links(x, d) = Links(z, d)
  BY <1>1, <1>2, SetPrevSizeReads
<1> HIDE DEF y
<1>4. /\ y \in Rewrites(z) /\ y \in Zones /\ y.freelists = z.freelists
      /\ \A a : a # b + 1 => Cell(y, a) = Cell(z, a)
      /\ Cell(y, b + 1).hi = Cell(z, b + 1).hi
      /\ \A d \in B : /\ Size(y, d) = Size(z, d) /\ PrevSize(y, d) = PrevSize(z, d)
                      /\ Flags(y, d) = Flags(z, d) /\ Links(y, d) = Links(z, d)
  BY <1>3 DEF y, Tags
<1>5. Tiles(y, B)
  BY <1>1, <1>4, TilesSame
<1>6. FreeOf(y, B) = F
  BY <1>4 DEF FreeOf
<1>7. Lists(y, F)
  <2>1. \A d \in F : Size(y, d) = Size(z, d) /\ Links(y, d) = Links(z, d)
    BY <1>1, <1>4
  <2> HIDE DEF F
  <2> QED
    BY <1>1, <1>4, <2>1, ListsKept
<1>8. Apart(y, F)
  <2> HIDE DEF F
  <2> QED
    BY <1>1, <1>4 DEF Apart
<1>9. Sound(y, B)
  BY <1>5, <1>6, <1>7, <1>8 DEF Sound
<1>10. \A d \in UsedOf(z, B) : Kept(z, y, d)
  <2>1. Writes(z, y, B, {})
    BY <1>4 DEF Writes
  <2>2. \A d \in B \ {} : Kept(z, y, d)
    BY <1>1, <2>1, WritesKeep
  <2> QED
    BY <2>2 DEF UsedOf
<1>11. Alike(z, y, B)
  BY <1>4, <1>6, <1>9, <1>10 DEF Alike
<1> QED
  BY <1>11 DEF y

\* Alike is transitive.
LEMMA AlikeCompose ==
    ASSUME NEW z \in Zones, NEW B, Sound(z, B), NEW x, Alike(z, x, B), NEW y, Alike(x, y, B)
    PROVE  Alike(z, y, B) /\ UsedOf(x, B) = UsedOf(z, B)
<1>1. UsedOf(x, B) = UsedOf(z, B)
  BY DEF Alike, UsedOf
<1>2. \A d \in UsedOf(z, B) : Kept(z, y, d)
  BY <1>1, KeptCompose DEF Alike
<1>3. y \in Rewrites(z)
  BY RewritesCompose DEF Alike
<1> QED
  BY <1>1, <1>2, <1>3 DEF Alike

\* In a zone that is alike clients hold what they had.
LEMMA AlikeHeld ==
    ASSUME NEW z \in Zones, NEW P, NEW ho, NEW st, Held(z, P, ho, st),
           NEW y, Alike(z, y, Walked(z))
    PROVE  /\ Held(y, P, ho, st) /\ Walked(y) = Walked(z) /\ y.mpBase = z.mpBase
           /\ Tiles(y, Walked(y)) /\ y \in Zones
<1> DEFINE B == Walked(z)
<1>1. Heap(z, B) /\ UsedOf(z, B) = Places(z, P)
  BY HeapIsWalked DEF Held
<1>2. /\ y \in Zones /\ y.mpBase = z.mpBase /\ y.bytesUsed = z.bytesUsed
      /\ Sound(y, B) /\ Tiles(y, B) /\ UsedOf(y, B) = UsedOf(z, B)
  BY DEF Alike, Rewrites, UsedOf, Sound
<1>3. Walked(y) = B
  BY <1>2, WalkedAre
<1>4. Counted(y, UsedOf(y, B))
  <2>1. \A d \in UsedOf(z, B) : Size(y, d) = Size(z, d)
    BY DEF Alike, UsedOf
  <2>2. Space(y, UsedOf(z, B)) = Space(z, UsedOf(z, B))
    BY <2>1, SpaceSame
  <2> QED
    BY <1>1, <1>2, <2>2 DEF Heap, Counted
<1>5. HeapIs(y, Places(z, P))
  BY <1>1, <1>2, <1>4 DEF HeapIs, Heap
<1>6. \A d \in Places(z, P) : Kept(z, y, d)
  BY <1>1 DEF Alike
<1>7. \A k \in Using(z) : st[k] \in Nat /\ st[k] <= st[k]
  BY DEF Held, Contents, HandleIs
<1>8. Held(y, P, ho, st)
  BY <1>2, <1>5, <1>6, <1>7, HeldSame
<1> QED
  BY <1>2, <1>3, <1>8

\* A zone is like itself.
LEMMA AlikeSelf ==
    ASSUME NEW z \in Zones, NEW B, Sound(z, B)
    PROVE  Alike(z, z, B)
  BY KeptCompose, RewritesCompose DEF Alike

\* A gap is a free block. Making it again, where its class has no other, changes nothing.
LEMMA GapMade ==
    ASSUME SoundInv, ~disturbed, pc = "compact", walk.dest # walk.scan, NEW gap,
           gap = walk.scan - walk.dest
    PROVE  /\ gap \in Nat /\ gap >= 3 /\ walk.dest \in Walked(zone)
           /\ gap = Size(zone, walk.dest) /\ walk.scan = walk.dest + gap
           /\ ~ListedWithOthers(zone, walk.dest, gap) =>
                 Alike(zone, FreeBlockMade(zone, walk.dest, gap), Walked(zone))
<1> DEFINE d == walk.dest
<1>1. /\ zone \in Zones /\ Sound(zone, Walked(zone)) /\ Tiles(zone, Walked(zone))
      /\ d \in FreeOf(zone, Walked(zone)) /\ d + Size(zone, d) = walk.scan
      /\ d # 0 => walk.last = PrevSize(zone, d)
  BY CalmFacts DEF WalkIsAtBlocks, Heap, FreeOf
<1>2. /\ d \in Walked(zone) /\ d \in Nat /\ Size(zone, d) \in Nat /\ Size(zone, d) >= 3
  BY <1>1, TilesFit DEF FreeOf
<1>3. gap = Size(zone, d)
  BY <1>1, <1>2
<1>4. ASSUME ~ListedWithOthers(zone, d, gap)
      PROVE  Alike(zone, FreeBlockMade(zone, d, gap), Walked(zone))
  <2>1. zone.freelists[SizeClass(Size(zone, d))] = d /\ NextNode(zone, d) = d
    BY <1>3, <1>4 DEF ListedWithOthers
  <2>2. (IF d > 0 THEN walk.last ELSE 0) = PrevSize(zone, d)
    BY <1>1, <1>2 DEF Tiles
  <2>3. FreeBlockMade(zone, d, gap)
          = FreelistInsert(FreeHeader(zone, d, Size(zone, d), PrevSize(zone, d)), d)
    BY <1>3, <2>2 DEF FreeBlockMade
  <2> HIDE DEF d
  <2>4. LET y == FreelistInsert(FreeHeader(zone, d, Size(zone, d), PrevSize(zone, d)), d) IN
        /\ y \in Rewrites(zone) /\ y \in Zones
        /\ Sound(y, Walked(zone)) /\ FreeOf(y, Walked(zone)) = FreeOf(zone, Walked(zone))
        /\ \A e \in Walked(zone) : Size(y, e) = Size(zone, e) /\ PrevSize(y, e) = PrevSize(zone, e)
        /\ \A e \in UsedOf(zone, Walked(zone)) : Kept(zone, y, e)
    BY <1>1, <2>1, MadeAgain DEF d
  <2> QED
    BY <2>3, <2>4 DEF Alike
<1> QED
  BY <1>1, <1>2, <1>3, <1>4

\* A step of a walk that leaves the heap as it is leaves the request what it was.
LEMMA WalkHeld ==
    ASSUME SoundInv, ~disturbed, pc # "idle", Alike(zone, zone', Walked(zone)),
           UNCHANGED <<request, ptrs, holders, stored>>, pc' # "idle"
    PROVE  /\ Held(zone', ptrs', holders', stored') /\ MastersReserved' /\ OldIsKnown'
           /\ Walked(zone') = Walked(zone) /\ Tiles(zone', Walked(zone')) /\ zone' \in Zones
<1>1. /\ zone \in Zones /\ Held(zone, ptrs, holders, stored)
      /\ UsedOf(zone, Walked(zone)) = Places(zone, ptrs)
      /\ MastersReserved /\ OldIsKnown
  BY CalmFacts
<1>2. /\ Held(zone', ptrs, holders, stored) /\ Walked(zone') = Walked(zone)
      /\ zone'.mpBase = zone.mpBase /\ Tiles(zone', Walked(zone')) /\ zone' \in Zones
  BY <1>1, AlikeHeld
<1>3. MastersReserved'
  BY <1>1, <1>2 DEF MastersReserved
<1>4. OldIsKnown'
  <2> SUFFICES ASSUME request.op = "resize", zone'.mpBase[request.h] = request.old
               PROVE  request.oldSize = Size(zone', request.old) - 2
    BY <1>1 DEF OldIsKnown
  <2>1. request.h \in Masters /\ request.old \in Nat /\ zone.mpBase[request.h] = request.old
        /\ request.oldSize = Size(zone, request.old) - 2
    BY <1>1, <1>2 DEF SoundInv, MemoryInv, RequestInv, OldIsKnown
  <2>2. request.old \in UsedOf(zone, Walked(zone))
    BY <1>1, <2>1, ConstantsType DEF Using, Places
  <2>3. Size(zone', request.old) = Size(zone, request.old)
    BY <2>2 DEF Alike, UsedOf
  <2> QED
    BY <2>1, <2>3
<1> QED
  BY <1>2, <1>3, <1>4

\* A turn of CompactMem that passes a free block keeps CalmInv.
LEMMA CompactPassesCalm ==
    ASSUME SoundInv, ~disturbed, CompactPasses
    PROVE  CalmInv'
<1> DEFINE scan == walk.scan
           end == scan + Size(zone, scan)
<1>1. /\ zone \in Zones /\ Sound(zone, Walked(zone)) /\ WalkIsAtBlocks
  BY CalmFacts DEF Heap
<1>2. /\ pc = "compact" /\ pc' = pc /\ scan < ZoneSize /\ "FREE" \in Flags(zone, scan)
      /\ walk' = Turn(end, walk.dest, walk.last)
      /\ zone' = zone
      /\ UNCHANGED <<request, ptrs, holders, stored, disturbed>>
  BY DEF CompactPasses, CompactAt, clientVars
<1>3. scan \in FreeOf(zone, Walked(zone)) /\ scan \in Walked(zone)
  BY <1>2, ScanAt DEF FreeOf
<1>4. walk.dest = scan
  BY <1>1, <1>2, <1>3 DEF WalkIsAtBlocks, Sound, Apart
<1>5. Alike(zone, zone', Walked(zone))
  BY <1>1, <1>2, AlikeSelf
<1>6. /\ Held(zone', ptrs', holders', stored') /\ MastersReserved' /\ OldIsKnown'
  BY <1>2, <1>5, WalkHeld
<1>7. end \in Walked(zone) \cup {ZoneSize}
  BY <1>3, BlockAt
<1>8. walk'.scan = end /\ walk'.dest = scan /\ walk'.last = walk.last
  BY <1>2, <1>4 DEF Turn
<1>9. WalkIsAtBlocks'
  BY <1>1, <1>2, <1>3, <1>4, <1>7, <1>8 DEF WalkIsAtBlocks
<1> QED
  BY <1>6, <1>9 DEF CalmInv

\* A turn of CompactMem that leaves a block where it is keeps CalmInv, if it disturbs
\* no list.
LEMMA CompactLeavesCalm ==
    ASSUME SoundInv, ~disturbed, ~disturbed', CompactLeaves
    PROVE  CalmInv'
<1> DEFINE scan == walk.scan
           gap == scan - walk.dest
           blocked == FreeBlockMade(zone, walk.dest, gap)
           end == scan + Size(zone', scan)
           B == Walked(zone)
<1>1. /\ zone \in Zones /\ Sound(zone, B) /\ WalkIsAtBlocks
  BY CalmFacts DEF Heap
<1>2. /\ pc = "compact" /\ pc' = pc /\ scan < ZoneSize
      /\ zone' = IF gap >= MinBlockSize THEN SetPrevSize(blocked, scan, gap) ELSE zone
      /\ UNCHANGED <<request, ptrs, holders, stored>>
      /\ gap >= MinBlockSize => ~ListedWithOthers(zone, walk.dest, gap)
      /\ walk' = Turn(end, end, Size(zone', scan))
  BY DEF CompactLeaves, CompactAt, clientVars
<1>3. scan \in B
  BY <1>2, ScanAt
<1>4. Alike(zone, zone', B)
  <2>1. CASE walk.dest = scan
    <3>1. ~(gap >= MinBlockSize)
      BY <1>3, <2>1, BlockAt DEF MinBlockSize
    <3> QED
      BY <1>1, <1>2, <3>1, AlikeSelf
  <2>2. CASE walk.dest # scan
    <3>1. /\ gap \in Nat /\ gap >= 3 /\ walk.dest \in B
          /\ gap = Size(zone, walk.dest) /\ scan = walk.dest + gap
          /\ ~ListedWithOthers(zone, walk.dest, gap) => Alike(zone, blocked, B)
      BY <1>2, <2>2, GapMade
    <3> HIDE DEF gap, blocked
    <3>2. zone' = SetPrevSize(blocked, scan, gap) /\ Alike(zone, blocked, B)
      BY <1>2, <3>1 DEF MinBlockSize
    <3>3. gap = PrevSize(blocked, scan) /\ blocked \in Zones /\ Sound(blocked, B)
      BY <1>1, <1>3, <3>1, <3>2 DEF Alike, Sound, Tiles
    <3> HIDE DEF scan, B
    <3>4. Alike(blocked, zone', B)
      BY <1>3, <3>2, <3>3, PrevSizeAgain
    <3> QED
      BY <1>1, <3>2, <3>4, AlikeCompose
  <2> QED
    BY <2>1, <2>2
<1> HIDE DEF gap, blocked
<1>5. /\ Held(zone', ptrs', holders', stored') /\ MastersReserved' /\ OldIsKnown'
      /\ Walked(zone') = B /\ Tiles(zone', B)
  BY <1>2, <1>4, WalkHeld
<1>6. /\ end \in B \cup {ZoneSize}
      /\ end \in B => PrevSize(zone', end) = Size(zone', scan)
  BY <1>3, <1>5 DEF Tiles
<1>7. walk'.scan = end /\ walk'.dest = end /\ walk'.last = Size(zone', scan)
  BY <1>2 DEF Turn
<1> HIDE DEF end, scan
<1>8. WalkIsAtBlocks'
  BY <1>2, <1>5, <1>6, <1>7 DEF WalkIsAtBlocks
<1> QED
  BY <1>5, <1>8 DEF CalmInv

\* The end of the zone that is made free already is.
LEMMA TailMadeFree ==
    ASSUME SoundInv, ~disturbed, pc = "compact", walk.scan = ZoneSize, ~TailDisturbs
    PROVE  Alike(zone, TailZone, Walked(zone))
<1> DEFINE gap == walk.scan - walk.dest
           limit == IF walk.scan < ZoneSize THEN walk.scan ELSE ZoneSize
<1>1. zone \in Zones /\ Sound(zone, Walked(zone)) /\ ZoneSize \in Nat /\ limit = walk.scan
  BY CalmFacts, ConstantsType DEF Heap
<1>2. TailZone = IF gap >= MinBlockSize THEN FreeBlockMade(zone, walk.dest, gap) ELSE zone
  BY <1>1 DEF TailZone
<1>3. gap >= MinBlockSize => ~ListedWithOthers(zone, walk.dest, gap)
  BY <1>1 DEF TailDisturbs
<1>4. CASE walk.dest = walk.scan
  <2>1. ~(gap >= MinBlockSize)
    BY <1>1, <1>4 DEF MinBlockSize
  <2> QED
    BY <1>1, <1>2, <2>1, AlikeSelf
<1>5. CASE walk.dest # walk.scan
  <2>1. /\ gap \in Nat /\ gap >= 3
        /\ ~ListedWithOthers(zone, walk.dest, gap) =>
              Alike(zone, FreeBlockMade(zone, walk.dest, gap), Walked(zone))
    BY <1>5, GapMade
  <2> QED
    BY <1>2, <1>3, <2>1 DEF MinBlockSize
<1> QED
  BY <1>4, <1>5

\* A call that the walk has answered leaves no master pointer reserved.
LEMMA WalkDone ==
    ASSUME pc' = "idle", \A k \in Masters : zone'.mpBase[k] # Reserved,
           Held(zone', ptrs', holders', stored')
    PROVE  CalmInv'
  BY DEF CalmInv, MastersReserved, OldIsKnown, WalkIsAtBlocks

\* A zone in which no free block has what the request needs, and a header to spare.
Short(z) == \A d \in FreeOf(z, Walked(z)) : Size(z, d) < request.need + HeaderSize

\* The call is refused: its master pointer is given back.
LEMMA RefusedCalm ==
    ASSUME SoundInv, ~disturbed, pc = "compact", pc' = "idle", NEW z \in Zones,
           Held(z, ptrs, holders, stored), z.mpBase = zone.mpBase, Short(z), Refused(z)
    PROVE  CalmInv' /\ \A d \in FreeOf(zone', Walked(zone')) : Size(zone', d) < request.need + HeaderSize

<1>1. /\ MastersReserved
      /\ request.mp \in Masters \/ request.mp = Null
  BY CalmFacts DEF SoundInv, MemoryInv, RequestInv, Spare
<1>2. UNCHANGED <<ptrs, holders, stored>>
  BY DEF Refused, clientVars
<1>3. CASE request.mp \in Masters
  <2> DEFINE y == Pointed(z, request.mp, Null)
  <2>1. zone' = y
    BY <1>3 DEF Refused, Pointed
  <2>2. /\ y \in Zones /\ SameHeap(z, y) /\ y.bytesUsed = z.bytesUsed
        /\ \A k \in Masters : y.mpBase[k] = IF k = request.mp THEN Null ELSE z.mpBase[k]
    BY <1>3, ClearedIs
  <2> HIDE DEF y
  <2>3. zone.mpBase[request.mp] = Reserved
    BY <1>1, <1>3 DEF MastersReserved
  <2>4. \A k \in Masters : \/ y.mpBase[k] = z.mpBase[k]
                           \/ y.mpBase[k] \in {Null, Reserved} /\ z.mpBase[k] \in {Null, Reserved}
    BY <2>2, <2>3
  <2>5. Held(y, ptrs, holders, stored) /\ Walked(y) = Walked(z) /\ \A a : Cell(y, a) = Cell(z, a)
    BY <2>2, <2>4, SameHeapHeld
  <2>6. \A k \in Masters : zone'.mpBase[k] # Reserved
    BY <1>1, <2>1, <2>2, ConstantsType DEF MastersReserved
  <2>7. Held(zone', ptrs', holders', stored')
    BY <1>2, <2>1, <2>5
  <2>8. CalmInv'
    BY <2>6, <2>7, WalkDone
  <2>9. FreeOf(zone', Walked(zone')) = FreeOf(z, Walked(z)) /\ \A d : Size(zone', d) = Size(z, d)
    BY <2>1, <2>5 DEF FreeOf, Flags, Size
  <2> QED
    BY <2>8, <2>9 DEF Short
<1>4. CASE request.mp = Null
  <2>1. zone' = z /\ \A k \in Masters : request.mp # k
    BY <1>4, ConstantsType DEF Refused
  <2>2. \A k \in Masters : zone'.mpBase[k] # Reserved
    BY <1>1, <2>1 DEF MastersReserved
  <2>3. Held(zone', ptrs', holders', stored')
    BY <1>2, <2>1
  <2>4. CalmInv'
    BY <2>2, <2>3, WalkDone
  <2> QED
    BY <2>1, <2>4 DEF Short
<1> QED
  BY <1>1, <1>3, <1>4

\* The call is granted: a client has been given something that it did not have.
GrantedSomething ==
    \/ ptrs' # ptrs \/ holders' # holders
    \/ request.op = "resize" /\ zone'.mpBase[request.h] # zone.mpBase[request.h]

\* A call that is granted after the walk keeps CalmInv.
LEMMA GrantedCalm ==
    ASSUME SoundInv, ~disturbed, pc = "compact", pc' = "idle", NEW z, Alike(zone, z, Walked(zone)),
           request.op = "resize" => zone.mpBase[request.h] = request.old,
           NEW b \in FreeOf(z, Walked(z)), request.need <= Size(z, b), Granted(z, b)
    PROVE  CalmInv' /\ GrantedSomething
<1> DEFINE n == request.size
           need == request.need
           mp == request.mp
           h == request.h
           old == request.old
<1>1. /\ zone \in Zones /\ Held(zone, ptrs, holders, stored) /\ MastersReserved /\ OldIsKnown
      /\ UsedOf(zone, Walked(zone)) = Places(zone, ptrs)
  BY CalmFacts
<1>2. /\ z \in Zones /\ Held(z, ptrs, holders, stored) /\ z.mpBase = zone.mpBase
      /\ Heap(z, Walked(z)) /\ Using(z) = Using(zone)
  BY <1>1, AlikeHeld, HeapIsWalked DEF Held, Using
<1>3. b \in Nat
  BY <1>2, BlockPlace DEF Heap, FreeOf
<1>4. need \in Nat /\ n \in Nat /\ need >= 3
  BY MemoryAssumption DEF SoundInv, MemoryInv, RequestInv, RequestFits
<1>5. CASE request.op = "ptr"
  <2> DEFINE y == PtrPlaced(z, b, n + 3, n)
  <2>1. need = n + 3 /\ mp = Null
    BY <1>5 DEF SoundInv, MemoryInv, RequestInv, RequestFits
  <2>2. zone' = y /\ ptrs' = ptrs \cup {[at |-> b, size |-> n]} /\ UNCHANGED <<holders, stored>>
    BY <1>5, <2>1 DEF Granted
  <2>3. /\ Held(y, ptrs \cup {[at |-> b, size |-> n]}, holders, stored)
        /\ y.mpBase = z.mpBase /\ b \notin Places(z, ptrs)
    BY <1>2, <1>4, <2>1, PtrGiven
  <2> HIDE DEF y
  <2>4. \A k \in Masters : zone'.mpBase[k] # Reserved
    BY <1>1, <1>2, <2>1, <2>2, <2>3, ConstantsType DEF MastersReserved
  <2>5. Held(zone', ptrs', holders', stored')
    BY <2>2, <2>3
  <2>6. CalmInv'
    BY <2>4, <2>5, WalkDone
  <2>7. ptrs' # ptrs
    <3>1. [at |-> b, size |-> n] \notin ptrs
      BY <2>3 DEF Places
    <3> QED
      BY <2>2, <3>1
  <2> QED
    BY <2>6, <2>7 DEF GrantedSomething
<1>6. CASE request.op = "handle"
  <2> DEFINE y == HandlePlaced(z, b, need, n, mp)
  <2>1. n + 2 <= need /\ mp \in Masters /\ mp \notin Using(zone)
    BY <1>1, <1>6 DEF SoundInv, MemoryInv, RequestInv, RequestFits, Spare, MastersReserved, Using
  <2>2. zone' = y /\ GivenTo(mp, n) /\ ptrs' = ptrs
    BY <1>6 DEF Granted
  <2>3. /\ \A k \in Using(z) \cup {mp} : holders'[k] > 0
        /\ \A k \in Using(z) : stored'[k] = stored[k]
        /\ stored'[mp] = n
    BY <1>2, <2>1, <2>2, GivenCounts
  <2> HIDE DEF n, need, mp
  <2>4. LET x == HandlePlaced(z, b, need, n, mp) IN
        /\ x \in Zones /\ Held(x, ptrs, holders', stored')
        /\ \A k \in Masters : x.mpBase[k] = IF k = mp THEN b ELSE z.mpBase[k]
        /\ b \in Nat /\ b \notin Places(z, ptrs) /\ \A d \in Places(z, ptrs) : Kept(z, x, d)
        /\ n + 2 <= Size(x, b)
    BY <1>2, <1>4, <2>1, <2>3, HandleGiven DEF need
  <2> HIDE DEF y
  <2>5. \A k \in Masters : zone'.mpBase[k] # Reserved
    BY <1>1, <1>2, <1>3, <2>2, <2>4, ConstantsType DEF MastersReserved, y, mp
  <2>6. Held(zone', ptrs', holders', stored')
    BY <2>2, <2>4 DEF y
  <2>7. CalmInv'
    BY <2>5, <2>6, WalkDone
  <2>8. holders' # holders
    BY <2>1, <2>2 DEF GivenTo, SoundInv, MemoryInv, ClientInv
  <2> QED
    BY <2>7, <2>8 DEF GrantedSomething
<1>7. CASE request.op = "resize"
  <2>1. /\ n + 2 <= need /\ mp \in Masters /\ mp \notin Using(z) /\ h \in Masters
        /\ old = z.mpBase[h] /\ old \in Nat /\ h \in Using(z)
    BY <1>1, <1>2, <1>7, ConstantsType
       DEF SoundInv, MemoryInv, RequestInv, RequestFits, Spare, MastersReserved, Using, OldIsKnown
  <2>2. /\ zone' = Resized(HandlePlaced(z, b, need, n, mp), h, old, request.oldSize, n, mp)
        /\ stored' = [stored EXCEPT ![h] = Least(stored[h], n)]
        /\ UNCHANGED <<ptrs, holders>>
    BY <1>7 DEF Granted
  <2>3. request.oldSize = Size(z, old) - 2
    <3>1. old \in UsedOf(zone, Walked(zone))
      BY <1>1, <1>2, <2>1 DEF Places
    <3>2. Size(z, old) = Size(zone, old)
      BY <3>1 DEF Alike, UsedOf
    <3> QED
      BY <1>1, <1>7, <3>2 DEF OldIsKnown
  <2>4. (\A k \in Using(z) \ {h} : stored'[k] = stored[k]) /\ stored'[h] = Least(stored[h], n)
    BY <2>1, <2>2 DEF SoundInv, MemoryInv, ClientInv, Using
  <2> DEFINE size == request.oldSize
  <2> HIDE DEF n, need, mp, h, old, size
  <2>5. need <= Size(z, b) /\ size = Size(z, old) - 2
    BY <2>3 DEF need, size
  <2>6. LET y == Resized(HandlePlaced(z, b, need, n, mp), h, old, size, n, mp) IN
        /\ y \in Zones /\ Held(y, ptrs, holders, stored')
        /\ \A k \in Masters : y.mpBase[k] = IF k = mp THEN Null
                                            ELSE IF k = h THEN b ELSE z.mpBase[k]
        /\ b # old
    BY <1>2, <1>4, <2>1, <2>4, <2>5, HandleResized
  <2>7. zone' = Resized(HandlePlaced(z, b, need, n, mp), h, old, size, n, mp)
    BY <2>2 DEF size
  <2>8. /\ \A k \in Masters : zone'.mpBase[k] = IF k = mp THEN Null
                                                ELSE IF k = h THEN b ELSE z.mpBase[k]
        /\ Held(zone', ptrs, holders, stored') /\ b # old
    BY <2>6, <2>7
  <2>9. \A k \in Masters : zone'.mpBase[k] # Reserved
    BY <1>1, <1>2, <1>3, <2>8, ConstantsType DEF MastersReserved, mp
  <2>10. Held(zone', ptrs', holders', stored')
    BY <2>2, <2>8
  <2>11. CalmInv'
    BY <2>9, <2>10, WalkDone
  <2>12. zone'.mpBase[h] # zone.mpBase[h]
    BY <1>2, <2>1, <2>8 DEF Using
  <2> QED
    BY <1>7, <2>11, <2>12 DEF GrantedSomething, h
<1> QED
  BY <1>5, <1>6, <1>7 DEF Granted

\* The end of CompactMem keeps CalmInv, if it disturbs no list; it grants the request,
\* or no free block has what it needs and a header to spare.
LEMMA CompactEndsCalm ==
    ASSUME SoundInv, ~disturbed, ~disturbed', CompactEnds
    PROVE  /\ CalmInv'
           /\ \/ GrantedSomething
              \/ \A d \in FreeOf(zone', Walked(zone')) : Size(zone', d) < request.need + HeaderSize
<1> DEFINE z == TailZone
           seen == AfterMaxMem(z)
           fit == FindFit(seen, request.need)
           tooSmall == MaxMem(z) < request.need
<1>1. zone \in Zones /\ Held(zone, ptrs, holders, stored)
  BY CalmFacts
<1>2. /\ pc = "compact" /\ pc' = "idle"
      /\ walk.scan >= ZoneSize \/ BadSize(walk.scan)
      /\ ~TailDisturbs
      /\ request.op = "resize" => zone.mpBase[request.h] = request.old
      /\ IF tooSmall \/ fit.found = Null THEN Refused(IF tooSmall THEN seen ELSE fit.zone)
         ELSE Granted(fit.zone, fit.found)
  BY DEF CompactEnds
<1>3. Alike(zone, z, Walked(zone))
  BY <1>2, ScanAt, TailMadeFree
<1> HIDE DEF z
<1>4. /\ z \in Zones /\ Held(z, ptrs, holders, stored) /\ Walked(z) = Walked(zone)
      /\ z.mpBase = zone.mpBase
  BY <1>1, <1>3, AlikeHeld
<1>5. HeapIs(z, Places(z, ptrs)) /\ Heap(z, Walked(z))
  BY <1>4, HeapIsWalked DEF Held
<1>6. Stocked(z, FreeOf(z, Walked(z)))
  BY <1>4, <1>5, SoundIsValid DEF Heap
<1>7. request.need \in Nat
  BY <1>2 DEF SoundInv, MemoryInv, RequestInv
<1>8. /\ seen = z
      /\ tooSmall => Short(z)
  BY <1>4, <1>6, <1>7, MaxMemSees DEF Short
<1> HIDE DEF seen, tooSmall
<1>9. LET s == FindFit(z, request.need) IN
      /\ s.zone = z
      /\ \/ s.found \in FreeOf(z, Walked(z)) /\ request.need <= Size(z, s.found)
         \/ s.found = Null /\ \A d \in FreeOf(z, Walked(z)) : Size(z, d) < request.need
  BY <1>4, <1>5, <1>7, FitIs
<1>10. /\ fit.zone = z
       /\ \/ fit.found \in FreeOf(z, Walked(z)) /\ request.need <= Size(z, fit.found)
          \/ fit.found = Null /\ Short(z)
  <2>1. ASSUME NEW d \in FreeOf(z, Walked(z)), Size(z, d) < request.need
        PROVE  Size(z, d) < request.need + HeaderSize
    BY <1>4, <1>7, <2>1, Reads DEF HeaderSize
  <2> QED
    BY <1>8, <1>9, <2>1 DEF Short
<1> HIDE DEF fit
<1>11. CASE tooSmall \/ fit.found = Null
  <2>1. Refused(z) /\ Short(z)
    <3>1. CASE tooSmall
      BY <1>2, <1>8, <3>1
    <3>2. CASE ~tooSmall
      <4>1. fit.found = Null
        BY <1>11, <3>2
      <4>2. fit.found \notin FreeOf(z, Walked(z))
        BY <1>4, <4>1, ConstantsType DEF FreeOf, Walked
      <4> QED
        BY <1>2, <1>10, <3>2, <4>1, <4>2
    <3> QED
      BY <3>1, <3>2
  <2> QED
    BY <1>2, <1>4, <2>1, RefusedCalm
<1>12. CASE ~tooSmall /\ fit.found # Null
  <2>1. Granted(z, fit.found) /\ fit.found \in FreeOf(z, Walked(z))
        /\ request.need <= Size(z, fit.found)
    BY <1>2, <1>10, <1>12
  <2> QED
    BY <1>2, <1>3, <2>1, GrantedCalm
<1> QED
  BY <1>11, <1>12

-----------------------------------------------------------------------------
(* The invariant.                                                           *)

\* A step that leaves the request and the walk's being under way as they are.
LEMMA RequestFitsKept ==
    ASSUME RequestFits, pc' = "idle" \/ (pc # "idle" /\ request' = request)
    PROVE  RequestFits'
  BY DEF RequestFits

\* Every step keeps RequestFits.
LEMMA RequestFitsStep ==
    ASSUME MemoryInv, RequestFits, [Next]_vars
    PROVE  RequestFits'
<1>1. CASE UNCHANGED vars
  BY <1>1 DEF vars, walkVars, RequestFits
<1>2. ASSUME NEW n \in PtrSizes, NewPtr(n) PROVE RequestFits'
  <2>1. n + HeaderSize + 1 = n + 3 /\ n + 3 >= 3
    BY MemoryAssumption DEF HeaderSize
  <2>2. \/ pc' = "idle"
        \/ request' = [NoRequest EXCEPT !.op = "ptr", !.size = n, !.need = n + 3]
    BY <1>2, <2>1 DEF NewPtr, StartWalk, walkVars, MayCall
  <2>3. request' = [NoRequest EXCEPT !.op = "ptr", !.size = n, !.need = n + 3]
          => request'.need = n + 3 /\ request'.op = "ptr" /\ request'.size = n
    BY DEF NoRequest
  <2> QED
    BY <2>1, <2>2, <2>3 DEF RequestFits
<1>3. ASSUME NEW n \in HandleSizes, NewHandle(n) PROVE RequestFits'
  <2>1. n \in Nat /\ HandleNeed(n) \in Nat /\ HandleNeed(n) >= 3 /\ n + 2 <= HandleNeed(n)
    BY HandleNeeds
  <2> QED
    BY <1>3, <2>1 DEF NewHandle, StartWalk, RequestFits, walkVars, NoRequest, MayCall
<1>4. ASSUME NEW h \in Masters, NEW n \in Resizes, SetHandleSize(h, n) PROVE RequestFits'
  <2>1. n \in Nat /\ HandleNeed(n) \in Nat /\ HandleNeed(n) >= 3 /\ n + 2 <= HandleNeed(n)
    BY HandleNeeds
  <2> QED
    BY <1>4, <2>1 DEF SetHandleSize, StartWalk, RequestFits, walkVars, MayCall
<1>5. ASSUME \/ \E p \in ptrs : DisposePtr(p)
             \/ \E h \in Masters : \/ DisposeHandle(h) \/ HLock(h) \/ HUnlock(h)
                                   \/ HPurge(h) \/ HNoPurge(h)
                                   \/ \E n \in Resizes : ShrinkInPlace(h, n)
      PROVE  RequestFits'
  <2>1. pc' = "idle"
    BY <1>5 DEF DisposePtr, DisposeHandle, HLock, HUnlock, HPurge, HNoPurge, ShrinkInPlace,
                MayCall, walkVars
  <2> QED
    BY <2>1, RequestFitsKept
<1>6. ASSUME Walk PROVE RequestFits'
  <2>1. pc' = "idle" \/ (pc # "idle" /\ request' = request)
    BY <1>6 DEF Walk, PurgePasses, PurgeFrees, PurgeEnds, CompactPasses, CompactMoves,
                CompactLeaves, CompactEnds, CompactAt
  <2> QED
    BY <2>1, RequestFitsKept
<1> QED
  BY <1>1, <1>2, <1>3, <1>4, <1>5, <1>6 DEF Next, Clients

\* Every step keeps CalmInv.
LEMMA CalmStep ==
    ASSUME SoundInv, [Next]_vars
    PROVE  CalmInv'
<1>1. CASE UNCHANGED vars
  BY <1>1 DEF vars, walkVars, clientVars, SoundInv, CalmInv, MastersReserved, OldIsKnown,
              WalkIsAtBlocks
<1>2. CASE Next
  <2> SUFFICES ASSUME ~disturbed' PROVE CalmInv'
    BY DEF CalmInv
  <2>1. ~disturbed
    BY <1>2 DEF Next, Clients, Walk, NewPtr, DisposePtr, NewHandle, DisposeHandle, HLock, HUnlock,
                HPurge, HNoPurge, SetHandleSize, ShrinkInPlace, StartWalk, PurgePasses, PurgeFrees,
                PurgeEnds, CompactPasses, CompactMoves, CompactLeaves, CompactEnds
  <2>2. CASE Clients
    BY <2>1, <2>2, NewPtrCalm, DisposePtrCalm, NewHandleCalm, DisposeHandleCalm, FlagsCalm,
       SetHandleSizeCalm, ShrinkInPlaceCalm DEF Clients
  <2>3. CASE Walk
    <3>1. ~CompactMoves
      BY DEF CompactMoves
    <3> QED
      BY <2>1, <2>3, <3>1, PurgePassesCalm, PurgeFreesCalm, PurgeEndsCalm, CompactPassesCalm,
         CompactLeavesCalm, CompactEndsCalm DEF Walk
  <2> QED
    BY <1>2, <2>2, <2>3 DEF Next
<1> QED
  BY <1>1, <1>2

\* InitZone makes one free block of the zone, and lists it.
LEMMA InitZoneSound ==
    /\ InitZone \in Zones /\ HeapIs(InitZone, {})
    /\ \A h \in Masters : InitZone.mpBase[h] = Null
<1> DEFINE empty == [mem |-> [a \in Addr |-> [lo |-> Zero, hi |-> Zero]],
                     freelists |-> [c \in Classes |-> Null],
                     mpBase |-> [i \in Masters |-> Null],
                     bytesUsed |-> 0, bytesFree |-> ZoneSize]
           x == FreeHeader(empty, 0, ZoneSize, 0)
           y == FreelistInsert(x, 0)
<1>1. ZoneSize \in Nat /\ ZoneSize >= 3 /\ 0 \in Addr /\ 0 \in Nat
  BY ZoneAssumption DEF Addr, MinBlockSize
<1>2. /\ empty \in Zones /\ empty.bytesUsed = 0
      /\ (\A c \in Classes : empty.freelists[c] = Null)
      /\ \A h \in Masters : empty.mpBase[h] = Null
  <2>1. [lo |-> Zero, hi |-> Zero] \in Cells
    BY WordKinds DEF Cells
  <2> QED
    BY <1>1, <2>1 DEF Zones
<1> HIDE DEF empty
<1>3. Spaced({0}) /\ {0} = {} \cup {0} /\ 0 \notin {} /\ 0 \in {0}
  BY <1>1 DEF Spaced
<1>4. LET v == FreeHeader(empty, 0, ZoneSize, 0) IN
      /\ v \in Rewrites(empty) /\ v \in Zones /\ v.freelists = empty.freelists
      /\ \A a : a \notin {0, 0 + 1} => Cell(v, a) = Cell(empty, a)
      /\ Flags(v, 0) = {"FREE"} /\ MasterPtr(v, 0) = Null
      /\ \A d \in {0} : /\ Size(v, d) = IF d = 0 THEN ZoneSize ELSE Size(empty, d)
                        /\ PrevSize(v, d) = IF d = 0 THEN 0 ELSE PrevSize(empty, d)
                        /\ Links(v, d) = Links(empty, d)
                        /\ d # 0 => Tags(v, d) = Tags(empty, d)
  BY <1>1, <1>2, <1>3, FreeHeaderReads
<1>5. /\ x \in Rewrites(empty) /\ x \in Zones /\ x.freelists = empty.freelists
      /\ Size(x, 0) = ZoneSize /\ PrevSize(x, 0) = 0
  BY <1>3, <1>4
<1> HIDE DEF x
<1>6. Lists(x, {})
  <2>1. \A c \in Classes : ClassOf(x, {}, c) = {}
    BY DEF ClassOf
  <2>2. Cycle(x, {})
    BY DEF Cycle
  <2> QED
    BY <1>2, <1>5, <2>1, <2>2 DEF Lists
<1>7. LET v == FreelistInsert(x, 0) IN
      /\ v \in Rewrites(x) /\ Lists(v, {} \cup {0})
      /\ \A a : a \notin LinkCells({} \cup {0}) \cup {0} => Cell(v, a) = Cell(x, a)
      /\ Size(v, 0) = Size(x, 0) /\ Flags(v, 0) = {"FREE"}
      /\ LockCount(v, 0) = LockCount(x, 0)
  <2>1. Size(x, 0) >= MinBlockSize
    BY <1>1, <1>5 DEF MinBlockSize
  <2>2. Spaced({} \cup {0})
    BY <1>3
  <2> QED
    BY ONLY <1>3, <1>5, <1>6, <2>1, <2>2, InsertSound
<1>8. /\ y \in Rewrites(x) /\ Lists(y, {0}) /\ Size(y, 0) = ZoneSize /\ Flags(y, 0) = {"FREE"}
      /\ Cell(y, 1) = Cell(x, 1)
  <2>1. 1 \notin LinkCells({} \cup {0}) \cup {0}
    BY DEF LinkCells
  <2> QED
    BY <1>3, <1>5, <1>7, <2>1
<1> HIDE DEF y
<1>9. /\ y \in Zones /\ y.bytesUsed = 0 /\ \A h \in Masters : y.mpBase[h] = Null
  BY <1>2, <1>5, <1>8 DEF Rewrites
<1>10. PrevSize(y, 0) = 0
  BY <1>5, <1>8 DEF PrevSize
<1>11. Tiles(y, {0})
  BY <1>1, <1>8, <1>10 DEF Tiles, MinBlockSize
<1>12. FreeOf(y, {0}) = {0} /\ UsedOf(y, {0}) = {}
  BY <1>8 DEF FreeOf, UsedOf
<1>13. Apart(y, {0})
  BY <1>1, <1>8 DEF Apart
<1>14. Counted(y, {})
  <2>1. Space(y, {}) = {}
    BY DEF Space
  <2> QED
    BY <1>9, <2>1, FS_EmptySet DEF Counted
<1>15. HeapIs(y, {})
  BY <1>8, <1>11, <1>12, <1>13, <1>14 DEF HeapIs, Heap, Sound
<1>16. InitZone = y
  BY DEF InitZone, empty, x, y
<1> QED
  BY <1>9, <1>15, <1>16

\* SoundInv holds in the initial state.
LEMMA SoundInit == Init => SoundInv
<1> SUFFICES ASSUME Init PROVE SoundInv
  OBVIOUS
<1>1. /\ zone \in Zones /\ HeapIs(zone, {}) /\ \A h \in Masters : zone.mpBase[h] = Null
  BY InitZoneSound DEF Init
<1>2. Using(zone) = {} /\ Places(zone, ptrs) = {}
  BY <1>1 DEF Using, Places, Init
<1>3. Held(zone, ptrs, holders, stored)
  BY <1>1, <1>2 DEF Held, Contents, Init
<1>4. MastersReserved /\ OldIsKnown /\ WalkIsAtBlocks
  BY <1>1, ConstantsType DEF MastersReserved, OldIsKnown, WalkIsAtBlocks, Init
<1>5. RequestFits
  BY DEF RequestFits, Init
<1> QED
  BY <1>3, <1>4, <1>5, MemoryInit DEF SoundInv, CalmInv

\* SoundInv holds in every state.
THEOREM SoundCorrect == Spec => []SoundInv
<1>1. SoundInv /\ [Next]_vars => SoundInv'
  BY MemoryStep, RequestFitsStep, CalmStep DEF SoundInv
<1> QED
  BY SoundInit, <1>1, PTL DEF Spec

-----------------------------------------------------------------------------
(* What the invariant says of the heap between calls.                       *)

\* SoundInv between calls, in the words of the properties.
LEMMA CalmHeap ==
    ASSUME SoundInv, Calm
    PROVE  /\ zone \in Zones /\ Blocks = Walked(zone) /\ FreeBlocks = FreeOf(zone, Blocks)
           /\ Heap(zone, Blocks) /\ UsedOf(zone, Blocks) = Places(zone, ptrs)
           /\ Contents(zone, ptrs, holders, stored)
           /\ \A h \in Masters : zone.mpBase[h] # Reserved
<1>1. /\ zone \in Zones /\ Heap(zone, Walked(zone))
      /\ UsedOf(zone, Walked(zone)) = Places(zone, ptrs)
      /\ Contents(zone, ptrs, holders, stored) /\ MastersReserved /\ pc = "idle"
  BY CalmFacts DEF Calm, Held
<1>2. Blocks = Walked(zone)
  BY DEF Blocks, Walked, Steps
<1>3. FreeBlocks = FreeOf(zone, Blocks)
  BY DEF FreeBlocks, IsFree, FreeOf
<1> QED
  BY <1>1, <1>2, <1>3 DEF MastersReserved

\* SoundInv implies ZoneIsTiled.
LEMMA SoundIsTiled == SoundInv => ZoneIsTiled
<1> SUFFICES ASSUME SoundInv, Calm
             PROVE  /\ \A b \in Blocks :
                          /\ ValidateBlock(zone, b)
                          /\ LET next == b + Size(zone, b) IN
                             next < ZoneSize => /\ PrevSize(zone, next) = Size(zone, b)
                                                /\ ~(IsFree(b) /\ IsFree(next))
                    /\ zone.bytesUsed = Cardinality(UNION
                          {b .. b + Size(zone, b) - 1 : b \in Blocks \ FreeBlocks})
  BY DEF ZoneIsTiled
<1>1. /\ zone \in Zones /\ Sound(zone, Blocks) /\ Counted(zone, UsedOf(zone, Blocks))
      /\ FreeBlocks = FreeOf(zone, Blocks)
  BY CalmHeap DEF Heap
<1> HIDE DEF Blocks, FreeBlocks
<1>2. ASSUME NEW b \in Blocks
      PROVE  /\ ValidateBlock(zone, b)
             /\ LET next == b + Size(zone, b) IN
                next < ZoneSize => /\ PrevSize(zone, next) = Size(zone, b)
                                   /\ ~(IsFree(b) /\ IsFree(next))
  <2> DEFINE next == b + Size(zone, b)
  <2>1. ValidateBlock(zone, b)
    BY <1>1, SoundIsValid
  <2>2. next \in Blocks \cup {ZoneSize} /\ ZoneSize \in Nat
    BY <1>1, ConstantsType DEF Sound, Tiles
  <2>3. next \in Blocks => PrevSize(zone, next) = Size(zone, b)
    BY <1>1 DEF Sound, Tiles
  <2>4. next \in Blocks => ~(IsFree(b) /\ IsFree(next))
    BY <1>1 DEF Sound, Apart, FreeOf, IsFree
  <2> HIDE DEF next
  <2>5. next < ZoneSize => PrevSize(zone, next) = Size(zone, b) /\ ~(IsFree(b) /\ IsFree(next))
    BY <2>2, <2>3, <2>4
  <2> QED
    BY <2>1, <2>5 DEF next
<1>3. zone.bytesUsed = Cardinality(UNION
          {b .. b + Size(zone, b) - 1 : b \in Blocks \ FreeBlocks})
  <2> DEFINE used == Blocks \ FreeBlocks
             covered == UNION {b .. b + Size(zone, b) - 1 : b \in used}
  <2>1. zone.bytesUsed = Cardinality(Space(zone, used))
    BY <1>1 DEF Counted, UsedOf
  <2>2. used \subseteq Addr /\ \A b \in used : Size(zone, b) \in Nat /\ b + Size(zone, b) <= ZoneSize
    BY <1>1, TilesFit DEF Sound, Tiles
  <2> HIDE DEF used
  <2>3. ASSUME NEW a, NEW b \in used, a \in b .. b + Size(zone, b) - 1
        PROVE  a \in Addr
    <3>1. b \in Addr /\ Size(zone, b) \in Nat /\ b + Size(zone, b) <= ZoneSize
      BY <2>2
    <3>2. b \in Nat /\ ZoneSize \in Nat
      BY <3>1, ConstantsType DEF Addr
    <3> HIDE DEF covered
    <3> QED
      BY <2>3, <3>1, <3>2 DEF Addr
  <2>4. covered = Space(zone, used)
    BY <2>3 DEF Space
  <2> QED
    BY <2>1, <2>4 DEF used
<1> QED
  BY <1>2, <1>3

\* SoundInv implies ListsAreExact.
LEMMA SoundIsListed == SoundInv => ListsAreExact
<1> SUFFICES ASSUME SoundInv, Calm
             PROVE  /\ ValidateFreelist(zone)
                    /\ \A c \in Classes :
                          Ring(c) = {b \in FreeBlocks : SizeClass(Size(zone, b)) = c}
  BY DEF ListsAreExact
<1> DEFINE F == FreeOf(zone, Blocks)
<1>1. zone \in Zones /\ Sound(zone, Blocks) /\ FreeBlocks = F
  BY CalmHeap DEF Heap
<1>2. Stocked(zone, F) /\ ValidateFreelist(zone)
  BY <1>1, SoundIsValid
<1>3. ASSUME NEW c \in Classes
      PROVE  Ring(c) = {b \in FreeBlocks : SizeClass(Size(zone, b)) = c}
  <2> DEFINE R == ClassOf(zone, F, c)
             head == zone.freelists[c]
             at == RingFrom(zone, head)
  <2>1. {b \in FreeBlocks : SizeClass(Size(zone, b)) = c} = R
    BY <1>1 DEF ClassOf
  <2>2. CASE head = Null
    <3>1. R = {}
      BY <1>2, <2>2, ConstantsType DEF Stocked, Lists, ClassOf, Spaced
    <3> QED
      BY <2>1, <2>2, <3>1 DEF Ring
  <2>3. CASE head # Null
    <3> HIDE DEF F
    <3>1. LET Q == ClassOf(zone, F, c) IN
          /\ Cycle(zone, Q) /\ Spaced(Q) /\ zone.freelists[c] \in Q /\ Q \subseteq F
          /\ \A n \in Q : ~BadLinks(zone, n) /\ ValidateBlock(zone, n) /\ GoodNode(zone, n)
      BY <1>1, <1>2, <2>3, RingOfClass
    <3>2. Cycle(zone, R) /\ Spaced(R) /\ head \in R
      BY <3>1
    <3> HIDE DEF R, head
    <3>3. LET p == RingFrom(zone, head) IN
          /\ WalkLimit \in Nat /\ p[0] = head
          /\ \A i \in 0 .. WalkLimit : p[i] \in R
          /\ \E k \in 1 .. WalkLimit :
                /\ p[k] = head /\ \A i \in 1 .. k - 1 : p[i] # head
                /\ R = {p[i] : i \in 0 .. k - 1}
      BY <1>1, <3>2, RingWalked
    <3>4. PICK k \in 1 .. WalkLimit : R = {at[i] : i \in 0 .. k - 1}
      BY <3>3
    <3> HIDE DEF at
    <3>5. WalkLimit \in Nat /\ \A i \in 0 .. WalkLimit : at[i] \in R
      BY <3>3 DEF at
    <3>6. 0 .. k - 1 \subseteq 0 .. WalkLimit
      BY <3>5
    <3>7. {at[i] : i \in 0 .. WalkLimit} = R
      BY <3>4, <3>5, <3>6
    <3> QED
      BY <2>1, <2>3, <3>7 DEF Ring, at, head
  <2> QED
    BY <2>2, <2>3
<1> QED
  BY <1>2, <1>3

\* SoundInv implies EachBlockHasItsOwner.
LEMMA SoundIsOwned == SoundInv => EachBlockHasItsOwner
<1> SUFFICES ASSUME SoundInv, Calm
             PROVE  /\ Blocks \ FreeBlocks = PtrBlocks \cup HandleBlocks
                    /\ PtrBlocks \cap HandleBlocks = {}
                    /\ \A h \in Masters : zone.mpBase[h] # Null =>
                          /\ holders[h] > 0
                          /\ MasterPtr(zone, zone.mpBase[h]) = h
                          /\ Flags(zone, zone.mpBase[h]) \cap {"FREE", "PTR", "HANDLE"} = {"HANDLE"}
  BY DEF EachBlockHasItsOwner
<1>1. /\ FreeBlocks = FreeOf(zone, Blocks) /\ UsedOf(zone, Blocks) = Places(zone, ptrs)
      /\ Contents(zone, ptrs, holders, stored)
      /\ \A h \in Masters : zone.mpBase[h] # Reserved
  BY CalmHeap
<1> HIDE DEF Blocks, FreeBlocks
<1>2. \A h \in Masters : h \in Using(zone) <=> zone.mpBase[h] # Null
  BY <1>1 DEF Using
<1>3. ASSUME NEW h \in Masters, zone.mpBase[h] # Null
      PROVE  /\ holders[h] > 0
             /\ MasterPtr(zone, zone.mpBase[h]) = h
             /\ Flags(zone, zone.mpBase[h]) \cap {"FREE", "PTR", "HANDLE"} = {"HANDLE"}
  BY <1>1, <1>2, <1>3 DEF Contents, HandleIs, Kinds
<1>4. HandleBlocks = {zone.mpBase[h] : h \in Using(zone)}
  BY <1>2, <1>3 DEF HandleBlocks, Using
<1>5. Blocks \ FreeBlocks = PtrBlocks \cup HandleBlocks
  BY <1>1, <1>4 DEF UsedOf, Places, PtrBlocks
<1>6. PtrBlocks \cap HandleBlocks = {}
  <2>1. \A p \in ptrs, h \in Using(zone) : p.at # zone.mpBase[h]
    BY <1>1, OwnersApart
  <2> QED
    BY <1>4, <2>1 DEF PtrBlocks
<1> QED
  BY <1>3, <1>5, <1>6

\* SoundInv implies CalmDataIsIntact.
LEMMA SoundIsIntact == SoundInv => CalmDataIsIntact
<1> SUFFICES ASSUME SoundInv, Calm PROVE DataIsIntact
  BY DEF CalmDataIsIntact
<1>1. Contents(zone, ptrs, holders, stored)
  BY CalmHeap
<1>2. ASSUME NEW p \in ptrs PROVE Holds(p.at + HeaderSize, p.size, Data(Null))
  BY <1>1 DEF Contents, PtrIs, HoldsIn, Holds, HeaderSize
<1>3. ASSUME NEW h \in Masters, holders[h] > 0, zone.mpBase[h] \in Addr
      PROVE  Holds(zone.mpBase[h] + HeaderSize, stored[h], Data(h))
  <2>1. h \in Using(zone)
    BY <1>3, ConstantsType DEF Using
  <2> QED
    BY <1>1, <2>1 DEF Contents, HandleIs, HoldsIn, Holds, HeaderSize
<1> QED
  BY <1>2, <1>3 DEF DataIsIntact

\* What RefusalIsHonest says of a step.
RefusedHonestly ==
    pc = "compact" /\ pc' = "idle" /\ ~disturbed' /\ ptrs' = ptrs /\ holders' = holders
        /\ (request.op = "resize" => zone'.mpBase[request.h] = zone.mpBase[request.h]) =>
    \A b \in FreeBlocks' : Size(zone', b) < request.need + HeaderSize

\* A step from a state of SoundInv refuses honestly.
LEMMA SoundIsHonest ==
    ASSUME SoundInv, [Next]_vars
    PROVE  RefusedHonestly
<1> SUFFICES ASSUME pc = "compact", pc' = "idle", ~disturbed', ptrs' = ptrs, holders' = holders,
                    request.op = "resize" => zone'.mpBase[request.h] = zone.mpBase[request.h]
             PROVE  \A b \in FreeBlocks' : Size(zone', b) < request.need + HeaderSize
  BY DEF RefusedHonestly
<1>1. CompactEnds
  BY DEF Next, Clients, Walk, vars, walkVars, MayCall, NewPtr, DisposePtr, NewHandle, DisposeHandle,
         HLock, HUnlock, HPurge, HNoPurge, SetHandleSize, ShrinkInPlace, PurgePasses, PurgeFrees,
         PurgeEnds, CompactAt, CompactPasses, CompactMoves, CompactLeaves
<1>2. ~disturbed
  BY <1>1 DEF CompactEnds
<1>3. ~GrantedSomething
  BY DEF GrantedSomething
<1>4. \A d \in FreeOf(zone', Walked(zone')) : Size(zone', d) < request.need + HeaderSize
  BY <1>1, <1>2, <1>3, CompactEndsCalm
<1>5. FreeBlocks' = FreeOf(zone', Walked(zone'))
  BY DEF FreeBlocks, Blocks, IsFree, FreeOf, Walked, Steps
<1> QED
  BY <1>4, <1>5

\* Until compaction disturbs a list, the blocks tile the zone between calls, each knows
\* the size of the one before it, coalescing leaves no two free neighbours, and bytesUsed
\* counts the blocks in use (split_block, coalesce_forward, coalesce_backward).
THEOREM HeapIsTiled == Spec => []ZoneIsTiled
  BY SoundCorrect, SoundIsTiled, PTL

\* Until then every free block is on the list of its size class, each list is a ring,
\* and nothing else is on one (freelist_insert, freelist_remove).
THEOREM FreeBlocksListed == Spec => []ListsAreExact
  BY SoundCorrect, SoundIsListed, PTL

\* Until then the blocks in use are those that clients hold, each by one of them, and a
\* handle's block points back at its master pointer (NewPtr, NewHandle, SetHandleSize,
\* PurgeMem and the calls that dispose).
THEOREM BlocksOwned == Spec => []EachBlockHasItsOwner
  BY SoundCorrect, SoundIsOwned, PTL

\* Until then what clients keep in their blocks is what they wrote, through every
\* split, merge, resize and purge around it.
THEOREM DataKept == Spec => []CalmDataIsIntact
  BY SoundCorrect, SoundIsIntact, PTL

\* Until then a request that is refused after purging and compacting finds no free block
\* with what it needs and a header to spare (CompactMem, find_fit, MaxMem).
THEOREM RefusalsHonest == Spec => RefusalIsHonest
<1>1. SoundInv /\ [Next]_vars => RefusedHonestly
  BY SoundIsHonest
<1>2. Spec => []SoundInv /\ [][Next]_vars
  BY SoundCorrect, PTL DEF Spec
<1>3. Spec => [][RefusedHonestly]_vars
  BY <1>1, <1>2, PTL
<1> QED
  BY <1>3 DEF RefusalIsHonest, RefusedHonestly

=============================================================================
