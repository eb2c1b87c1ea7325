-------------------------- MODULE HeapZoneProofs --------------------------
(***************************************************************************)
(* What the functions of a zone do to it.  They keep its types on a heap   *)
(* in any state.  On a sound heap, whose blocks tile the zone and whose    *)
(* lists hold the free blocks, they keep it sound, and touch nothing that  *)
(* other blocks hold.                                                      *)
(***************************************************************************)
EXTENDS HeapZone, FiniteSetTheorems, NaturalsInduction, WellFoundedInduction, TLAPS

-----------------------------------------------------------------------------
(* A zone of the right type, and what is read from it.                      *)

Cells == [lo : Word, hi : Word]
Zones == [mem : [Addr -> Cells],
          freelists : [Classes -> Addr \cup {Null, Wild}],
          mpBase : [Masters -> Nat \cup {Null, Reserved}],
          bytesUsed : Int, bytesFree : Int]

LEMMA ConstantsType ==
    /\ ZoneSize \in Nat /\ MasterCount \in Nat /\ Addr \subseteq Nat /\ Masters \subseteq Nat
    /\ Null \notin Nat /\ Wild \notin Nat /\ Reserved \notin Nat
    /\ Null # Wild /\ Null # Reserved
BY ZoneAssumption DEF Addr, Masters, Null, Wild, Reserved

\* The kinds of words.
FlagNames == {"FREE", "PTR", "HANDLE", "LOCKED", "PURGEABLE"}

LEMMA WordKinds ==
    /\ Canary \in Word /\ Zero \in Word
    /\ \A n \in Nat : Number(n) \in Word
    /\ \A n : NodeWord(n) \in Word
    /\ \A x \in Masters \cup {Null} : Data(x) \in Word
    /\ \A x \in Masters : <<"master", x>> \in Word
    /\ \A fs \in SUBSET FlagNames, k \in Nat : <<"flags", fs, k>> \in Word
<1>1. Zero \in Word /\ \A n \in Nat : Number(n) \in Word
  BY DEF Word, Zero, Number
<1>2. \A n : NodeWord(n) \in Word
  BY <1>1 DEF Word, NodeWord
<1> QED
  BY <1>1, <1>2 DEF Word, Data, FlagNames

LEMMA WordReads ==
    ASSUME NEW w \in Word
    PROVE  /\ AsNumber(w) \in Nat
           /\ AsFlags(w) \in SUBSET FlagNames
           /\ AsLockCount(w) \in Nat
           /\ AsNode(w) \in Addr \cup {Null, Wild}
           /\ w[1] = "master" => w[2] \in Masters
<1>1. CASE w = Canary
  BY <1>1, ZoneAssumption DEF Canary, AsNumber, AsFlags, AsLockCount, AsNode, IsZero, Zero,
     CanaryLock, FlagNames
<1>2. CASE w \in {"data"} \X (Masters \cup {Null})
  BY <1>2, ZoneAssumption DEF Canary, AsNumber, AsFlags, AsLockCount, AsNode, IsZero, Zero,
     CanaryLock, FlagNames
<1>3. CASE w \in {"number"} \X Nat
  BY <1>3, ZoneAssumption DEF Canary, AsNumber, AsFlags, AsLockCount, AsNode, IsZero, Zero,
     CanaryLock, FlagNames
<1>4. CASE w \in {"node"} \X Addr
  BY <1>4, ZoneAssumption DEF Canary, AsNumber, AsFlags, AsLockCount, AsNode, IsZero, Zero,
     CanaryLock, FlagNames
<1>5. CASE w \in {"master"} \X Masters
  BY <1>5, ZoneAssumption DEF Canary, AsNumber, AsFlags, AsLockCount, AsNode, IsZero, Zero,
     CanaryLock, FlagNames
<1>6. CASE w \in {"flags"} \X (SUBSET FlagNames) \X Nat
  BY <1>6, ZoneAssumption DEF Canary, AsNumber, AsFlags, AsLockCount, AsNode, IsZero, Zero,
     CanaryLock, FlagNames
<1> QED
  BY <1>1, <1>2, <1>3, <1>4, <1>5, <1>6 DEF Word, FlagNames

LEMMA CellType ==
    ASSUME NEW z \in Zones, NEW a
    PROVE  Cell(z, a).lo \in Word /\ Cell(z, a).hi \in Word
BY WordKinds DEF Cell, Zones, Cells

LEMMA Reads ==
    ASSUME NEW z \in Zones, NEW b
    PROVE  /\ Size(z, b) \in Nat /\ PrevSize(z, b) \in Nat
           /\ Flags(z, b) \in SUBSET FlagNames /\ LockCount(z, b) \in Nat
           /\ MasterPtr(z, b) \in Masters \cup {Null}
           /\ NextNode(z, b) \in Addr \cup {Null, Wild}
           /\ PrevNode(z, b) \in Addr \cup {Null, Wild}
BY CellType, WordReads DEF Size, PrevSize, Flags, LockCount, MasterPtr, NextNode, PrevNode

-----------------------------------------------------------------------------
(* What is written to it.  Most of the functions change the memory and the  *)
(* lists of a zone and nothing else.                                        *)

Rewrites(z) == {y \in Zones : y.mpBase = z.mpBase /\ y.bytesUsed = z.bytesUsed
                                                 /\ y.bytesFree = z.bytesFree}

LEMMA RewritesCompose ==
    ASSUME NEW z \in Zones
    PROVE  /\ z \in Rewrites(z)
           /\ \A y \in Rewrites(z) : y \in Zones /\ Rewrites(y) \subseteq Rewrites(z)
BY DEF Rewrites

LEMMA PutType ==
    ASSUME NEW z \in Zones, NEW a, NEW w \in Word
    PROVE  PutLo(z, a, w) \in Rewrites(z) /\ PutHi(z, a, w) \in Rewrites(z)
<1>1. CASE a \in Addr
  <2>1. z.mem \in [Addr -> Cells] /\ z.mem[a] \in Cells
    BY <1>1 DEF Zones
  <2>2. /\ [z.mem[a] EXCEPT !.lo = w] \in Cells
        /\ [z.mem[a] EXCEPT !.hi = w] \in Cells
    BY <2>1 DEF Cells
  <2>3. /\ [z.mem EXCEPT ![a].lo = w] \in [Addr -> Cells]
        /\ [z.mem EXCEPT ![a].hi = w] \in [Addr -> Cells]
    BY <2>1, <2>2
  <2> QED
    BY <1>1, <2>3 DEF PutLo, PutHi, Rewrites, Zones
<1>2. CASE a \notin Addr
  BY <1>2 DEF PutLo, PutHi, Rewrites
<1> QED
  BY <1>1, <1>2

LEMMA ListsType ==
    ASSUME NEW z \in Zones, NEW c, NEW n \in Addr \cup {Null, Wild}
    PROVE  [z EXCEPT !.freelists[c] = n] \in Rewrites(z)
BY DEF Zones, Rewrites

LEMMA SetType ==
    ASSUME NEW z \in Zones, NEW b, NEW n \in Nat, NEW fs \in SUBSET FlagNames, NEW i, NEW m
    PROVE  /\ SetSize(z, b, n) \in Rewrites(z) /\ SetPrevSize(z, b, n) \in Rewrites(z)
           /\ SetFlags(z, b, fs) \in Rewrites(z) /\ SetLockCount(z, b, n) \in Rewrites(z)
           /\ SetMaster(z, b, i) \in Rewrites(z)
           /\ SetNext(z, b, m) \in Rewrites(z) /\ SetPrev(z, b, m) \in Rewrites(z)
<1>1. LockCount(z, b) \in Nat /\ Flags(z, b) \in SUBSET FlagNames
  BY Reads
<1>2. z \in Rewrites(z)
  BY DEF Rewrites
<1>3. <<"flags", fs, LockCount(z, b)>> \in Word /\ <<"flags", Flags(z, b), n>> \in Word
  BY <1>1, WordKinds
<1> QED
  BY <1>2, <1>3, PutType, WordKinds
     DEF SetSize, SetPrevSize, SetFlags, SetLockCount, SetMaster, SetNext, SetPrev

LEMMA SetLinksType ==
    ASSUME NEW z \in Zones, NEW n, NEW next, NEW prev
    PROVE  SetLinks(z, n, next, prev) \in Rewrites(z)
<1>1. SetNext(z, n, next) \in Rewrites(z)
  BY SetType
<1>2. SetPrev(SetNext(z, n, next), n, prev) \in Rewrites(SetNext(z, n, next))
  BY <1>1, SetType, RewritesCompose
<1> QED
  BY <1>1, <1>2, RewritesCompose DEF SetLinks

LEMMA FreeHeaderType ==
    ASSUME NEW z \in Zones, NEW b, NEW size \in Nat, NEW prev \in Nat
    PROVE  FreeHeader(z, b, size, prev) \in Rewrites(z)
<1> DEFINE y1 == SetSize(z, b, size)
           y2 == SetFlags(y1, b, {"FREE"})
           y3 == SetPrevSize(y2, b, prev)
           y4 == SetMaster(y3, b, Null)
<1>0. {"FREE"} \in SUBSET FlagNames
  BY DEF FlagNames
<1>1. y1 \in Rewrites(z)
  BY SetType
<1> HIDE DEF y1
<1>2. y2 \in Rewrites(y1) /\ y1 \in Zones
  BY <1>0, <1>1, SetType, RewritesCompose
<1> HIDE DEF y2
<1>3. y3 \in Rewrites(y2) /\ y2 \in Zones
  BY <1>2, SetType, RewritesCompose
<1> HIDE DEF y3
<1>4. y4 \in Rewrites(y3) /\ y3 \in Zones
  BY <1>3, SetType, RewritesCompose
<1>5. y4 \in Rewrites(z)
  BY <1>1, <1>2, <1>3, <1>4, RewritesCompose
<1> QED
  BY <1>5 DEF FreeHeader, y1, y2, y3

LEMMA MemoryType ==
    ASSUME NEW z \in Zones, NEW m \in [Addr -> Cells]
    PROVE  [z EXCEPT !.mem = m] \in Rewrites(z)
BY DEF Rewrites, Zones

LEMMA FillType ==
    ASSUME NEW z \in Zones, NEW from, NEW n, NEW w \in Word
    PROVE  Fill(z, from, n, w) \in Rewrites(z)
<1>1. \A a \in Addr : z.mem[a] \in Cells /\ [lo |-> w, hi |-> w] \in Cells
  BY DEF Zones, Cells
<1>2. [a \in Addr |-> IF a \in from .. from + n - 1 THEN [lo |-> w, hi |-> w] ELSE z.mem[a]]
         \in [Addr -> Cells]
  BY <1>1
<1> QED
  BY <1>2, MemoryType DEF Fill

LEMMA CopiedType ==
    ASSUME NEW z \in Zones, NEW to, NEW from, NEW n
    PROVE  Copied(z, to, from, n) \in Rewrites(z)
<1>1. \A a : Cell(z, a) \in Cells
  BY WordKinds DEF Zones, Cells, Cell
<1>2. \A a \in Addr : z.mem[a] \in Cells
  BY DEF Zones
<1>3. [a \in Addr |-> IF a \in to .. to + n - 1 THEN Cell(z, from + (a - to)) ELSE z.mem[a]]
         \in [Addr -> Cells]
  BY <1>1, <1>2
<1> QED
  BY <1>3, MemoryType DEF Copied

LEMMA DropType ==
    ASSUME NEW z \in Zones
    PROVE  DropAll(z) \in Rewrites(z) /\ AfterMaxMem(z) \in Rewrites(z)
<1>1. \A f \in [Classes -> Addr \cup {Null, Wild}] : [z EXCEPT !.freelists = f] \in Rewrites(z)
  BY DEF Rewrites, Zones
<1>2. \A c \in Classes : z.freelists[c] \in Addr \cup {Null, Wild}
  BY DEF Zones
<1> QED
  BY <1>1, <1>2 DEF DropAll, AfterMaxMem

\* The four writes that take a node out of its ring, and what they leave.
LEMMA UnlinkType ==
    ASSUME NEW z \in Zones, NEW c, NEW h \in Addr \cup {Null, Wild},
           NEW n, NEW next, NEW prev
    PROVE  /\ SetLinks([z EXCEPT !.freelists[c] = h], n, Null, Null) \in Rewrites(z)
           /\ SetLinks(SetPrev(SetNext([z EXCEPT !.freelists[c] = h], prev, next), next, prev),
                       n, Null, Null) \in Rewrites(z)
<1> DEFINE y1 == [z EXCEPT !.freelists[c] = h]
           y2 == SetNext(y1, prev, next)
           y3 == SetPrev(y2, next, prev)
<1>1. y1 \in Rewrites(z)
  BY ListsType
<1> HIDE DEF y1
<1>2. y2 \in Rewrites(y1) /\ y1 \in Zones
  BY <1>1, SetType, RewritesCompose
<1> HIDE DEF y2
<1>3. y3 \in Rewrites(y2) /\ y2 \in Zones
  BY <1>2, SetType, RewritesCompose
<1> HIDE DEF y3
<1>4. /\ SetLinks(y1, n, Null, Null) \in Rewrites(y1)
      /\ SetLinks(y3, n, Null, Null) \in Rewrites(y3) /\ y3 \in Zones
  BY <1>1, <1>2, <1>3, SetLinksType, RewritesCompose
<1>5. SetLinks(y1, n, Null, Null) \in Rewrites(z) /\ SetLinks(y3, n, Null, Null) \in Rewrites(z)
  BY <1>1, <1>2, <1>3, <1>4, RewritesCompose
<1> QED
  BY <1>5 DEF y1, y2, y3

LEMMA FreelistUnlinkNodeType ==
    ASSUME NEW z \in Zones, NEW c \in Classes, NEW n
    PROVE  FreelistUnlinkNode(z, c, n) \in Rewrites(z)
<1>1. /\ NextNode(z, n) \in Addr \cup {Null, Wild} /\ z.freelists[c] \in Addr \cup {Null, Wild}
      /\ Null \in Addr \cup {Null, Wild}
  BY Reads DEF Zones
<1> QED
  BY <1>1, ListsType, UnlinkType DEF FreelistUnlinkNode

LEMMA FreelistRemoveType ==
    ASSUME NEW z \in Zones, NEW b
    PROVE  FreelistRemove(z, b) \in Rewrites(z)
<1> DEFINE c == SizeClass(Size(z, b))
<1> HIDE DEF c
<1>1. NextNode(z, b) \in Addr \cup {Null, Wild} /\ Null \in Addr \cup {Null, Wild}
  BY Reads
<1>2. z \in Rewrites(z)
  BY RewritesCompose
<1>3. CASE c \in Classes
  <2>1. z.freelists[c] \in Addr \cup {Null, Wild}
    BY <1>3 DEF Zones
  <2> QED
    BY <1>1, <1>2, <2>1, UnlinkType DEF FreelistRemove, c
<1>4. CASE c \notin Classes
  <2>1. \A h : [z EXCEPT !.freelists[c] = h] = [z EXCEPT !.freelists[c] = Null]
    BY <1>4 DEF Zones
  <2> QED
    BY <1>1, <1>2, <2>1, UnlinkType DEF FreelistRemove, c
<1> QED
  BY <1>3, <1>4

LEMMA FreelistInsertType ==
    ASSUME NEW z \in Zones, NEW b
    PROVE  FreelistInsert(z, b) \in Rewrites(z)
<1>1. CASE b \notin Addr \/ Size(z, b) < MinBlockSize
  BY <1>1, RewritesCompose DEF FreelistInsert
<1>2. CASE b \in Addr /\ ~(Size(z, b) < MinBlockSize)
  <2> DEFINE c == SizeClass(Size(z, b))
             head == z.freelists[c]
             flagged == SetFlags(z, b, {"FREE"})
             cleared == SetLinks(flagged, b, Null, Null)
             linked == SetNext(cleared, b, head)
             after == SetPrev(linked, b, PrevNode(linked, head))
             led == [after EXCEPT !.freelists[c] = b]
             alone == [cleared EXCEPT !.freelists[c] = b]
             told == SetNext(led, PrevNode(led, head), b)
  <2>0. flagged \in Rewrites(z) /\ flagged \in Zones
    BY SetType, RewritesCompose DEF FlagNames
  <2> HIDE DEF flagged, c
  <2>1. cleared \in Rewrites(z) /\ cleared \in Zones
    BY <2>0, SetLinksType, RewritesCompose
  <2> HIDE DEF cleared
  <2>2. linked \in Rewrites(z) /\ linked \in Zones /\ alone \in Rewrites(z) /\ alone \in Zones
    BY <1>2, <2>1, SetType, ListsType, RewritesCompose
  <2> HIDE DEF linked, alone
  <2>3. after \in Rewrites(z) /\ after \in Zones /\ SetLinks(alone, b, b, b) \in Rewrites(z)
    BY <2>2, SetType, SetLinksType, RewritesCompose
  <2> HIDE DEF after
  <2>4. led \in Rewrites(z) /\ led \in Zones
    BY <1>2, <2>3, ListsType, RewritesCompose
  <2> HIDE DEF led
  <2>5. told \in Rewrites(z) /\ told \in Zones
    BY <2>4, SetType, RewritesCompose
  <2> HIDE DEF told
  <2>6. SetPrev(told, head, b) \in Rewrites(z)
    BY <2>5, SetType, RewritesCompose
  <2> QED
    BY <1>2, <2>3, <2>6 DEF FreelistInsert, told, led, after, linked, alone, cleared, flagged, c
<1> QED
  BY <1>1, <1>2

LEMMA TellNextType ==
    ASSUME NEW z \in Zones, NEW b
    PROVE  TellNext(z, b) \in Rewrites(z)
BY Reads, SetType, RewritesCompose DEF TellNext

LEMMA CoalesceForwardType ==
    ASSUME NEW z \in Zones, NEW b
    PROVE  CoalesceForward(z, b) \in Rewrites(z)
<1> DEFINE next == b + Size(z, b)
           removed == FreelistRemove(z, next)
           sized == SetSize(removed, b, Size(z, b) + Size(z, next))
<1>1. Size(z, b) \in Nat /\ Size(z, next) \in Nat /\ Size(z, b) + Size(z, next) \in Nat
  BY Reads
<1>2. removed \in Rewrites(z) /\ removed \in Zones
  BY FreelistRemoveType, RewritesCompose
<1> HIDE DEF removed
<1>3. sized \in Rewrites(z) /\ sized \in Zones
  BY <1>1, <1>2, SetType, RewritesCompose
<1> HIDE DEF sized
<1>4. TellNext(sized, b) \in Rewrites(z) /\ z \in Rewrites(z)
  BY <1>3, TellNextType, RewritesCompose
<1> QED
  BY <1>4 DEF CoalesceForward, sized, removed

LEMMA CoalesceBackwardType ==
    ASSUME NEW z \in Zones, NEW b
    PROVE  CoalesceBackward(z, b) \in Rewrites(z)
<1> DEFINE prev == Start(z, b)
           removed == FreelistRemove(z, prev)
           sized == SetSize(removed, prev, Size(z, prev) + Size(z, b))
<1>1. Size(z, b) \in Nat /\ Size(z, prev) \in Nat /\ Size(z, prev) + Size(z, b) \in Nat
  BY Reads
<1> HIDE DEF prev
<1>2. removed \in Rewrites(z) /\ removed \in Zones
  BY FreelistRemoveType, RewritesCompose
<1> HIDE DEF removed
<1>3. sized \in Rewrites(z) /\ sized \in Zones
  BY <1>1, <1>2, SetType, RewritesCompose
<1> HIDE DEF sized
<1>4. TellNext(sized, prev) \in Rewrites(z) /\ z \in Rewrites(z)
  BY <1>3, TellNextType, RewritesCompose
<1> QED
  BY <1>4 DEF CoalesceBackward, sized, removed, prev

LEMMA StartType ==
    ASSUME NEW z \in Zones, NEW b \in Nat
    PROVE  Start(z, b) \in Nat /\ Start(z, b) <= b
BY Reads DEF Start, MergesBackward

-----------------------------------------------------------------------------
(* Searching.                                                               *)

Finds(z, need) ==
    {s \in [zone : Rewrites(z), found : Addr \cup {Null}] :
        s.found # Null => ValidateBlock(s.zone, s.found) /\ Size(s.zone, s.found) >= need}

LEMMA SearchClassType ==
    ASSUME NEW z \in Zones, NEW c \in Classes, NEW need \in Nat
    PROVE  SearchClass(z, c, need) \in Finds(z, need)
<1> DEFINE at == RingFrom(z, z.freelists[c])
           i == WalkEnd(at, LAMBDA n : BadLinks(z, n) \/ ~ValidateBlock(z, n) \/ Size(z, n) >= need)
           n == at[i]
<1>1. z \in Rewrites(z) /\ [z EXCEPT !.freelists[c] = Null] \in Rewrites(z)
  BY RewritesCompose, ListsType
<1>2. FreelistUnlinkNode(z, c, n) \in Rewrites(z)
  BY FreelistUnlinkNodeType
<1>3. ~BadLinks(z, n) => n \in Addr
  BY DEF BadLinks, IsValidFreenode
<1> HIDE DEF n
<1>4. \/ SearchClass(z, c, need) = [zone |-> z, found |-> Null]
      \/ SearchClass(z, c, need) = [zone |-> [z EXCEPT !.freelists[c] = Null], found |-> Null]
      \/ SearchClass(z, c, need) = [zone |-> FreelistUnlinkNode(z, c, n), found |-> Null]
      \/ /\ ~BadLinks(z, n) /\ ValidateBlock(z, n) /\ Size(z, n) >= need
         /\ SearchClass(z, c, need) = [zone |-> z, found |-> n]
  BY DEF SearchClass, n
<1> QED
  BY <1>1, <1>2, <1>3, <1>4 DEF Finds

\* A set of numbers has a least one.
LEMMA LeastOf ==
    ASSUME NEW S \in SUBSET Nat, S # {}
    PROVE  \E m \in S : \A k \in S : m <= k
<1>1. PICK m \in S : \A k \in S : ~(<<k, m>> \in OpToRel(<, Nat))
  BY NatLessThanWellFounded, WFMin
<1>2. \A k \in S : ~(k < m)
  BY <1>1 DEF OpToRel
<1>3. \A k \in S : m <= k
  BY <1>2
<1> QED
  BY <1>3

LEMMA SizeClassType ==
    ASSUME NEW n
    PROVE  SizeClass(n) \in Nat /\ SizeClass(n) <= Len(ClassLimits)
<1> DEFINE S == {i \in DOMAIN ClassLimits : ClassLimits[i] < n}
<1>1. Len(ClassLimits) \in Nat /\ DOMAIN ClassLimits = 1 .. Len(ClassLimits)
  BY ZoneAssumption
<1> DEFINE Top == Len(ClassLimits)
<1>2. IsFiniteSet(1 .. Top) /\ Cardinality(1 .. Top) = Top
  <2>1. Top \in Nat
    BY <1>1
  <2> HIDE DEF Top
  <2> QED
    BY <2>1, FS_Interval
<1>3. S \subseteq 1 .. Len(ClassLimits)
  BY <1>1
<1>4. Cardinality(S) <= Len(ClassLimits) /\ IsFiniteSet(S)
  BY <1>2, <1>3, FS_Subset
<1>5. Cardinality(S) \in Nat
  BY <1>4, FS_CardinalityType
<1> QED
  BY <1>4, <1>5 DEF SizeClass

\* One turn of the loop over the classes.
Searched(z, need, c, before) ==
    IF c < SizeClass(need) THEN [zone |-> z, found |-> Null]
    ELSE IF before[c - 1].found # Null THEN before[c - 1]
    ELSE SearchClass(before[c - 1].zone, c, need)

\* The loop is a function of the classes: up to each of them there is one.
LEMMA SearchExists ==
    ASSUME NEW z, NEW need
    PROVE  \E f : f = [c \in -1 .. Len(ClassLimits) |-> Searched(z, need, c, f)]
<1> DEFINE Top == Len(ClassLimits)
           Upto(n) == \E f : f = [c \in -1 .. n - 1 |-> Searched(z, need, c, f)]
           Missing == {n \in 0 .. Top + 1 : ~Upto(n)}
<1>1. Top \in Nat /\ SizeClass(need) \in Nat
  BY ZoneAssumption, SizeClassType
<1>2. ASSUME NEW n \in 0 .. Top, Upto(n) PROVE Upto(n + 1)
  <2>1. PICK f : f = [c \in -1 .. n - 1 |-> Searched(z, need, c, f)]
    BY <1>2
  <2> DEFINE g == [c \in -1 .. n |-> IF c < n THEN f[c] ELSE Searched(z, need, n, f)]
  <2>2. \A c \in -1 .. n - 1 : g[c] = f[c]
    BY <1>1
  <2>3. \A c \in -1 .. n : Searched(z, need, c, g) = Searched(z, need, c, f)
    <3>1. \A c \in -1 .. n : c >= SizeClass(need) => c - 1 \in -1 .. n - 1
      BY <1>1
    <3> QED
      BY <1>1, <2>2, <3>1 DEF Searched
  <2>4. \A c \in -1 .. n : g[c] = Searched(z, need, c, f)
    BY <1>1, <2>1
  <2>5. g = [c \in -1 .. n |-> Searched(z, need, c, g)]
    BY <2>3, <2>4
  <2>6. n + 1 - 1 = n
    BY <1>1
  <2> HIDE DEF g
  <2>7. g = [c \in -1 .. n + 1 - 1 |-> Searched(z, need, c, g)]
    BY <2>5, <2>6
  <2> QED
    BY <2>7
<1>3. Upto(0)
  <2>1. [c \in -1 .. 0 - 1 |-> [zone |-> z, found |-> Null]]
          = [c \in -1 .. 0 - 1 |-> Searched(z, need, c, [x \in {} |-> 0])]
    BY <1>1 DEF Searched
  <2> DEFINE f == [c \in -1 .. 0 - 1 |-> [zone |-> z, found |-> Null]]
  <2>2. f = [c \in -1 .. 0 - 1 |-> Searched(z, need, c, f)]
    BY <1>1 DEF Searched
  <2> QED
    BY <2>2
<1> HIDE DEF Upto
<1>4. CASE Missing # {}
  <2>0. Missing \in SUBSET Nat
    BY <1>1
  <2> HIDE DEF Missing
  <2>1. PICK m \in Missing : \A k \in Missing : m <= k
    BY <1>4, <2>0, LeastOf
  <2> USE DEF Missing
  <2>2. m # 0 /\ m - 1 \in 0 .. Top /\ m - 1 \notin Missing
    BY <1>1, <1>3, <2>1
  <2>3. Upto(m - 1 + 1)
    BY <1>1, <1>2, <2>2
  <2>4. m - 1 + 1 = m
    BY <1>1
  <2> QED
    BY <2>1, <2>3, <2>4
<1>5. CASE Missing = {}
  <2>1. Upto(Top + 1)
    BY <1>1, <1>5
  <2>2. Top + 1 - 1 = Top
    BY <1>1
  <2> QED
    BY <2>1, <2>2 DEF Upto
<1> QED
  BY <1>4, <1>5

LEMMA FindFitType ==
    ASSUME NEW z \in Zones, NEW need \in Nat
    PROVE  FindFit(z, need) \in Finds(z, need)
<1> DEFINE Top == Len(ClassLimits)
           search == CHOOSE f : f = [c \in -1 .. Top |-> Searched(z, need, c, f)]
           Wrong == {n \in 0 .. Top + 1 : search[n - 1] \notin Finds(z, need)}
<1>1. search = [c \in -1 .. Top |-> Searched(z, need, c, search)]
  BY SearchExists
<1>2. FindFit(z, need) = search[Top]
  BY DEF FindFit, Searched
<1> HIDE DEF search
<1>3. Top \in Nat /\ SizeClass(need) \in Nat
  BY ZoneAssumption, SizeClassType
<1>4. [zone |-> z, found |-> Null] \in Finds(z, need)
  BY RewritesCompose DEF Finds
<1>5. ASSUME NEW s \in Finds(z, need), NEW c \in Classes
      PROVE  SearchClass(s.zone, c, need) \in Finds(z, need)
  <2>1. s.zone \in Rewrites(z) /\ s.zone \in Zones
    BY RewritesCompose DEF Finds
  <2>2. SearchClass(s.zone, c, need) \in Finds(s.zone, need)
    BY <2>1, SearchClassType
  <2> QED
    BY <2>1, <2>2, RewritesCompose DEF Finds
<1>6. CASE Wrong # {}
  <2>0. Wrong \in SUBSET Nat
    BY <1>3
  <2> HIDE DEF Wrong
  <2>1. PICK m \in Wrong : \A k \in Wrong : m <= k
    BY <1>6, <2>0, LeastOf
  <2> USE DEF Wrong
  <2>2. m - 1 \in -1 .. Top /\ search[m - 1] = Searched(z, need, m - 1, search)
    BY <1>1, <1>3, <2>1
  <2>3. ~(m - 1 < SizeClass(need))
    BY <1>4, <2>1, <2>2 DEF Searched
  <2>4. m - 1 \in Classes /\ m - 1 \in 0 .. Top + 1 /\ m - 1 \notin Wrong
    BY <1>3, <2>1, <2>2, <2>3 DEF Classes
  <2>5. search[m - 1 - 1] \in Finds(z, need)
    BY <2>4
  <2>6. search[m - 1] \in Finds(z, need)
    BY <1>5, <2>2, <2>3, <2>4, <2>5 DEF Searched
  <2> QED
    BY <2>1, <2>6
<1>7. CASE Wrong = {}
  <2>1. Top + 1 \in 0 .. Top + 1 /\ Top + 1 - 1 = Top
    BY <1>3
  <2> QED
    BY <1>2, <1>7, <2>1
<1> QED
  BY <1>6, <1>7

LEMMA SplitBlockType ==
    ASSUME NEW z \in Zones, NEW b \in Nat, NEW need \in Nat
    PROVE  SplitBlock(z, b, need) \in Rewrites(z)
<1> DEFINE remain == Size(z, b) - need
           tail == b + need
           removed == FreelistRemove(z, b)
           made == FreeHeader(removed, tail, remain, need)
           tailed == TellNext(made, tail)
           sized == SetSize(tailed, b, need)
           taken == SetFlags(sized, b, {})
<1>1. remain \in Int /\ {} \in SUBSET FlagNames
  BY Reads
<1>2. removed \in Rewrites(z) /\ removed \in Zones
  BY FreelistRemoveType, RewritesCompose
<1> HIDE DEF removed, remain, tail
<1>3. SetFlags(removed, b, {}) \in Rewrites(z) /\ z \in Rewrites(z)
  BY <1>1, <1>2, SetType, RewritesCompose
<1>4. CASE remain >= MinBlockSize
  <2>1. remain \in Nat
    BY <1>1, <1>4 DEF MinBlockSize
  <2>2. made \in Rewrites(z) /\ made \in Zones
    BY <1>2, <2>1, FreeHeaderType, RewritesCompose
  <2> HIDE DEF made
  <2>3. tailed \in Rewrites(z) /\ tailed \in Zones
    BY <2>2, TellNextType, RewritesCompose
  <2> HIDE DEF tailed
  <2>4. sized \in Rewrites(z) /\ sized \in Zones
    BY <2>3, SetType, RewritesCompose
  <2> HIDE DEF sized
  <2>5. taken \in Rewrites(z) /\ taken \in Zones
    BY <1>1, <2>4, SetType, RewritesCompose
  <2> HIDE DEF taken
  <2>6. FreelistInsert(taken, tail) \in Rewrites(z)
    BY <2>5, FreelistInsertType, RewritesCompose
  <2> QED
    BY <1>3, <1>4, <2>6 DEF SplitBlock, taken, sized, tailed, made, removed, remain, tail
<1>5. CASE ~(remain >= MinBlockSize)
  BY <1>3, <1>5 DEF SplitBlock, removed, remain
<1> QED
  BY <1>4, <1>5

-----------------------------------------------------------------------------
(* Which words a write changes.                                             *)

\* PutLo changes the low word of one cell.
LEMMA PutLoCells ==
    ASSUME NEW z \in Zones, NEW a, NEW w
    PROVE  /\ \A x : x # a => Cell(PutLo(z, a, w), x) = Cell(z, x)
           /\ a \in Addr => Cell(PutLo(z, a, w), a).lo = w
           /\ Cell(PutLo(z, a, w), a).hi = Cell(z, a).hi
           /\ PutLo(z, a, w).freelists = z.freelists
<1>1. CASE a \in Addr
  <2>1. z.mem \in [Addr -> Cells] /\ z.mem[a] \in Cells
    BY <1>1 DEF Zones
  <2> DEFINE m == [z.mem EXCEPT ![a].lo = w]
  <2>2. /\ \A x \in Addr : x # a => m[x] = z.mem[x]
        /\ m[a].lo = w /\ m[a].hi = z.mem[a].hi
    BY <1>1, <2>1 DEF Cells
  <2>3. PutLo(z, a, w).mem = m /\ PutLo(z, a, w).freelists = z.freelists
    BY <1>1 DEF PutLo, Zones
  <2> HIDE DEF m
  <2> QED
    BY <1>1, <2>2, <2>3 DEF Cell
<1>2. CASE a \notin Addr
  BY <1>2 DEF PutLo, Cell
<1> QED
  BY <1>1, <1>2

\* PutHi changes the high word of one cell.
LEMMA PutHiCells ==
    ASSUME NEW z \in Zones, NEW a, NEW w
    PROVE  /\ \A x : x # a => Cell(PutHi(z, a, w), x) = Cell(z, x)
           /\ a \in Addr => Cell(PutHi(z, a, w), a).hi = w
           /\ Cell(PutHi(z, a, w), a).lo = Cell(z, a).lo
           /\ PutHi(z, a, w).freelists = z.freelists
<1>1. CASE a \in Addr
  <2>1. z.mem \in [Addr -> Cells] /\ z.mem[a] \in Cells
    BY <1>1 DEF Zones
  <2> DEFINE m == [z.mem EXCEPT ![a].hi = w]
  <2>2. /\ \A x \in Addr : x # a => m[x] = z.mem[x]
        /\ m[a].hi = w /\ m[a].lo = z.mem[a].lo
    BY <1>1, <2>1 DEF Cells
  <2>3. PutHi(z, a, w).mem = m /\ PutHi(z, a, w).freelists = z.freelists
    BY <1>1 DEF PutHi, Zones
  <2> HIDE DEF m
  <2> QED
    BY <1>1, <2>2, <2>3 DEF Cell
<1>2. CASE a \notin Addr
  BY <1>2 DEF PutHi, Cell
<1> QED
  BY <1>1, <1>2

\* Places for blocks: three cells each, and none in those of another.
Spaced(S) ==
    /\ S \subseteq Nat
    /\ \A d \in S : d + 2 < ZoneSize
    /\ \A d, e \in S : d < e => d + 3 <= e

\* The first three cells of spaced blocks are in the zone, and are all different.
LEMMA SpacedCells ==
    ASSUME NEW S, Spaced(S), NEW d \in S
    PROVE  /\ d \in Addr /\ d + 1 \in Addr /\ d + 2 \in Addr /\ d \in Nat
           /\ IsValidFreenode(d)
           /\ \A e \in S : e # d => \A i, j \in 0 .. 2 : d + i # e + j
<1>1. d \in Nat /\ d + 2 < ZoneSize /\ ZoneSize \in Nat
  BY ZoneAssumption DEF Spaced
<1>2. d \in Addr /\ d + 1 \in Addr /\ d + 2 \in Addr /\ IsValidFreenode(d)
  BY <1>1 DEF Addr, IsValidFreenode, MinBlockSize
<1>3. ASSUME NEW e \in S, e # d PROVE \A i, j \in 0 .. 2 : d + i # e + j
  <2>1. e \in Nat /\ (d + 3 <= e \/ e + 3 <= d)
    BY <1>1, <1>3 DEF Spaced
  <2> QED
    BY <1>1, <2>1
<1> QED
  BY <1>1, <1>2, <1>3

\* Nothing is written but the links of nodes of S.
LinkCells(S) == {d + 2 : d \in S}
Relinks(z, y, S) ==
    /\ y \in Rewrites(z)
    /\ \A a : a \notin LinkCells(S) => Cell(y, a) = Cell(z, a)

\* Relinking twice is relinking.
LEMMA RelinksCompose ==
    ASSUME NEW z \in Zones, NEW S
    PROVE  /\ Relinks(z, z, S)
           /\ \A x, y : Relinks(z, x, S) /\ Relinks(x, y, S) => Relinks(z, y, S)
           /\ \A x : Relinks(z, x, S) => x \in Zones
BY DEF Relinks, Rewrites

\* So the headers stay.
LEMMA RelinksHeaders ==
    ASSUME NEW z \in Zones, NEW S, Spaced(S), NEW y, Relinks(z, y, S), NEW d \in S
    PROVE  /\ Size(y, d) = Size(z, d) /\ Flags(y, d) = Flags(z, d)
           /\ LockCount(y, d) = LockCount(z, d)
           /\ PrevSize(y, d) = PrevSize(z, d) /\ MasterPtr(y, d) = MasterPtr(z, d)
<1>1. ASSUME NEW e \in S PROVE d # e + 2 /\ d + 1 # e + 2
  BY SpacedCells, <1>1
<1>2. Cell(y, d) = Cell(z, d) /\ Cell(y, d + 1) = Cell(z, d + 1)
  BY <1>1 DEF Relinks, LinkCells
<1> QED
  BY <1>2 DEF Size, Flags, LockCount, PrevSize, MasterPtr

\* A node pointer is read as it was written.
LEMMA NodeWords ==
    ASSUME NEW n \in Addr \cup {Null}
    PROVE  AsNode(NodeWord(n)) = n
BY ConstantsType DEF AsNode, NodeWord, IsZero, Zero, Addr, Null

\* SetNext changes the next of one block.
LEMMA SetNextReads ==
    ASSUME NEW z \in Zones, NEW S, Spaced(S), NEW b \in S, NEW n \in Addr \cup {Null}
    PROVE  LET y == SetNext(z, b, n) IN
           /\ Relinks(z, y, S) /\ y \in Zones /\ y.freelists = z.freelists
           /\ \A d \in S : /\ NextNode(y, d) = IF d = b THEN n ELSE NextNode(z, d)
                           /\ PrevNode(y, d) = PrevNode(z, d)
<1> DEFINE y == SetNext(z, b, n)
<1>1. y = PutLo(z, b + 2, NodeWord(n)) /\ b \in Addr /\ b + 2 \in Addr
  BY SpacedCells DEF SetNext, HeaderSize
<1>2. y \in Rewrites(z) /\ y \in Zones
  BY SetType, RewritesCompose
<1>3. /\ \A x : x # b + 2 => Cell(y, x) = Cell(z, x)
      /\ Cell(y, b + 2).lo = NodeWord(n) /\ Cell(y, b + 2).hi = Cell(z, b + 2).hi
      /\ y.freelists = z.freelists
  BY <1>1, PutLoCells
<1> HIDE DEF y
<1>4. ASSUME NEW d \in S
      PROVE  d \in Addr /\ (d # b => d + 2 # b + 2)
  BY SpacedCells DEF Addr
<1>5. \A d \in S : NextNode(y, d) = IF d = b THEN n ELSE NextNode(z, d)
  BY <1>3, <1>4, NodeWords DEF NextNode, HeaderSize
<1>6. \A d \in S : PrevNode(y, d) = PrevNode(z, d)
  BY <1>3, <1>4 DEF PrevNode, HeaderSize
<1>7. Relinks(z, y, S)
  BY <1>2, <1>3 DEF Relinks, LinkCells
<1> QED
  BY <1>2, <1>3, <1>5, <1>6, <1>7 DEF y

\* SetPrev changes the prev of one block.
LEMMA SetPrevReads ==
    ASSUME NEW z \in Zones, NEW S, Spaced(S), NEW b \in S, NEW n \in Addr \cup {Null}
    PROVE  LET y == SetPrev(z, b, n) IN
           /\ Relinks(z, y, S) /\ y \in Zones /\ y.freelists = z.freelists
           /\ \A d \in S : /\ PrevNode(y, d) = IF d = b THEN n ELSE PrevNode(z, d)
                           /\ NextNode(y, d) = NextNode(z, d)
<1> DEFINE y == SetPrev(z, b, n)
<1>1. y = PutHi(z, b + 2, NodeWord(n)) /\ b \in Addr /\ b + 2 \in Addr
  BY SpacedCells DEF SetPrev, HeaderSize
<1>2. y \in Rewrites(z) /\ y \in Zones
  BY SetType, RewritesCompose
<1>3. /\ \A x : x # b + 2 => Cell(y, x) = Cell(z, x)
      /\ Cell(y, b + 2).hi = NodeWord(n) /\ Cell(y, b + 2).lo = Cell(z, b + 2).lo
      /\ y.freelists = z.freelists
  BY <1>1, PutHiCells
<1> HIDE DEF y
<1>4. ASSUME NEW d \in S
      PROVE  d \in Addr /\ (d # b => d + 2 # b + 2)
  BY SpacedCells DEF Addr
<1>5. \A d \in S : PrevNode(y, d) = IF d = b THEN n ELSE PrevNode(z, d)
  BY <1>3, <1>4, NodeWords DEF PrevNode, HeaderSize
<1>6. \A d \in S : NextNode(y, d) = NextNode(z, d)
  BY <1>3, <1>4 DEF NextNode, HeaderSize
<1>7. Relinks(z, y, S)
  BY <1>2, <1>3 DEF Relinks, LinkCells
<1> QED
  BY <1>2, <1>3, <1>5, <1>6, <1>7 DEF y

\* SetLinks changes both links of one block.
LEMMA SetLinksReads ==
    ASSUME NEW z \in Zones, NEW S, Spaced(S), NEW b \in S,
           NEW n \in Addr \cup {Null}, NEW p \in Addr \cup {Null}
    PROVE  LET y == SetLinks(z, b, n, p) IN
           /\ Relinks(z, y, S) /\ y \in Zones /\ y.freelists = z.freelists
           /\ \A d \in S : /\ NextNode(y, d) = IF d = b THEN n ELSE NextNode(z, d)
                           /\ PrevNode(y, d) = IF d = b THEN p ELSE PrevNode(z, d)
<1> DEFINE x == SetNext(z, b, n)
           y == SetPrev(x, b, p)
<1>1. /\ Relinks(z, x, S) /\ x \in Zones /\ x.freelists = z.freelists
      /\ \A d \in S : /\ NextNode(x, d) = IF d = b THEN n ELSE NextNode(z, d)
                      /\ PrevNode(x, d) = PrevNode(z, d)
  BY SetNextReads
<1> HIDE DEF x
<1>2. /\ Relinks(x, y, S) /\ y \in Zones /\ y.freelists = x.freelists
      /\ \A d \in S : /\ PrevNode(y, d) = IF d = b THEN p ELSE PrevNode(x, d)
                      /\ NextNode(y, d) = NextNode(x, d)
  BY <1>1, SetPrevReads
<1> HIDE DEF y
<1>3. Relinks(z, y, S)
  BY <1>1, <1>2, RelinksCompose
<1>4. y = SetLinks(z, b, n, p)
  BY DEF y, x, SetLinks
<1> QED
  BY <1>1, <1>2, <1>3, <1>4

\* A change of a list's head is none of memory.
SetHead(z, c, n) == [z EXCEPT !.freelists[c] = n]
\* A new list head changes no link.
LEMMA HeadReads ==
    ASSUME NEW z \in Zones, NEW c, NEW n \in Addr \cup {Null, Wild}
    PROVE  LET y == SetHead(z, c, n) IN
           /\ y \in Zones /\ \A S : Relinks(z, y, S)
           /\ \A d : NextNode(y, d) = NextNode(z, d) /\ PrevNode(y, d) = PrevNode(z, d)
           /\ \A x \in Classes : y.freelists[x] = IF x = c THEN n ELSE z.freelists[x]
<1> DEFINE y == SetHead(z, c, n)
<1>1. y \in Rewrites(z) /\ y \in Zones
  BY ListsType, RewritesCompose DEF SetHead
<1>2. y.mem = z.mem /\ \A x \in Classes : y.freelists[x] = IF x = c THEN n ELSE z.freelists[x]
  BY DEF Zones, SetHead
<1> HIDE DEF y
<1>3. \A a : Cell(y, a) = Cell(z, a)
  BY <1>2 DEF Cell
<1> QED
  BY <1>1, <1>2, <1>3 DEF Relinks, NextNode, PrevNode, y

-----------------------------------------------------------------------------
(* Rings: each node's next and prev are nodes, opposite to each other, and  *)
(* whoever follows next from a node comes to all of them.                   *)

Cycle(z, R) ==
    /\ \A n \in R : /\ NextNode(z, n) \in R /\ PrevNode(z, n) \in R
                    /\ PrevNode(z, NextNode(z, n)) = n /\ NextNode(z, PrevNode(z, n)) = n
    /\ \A S \in SUBSET R : S # {} /\ (\A n \in S : NextNode(z, n) \in S) => S = R

\* A cycle whose links are not written stays one.
LEMMA CycleKept ==
    ASSUME NEW z, NEW y, NEW R, Cycle(z, R),
           \A n \in R : NextNode(y, n) = NextNode(z, n) /\ PrevNode(y, n) = PrevNode(z, n)
    PROVE  Cycle(y, R)
<1>1. ASSUME NEW S \in SUBSET R, S # {}, \A n \in S : NextNode(y, n) \in S PROVE S = R
  BY <1>1 DEF Cycle
<1> QED
  BY <1>1 DEF Cycle

\* A cycle from which a node is taken, its neighbours joined, stays one.
LEMMA CycleRemove ==
    ASSUME NEW z, NEW y, NEW R, Cycle(z, R), NEW b \in R, NextNode(z, b) # b,
           \A n \in R \ {b} :
              /\ NextNode(y, n) = IF n = PrevNode(z, b) THEN NextNode(z, b) ELSE NextNode(z, n)
              /\ PrevNode(y, n) = IF n = NextNode(z, b) THEN PrevNode(z, b) ELSE PrevNode(z, n)
    PROVE  Cycle(y, R \ {b})
<1> DEFINE next == NextNode(z, b)
           prev == PrevNode(z, b)
<1>1. next \in R \ {b} /\ prev \in R \ {b}
  BY DEF Cycle
<1>2. ASSUME NEW n \in R \ {b}
      PROVE  /\ NextNode(y, n) \in R \ {b} /\ PrevNode(y, n) \in R \ {b}
             /\ PrevNode(y, NextNode(y, n)) = n /\ NextNode(y, PrevNode(y, n)) = n
  <2>1. /\ NextNode(z, n) \in R /\ PrevNode(z, n) \in R
        /\ PrevNode(z, NextNode(z, n)) = n /\ NextNode(z, PrevNode(z, n)) = n
        /\ NextNode(z, prev) = b /\ PrevNode(z, next) = b
    BY DEF Cycle
  <2> QED
    BY <1>1, <2>1
<1>3. ASSUME NEW S \in SUBSET (R \ {b}), S # {}, \A n \in S : NextNode(y, n) \in S
      PROVE  S = R \ {b}
  <2>1. CASE prev \in S
    <3>1. NextNode(y, prev) = next
      BY <1>1
    <3>2. next \in S
      BY <1>3, <2>1, <3>1
    <3>3. ASSUME NEW n \in S \cup {b} PROVE NextNode(z, n) \in S \cup {b}
      <4>1. CASE n = b
        BY <3>2, <4>1
      <4>2. CASE n = prev
        BY <4>2 DEF Cycle
      <4>3. CASE n # b /\ n # prev
        <5>1. n \in R \ {b} /\ n \in S
          BY <4>3
        <5>2. NextNode(y, n) = NextNode(z, n) /\ NextNode(y, n) \in S
          BY <1>3, <4>3, <5>1
        <5> QED
          BY <5>2
      <4> QED
        BY <4>1, <4>2, <4>3
    <3>4. S \cup {b} \in SUBSET R /\ S \cup {b} # {}
      OBVIOUS
    <3>5. S \cup {b} = R
      BY <3>3, <3>4 DEF Cycle
    <3> QED
      BY <3>5
  <2>2. CASE prev \notin S
    <3>1. \A n \in S : NextNode(z, n) \in S
      BY <1>3, <2>2
    <3>2. S = R
      BY <1>3, <3>1 DEF Cycle
    <3> QED
      BY <3>2
  <2> QED
    BY <2>1, <2>2
<1> QED
  BY <1>2, <1>3 DEF Cycle

\* A cycle to which a node is added in front of head stays one.
LEMMA CycleInsert ==
    ASSUME NEW z, NEW y, NEW R, Cycle(z, R), NEW head \in R, NEW b, b \notin R,
           \A n \in R \cup {b} :
              /\ NextNode(y, n) = IF n = b THEN head
                                  ELSE IF n = PrevNode(z, head) THEN b ELSE NextNode(z, n)
              /\ PrevNode(y, n) = IF n = b THEN PrevNode(z, head)
                                  ELSE IF n = head THEN b ELSE PrevNode(z, n)
    PROVE  Cycle(y, R \cup {b})
<1> DEFINE prev == PrevNode(z, head)
<1>1. prev \in R /\ NextNode(z, prev) = head
  BY DEF Cycle
<1>2. ASSUME NEW n \in R \cup {b}
      PROVE  /\ NextNode(y, n) \in R \cup {b} /\ PrevNode(y, n) \in R \cup {b}
             /\ PrevNode(y, NextNode(y, n)) = n /\ NextNode(y, PrevNode(y, n)) = n
  <2>1. n # b => /\ NextNode(z, n) \in R /\ PrevNode(z, n) \in R
                 /\ PrevNode(z, NextNode(z, n)) = n /\ NextNode(z, PrevNode(z, n)) = n
    BY DEF Cycle
  <2> QED
    BY <1>1, <2>1
<1>3. ASSUME NEW S \in SUBSET (R \cup {b}), S # {}, \A n \in S : NextNode(y, n) \in S
      PROVE  S = R \cup {b}
  <2>1. CASE b \in S
    <3>1. head \in S /\ head # b
      BY <1>3, <2>1
    <3>2. ASSUME NEW n \in S \ {b} PROVE NextNode(z, n) \in S \ {b}
      <4>1. n \in R /\ NextNode(z, n) \in R /\ NextNode(y, n) \in S
        BY <1>3 DEF Cycle
      <4> QED
        BY <1>1, <3>1, <4>1
    <3>3. S \ {b} = R
      BY <3>1, <3>2 DEF Cycle
    <3> QED
      BY <2>1, <3>3
  <2>2. CASE b \notin S
    <3>1. prev \notin S
      BY <1>1, <1>3, <2>2
    <3>2. \A n \in S : NextNode(z, n) \in S
      BY <1>3, <2>2, <3>1
    <3>3. S = R
      BY <1>3, <2>2, <3>2 DEF Cycle
    <3> QED
      BY <1>1, <3>1, <3>3
  <2> QED
    BY <2>1, <2>2
<1> QED
  BY <1>2, <1>3 DEF Cycle

\* A node that is its own successor is alone.
LEMMA CycleAlone ==
    ASSUME NEW z, NEW R, Cycle(z, R), NEW b \in R, NextNode(z, b) = b
    PROVE  R = {b}
<1>1. {b} \in SUBSET R /\ \A n \in {b} : NextNode(z, n) \in {b}
  OBVIOUS
<1> QED
  BY <1>1 DEF Cycle

\* A node linked to itself is a cycle.
LEMMA CycleOne ==
    ASSUME NEW z, NEW b, NextNode(z, b) = b, PrevNode(z, b) = b
    PROVE  Cycle(z, {b})
BY DEF Cycle

-----------------------------------------------------------------------------
(* Lists: the nodes of each class are a ring, which its head is on.         *)

ClassOf(z, F, c) == {d \in F : SizeClass(Size(z, d)) = c}
Lists(z, F) == \A c \in Classes :
    /\ Cycle(z, ClassOf(z, F, c))
    /\ IF ClassOf(z, F, c) = {} THEN z.freelists[c] = Null
                                ELSE z.freelists[c] \in ClassOf(z, F, c)

\* Every size has a class.
LEMMA ClassIs ==
    ASSUME NEW n
    PROVE  SizeClass(n) \in Classes
BY SizeClassType DEF Classes

\* freelist_remove takes a listed block off its list, and that is all it does.
LEMMA RemoveSound ==
    ASSUME NEW z \in Zones, NEW F, Spaced(F), Lists(z, F), NEW b \in F
    PROVE  LET y == FreelistRemove(z, b) IN Relinks(z, y, F) /\ Lists(y, F \ {b})
<1> DEFINE y == FreelistRemove(z, b)
           c == SizeClass(Size(z, b))
           R == ClassOf(z, F, c)
           next == NextNode(z, b)
           prev == PrevNode(z, b)
           head == z.freelists[c]
           newHead == IF head = b THEN next ELSE head
<1>1. c \in Classes /\ b \in R /\ R \subseteq F /\ F \subseteq Addr
  BY ClassIs, SpacedCells DEF ClassOf
<1>2. /\ Cycle(z, R) /\ head \in R /\ next \in R /\ prev \in R
      /\ next # Null /\ prev # Null
  <2>1. Cycle(z, R) /\ head \in R
    BY <1>1 DEF Lists
  <2>2. next \in R /\ prev \in R
    BY <1>1, <2>1 DEF Cycle
  <2> QED
    BY <1>1, <2>1, <2>2, ConstantsType
\* What is enough to have read of y.
<1>3. SUFFICES ASSUME NEW w, Relinks(z, w, F),
                      \A x \in Classes \ {c} : w.freelists[x] = z.freelists[x],
                      \A d \in F \ R : /\ NextNode(w, d) = NextNode(z, d)
                                       /\ PrevNode(w, d) = PrevNode(z, d),
                      Cycle(w, R \ {b}),
                      IF R \ {b} = {} THEN w.freelists[c] = Null
                                      ELSE w.freelists[c] \in R \ {b}
               PROVE  Lists(w, F \ {b})
  <2>1. CASE next = b
    <3> DEFINE x1 == SetHead(z, c, Null)
               w == SetLinks(x1, b, Null, Null)
    <3>1. y = w
      BY <1>2, <2>1 DEF FreelistRemove, SetHead
    <3>2. /\ Relinks(z, x1, F) /\ x1 \in Zones
          /\ \A d : NextNode(x1, d) = NextNode(z, d) /\ PrevNode(x1, d) = PrevNode(z, d)
          /\ \A k \in Classes : x1.freelists[k] = IF k = c THEN Null ELSE z.freelists[k]
      BY HeadReads
    <3> HIDE DEF x1
    <3>3. /\ Relinks(x1, w, F) /\ w.freelists = x1.freelists
          /\ \A d \in F : /\ NextNode(w, d) = IF d = b THEN Null ELSE NextNode(x1, d)
                          /\ PrevNode(w, d) = IF d = b THEN Null ELSE PrevNode(x1, d)
      BY <3>2, SetLinksReads
    <3> HIDE DEF w
    <3>4. Relinks(z, w, F)
      BY <3>2, <3>3, RelinksCompose
    <3>5. R = {b}
      BY <1>1, <1>2, <2>1, CycleAlone
    <3>6. Cycle(w, R \ {b})
      BY <3>5 DEF Cycle
    <3>7. Lists(w, F \ {b})
      <4>1. \A k \in Classes \ {c} : w.freelists[k] = z.freelists[k]
        BY <3>2, <3>3
      <4>2. \A d \in F \ R : NextNode(w, d) = NextNode(z, d) /\ PrevNode(w, d) = PrevNode(z, d)
        BY <1>1, <3>2, <3>3
      <4>3. R \ {b} = {} /\ w.freelists[c] = Null
        BY <1>1, <3>2, <3>3, <3>5
      <4> QED
        BY <1>3, <3>4, <3>6, <4>1, <4>2, <4>3
    <3> QED
      BY <3>1, <3>4, <3>7
  <2>2. CASE next # b
    <3> DEFINE x1 == SetHead(z, c, newHead)
               x2 == SetNext(x1, prev, next)
               x3 == SetPrev(x2, next, prev)
               w == SetLinks(x3, b, Null, Null)
    <3>0. newHead \in R \ {b} /\ newHead \in Addr /\ next \in Addr /\ prev \in Addr /\ prev # b
          /\ next \in F /\ prev \in F /\ b \in F
      BY <1>1, <1>2, <2>2 DEF Cycle
    <3>1. y = w
      BY <1>2, <2>2 DEF FreelistRemove, SetHead
    <3>2. /\ Relinks(z, x1, F) /\ x1 \in Zones
          /\ \A d : NextNode(x1, d) = NextNode(z, d) /\ PrevNode(x1, d) = PrevNode(z, d)
          /\ \A k \in Classes : x1.freelists[k] = IF k = c THEN newHead ELSE z.freelists[k]
      BY <3>0, HeadReads
    <3> HIDE DEF x1, newHead
    <3>3. /\ Relinks(x1, x2, F) /\ x2 \in Zones /\ x2.freelists = x1.freelists
          /\ \A d \in F : /\ NextNode(x2, d) = IF d = prev THEN next ELSE NextNode(x1, d)
                          /\ PrevNode(x2, d) = PrevNode(x1, d)
      BY <3>0, <3>2, SetNextReads
    <3> HIDE DEF x2
    <3>4. /\ Relinks(x2, x3, F) /\ x3 \in Zones /\ x3.freelists = x2.freelists
          /\ \A d \in F : /\ PrevNode(x3, d) = IF d = next THEN prev ELSE PrevNode(x2, d)
                          /\ NextNode(x3, d) = NextNode(x2, d)
      BY <3>0, <3>3, SetPrevReads
    <3> HIDE DEF x3
    <3>5. /\ Relinks(x3, w, F) /\ w.freelists = x3.freelists
          /\ \A d \in F : /\ NextNode(w, d) = IF d = b THEN Null ELSE NextNode(x3, d)
                          /\ PrevNode(w, d) = IF d = b THEN Null ELSE PrevNode(x3, d)
      BY <3>4, SetLinksReads
    <3> HIDE DEF w
    <3>6. Relinks(z, w, F)
      BY <3>2, <3>3, <3>4, <3>5, RelinksCompose
    <3>7. \A d \in F \ {b} :
             /\ NextNode(w, d) = IF d = prev THEN next ELSE NextNode(z, d)
             /\ PrevNode(w, d) = IF d = next THEN prev ELSE PrevNode(z, d)
      BY <3>2, <3>3, <3>4, <3>5
    <3>8. Cycle(w, R \ {b})
      BY <1>1, <1>2, <2>2, <3>7, CycleRemove
    <3>9. Lists(w, F \ {b})
      <4>1. \A k \in Classes \ {c} : w.freelists[k] = z.freelists[k]
        BY <3>2, <3>3, <3>4, <3>5
      <4>2. \A d \in F \ R : NextNode(w, d) = NextNode(z, d) /\ PrevNode(w, d) = PrevNode(z, d)
        BY <1>1, <1>2, <3>7
      <4>3. w.freelists[c] \in R \ {b}
        BY <1>1, <3>0, <3>2, <3>3, <3>4, <3>5
      <4> QED
        BY <1>3, <3>6, <3>8, <4>1, <4>2, <4>3
    <3> QED
      BY <3>1, <3>6, <3>9
  <2> QED
    BY <2>1, <2>2
<1>4. \A d \in F : Size(w, d) = Size(z, d)
  BY <1>3, RelinksHeaders
<1>5. ClassOf(w, F \ {b}, c) = R \ {b}
  BY <1>4 DEF ClassOf
<1>6. ASSUME NEW x \in Classes \ {c}
      PROVE  /\ Cycle(w, ClassOf(w, F \ {b}, x))
             /\ IF ClassOf(w, F \ {b}, x) = {} THEN w.freelists[x] = Null
                ELSE w.freelists[x] \in ClassOf(w, F \ {b}, x)
  <2> DEFINE Q == ClassOf(z, F, x)
  <2>1. ClassOf(w, F \ {b}, x) = Q /\ Q \subseteq F \ R
    BY <1>4 DEF ClassOf
  <2>2. Cycle(z, Q) /\ IF Q = {} THEN z.freelists[x] = Null ELSE z.freelists[x] \in Q
    BY DEF Lists
  <2>3. Cycle(w, Q) /\ IF Q = {} THEN w.freelists[x] = Null ELSE w.freelists[x] \in Q
    <3>1. \A n \in Q : NextNode(w, n) = NextNode(z, n) /\ PrevNode(w, n) = PrevNode(z, n)
      BY <1>3, <2>1
    <3>2. w.freelists[x] = z.freelists[x]
      BY <1>3
    <3> HIDE DEF Q
    <3> QED
      BY <2>2, <3>1, <3>2, CycleKept
  <2> QED
    BY <2>1, <2>3
<1> QED
  BY <1>3, <1>5, <1>6 DEF Lists

\* The flags of a block are the other half of the cell of its size.
LEMMA SetFlagsCells ==
    ASSUME NEW z \in Zones, NEW b \in Addr, NEW fs \in SUBSET FlagNames
    PROVE  LET y == SetFlags(z, b, fs) IN
           /\ y \in Rewrites(z) /\ y \in Zones /\ y.freelists = z.freelists
           /\ \A a : a # b => Cell(y, a) = Cell(z, a)
           /\ Size(y, b) = Size(z, b) /\ Flags(y, b) = fs /\ LockCount(y, b) = LockCount(z, b)
<1> DEFINE w == <<"flags", fs, LockCount(z, b)>>
           y == PutHi(z, b, w)
<1>1. y = SetFlags(z, b, fs)
  BY DEF SetFlags
<1>2. y \in Rewrites(z) /\ y \in Zones
  BY <1>1, SetType, RewritesCompose
<1>3. /\ \A x : x # b => Cell(y, x) = Cell(z, x)
      /\ Cell(y, b).hi = w /\ Cell(y, b).lo = Cell(z, b).lo
      /\ y.freelists = z.freelists
  BY PutHiCells
<1> HIDE DEF y
<1>4. Size(y, b) = Size(z, b) /\ Flags(y, b) = fs /\ LockCount(y, b) = LockCount(z, b)
  BY <1>3 DEF Size, Flags, LockCount, AsFlags, AsLockCount
<1> QED
  BY <1>1, <1>2, <1>3, <1>4

\* FreelistInsert, step by step.
LEMMA InsertIs ==
    ASSUME NEW z, NEW b \in Addr, ~(Size(z, b) < MinBlockSize),
           NEW head, head = z.freelists[SizeClass(Size(z, b))],
           NEW cleared, cleared = SetLinks(SetFlags(z, b, {"FREE"}), b, Null, Null),
           NEW x1, x1 = SetNext(cleared, b, head),
           NEW x2, x2 = SetPrev(x1, b, PrevNode(x1, head)),
           NEW x3, x3 = SetHead(x2, SizeClass(Size(z, b)), b),
           NEW x4, x4 = SetNext(x3, PrevNode(x3, head), b)
    PROVE  FreelistInsert(z, b) =
             IF head = Null \/ ~IsValidFreenode(head)
             THEN SetLinks(SetHead(cleared, SizeClass(Size(z, b)), b), b, b, b)
             ELSE SetPrev(x4, head, b)
BY Zenon DEF FreelistInsert, SetHead

\* freelist_insert puts a block that is not listed on the list of its class.
LEMMA InsertSound ==
    ASSUME NEW z \in Zones, NEW F, NEW b, b \notin F, Spaced(F \cup {b}), Lists(z, F),
           Size(z, b) >= MinBlockSize
    PROVE  LET y == FreelistInsert(z, b) IN
           /\ y \in Rewrites(z) /\ Lists(y, F \cup {b})
           /\ \A a : a \notin LinkCells(F \cup {b}) \cup {b} => Cell(y, a) = Cell(z, a)
           /\ Size(y, b) = Size(z, b) /\ Flags(y, b) = {"FREE"}
           /\ LockCount(y, b) = LockCount(z, b)
<1> DEFINE G == F \cup {b}
           y == FreelistInsert(z, b)
           c == SizeClass(Size(z, b))
           R == ClassOf(z, F, c)
           head == z.freelists[c]
           flagged == SetFlags(z, b, {"FREE"})
           cleared == SetLinks(flagged, b, Null, Null)
<1>1. c \in Classes /\ R \subseteq F /\ F \subseteq Addr /\ b \in Addr /\ b \in G
  BY ClassIs, SpacedCells DEF ClassOf
<1>2. Cycle(z, R) /\ IF R = {} THEN head = Null ELSE head \in R
  BY <1>1 DEF Lists
<1>3. /\ flagged \in Rewrites(z) /\ flagged \in Zones /\ flagged.freelists = z.freelists
      /\ \A a : a # b => Cell(flagged, a) = Cell(z, a)
      /\ Size(flagged, b) = Size(z, b) /\ Flags(flagged, b) = {"FREE"}
      /\ LockCount(flagged, b) = LockCount(z, b)
  BY <1>1, SetFlagsCells DEF FlagNames
<1> HIDE DEF flagged
<1>4. \A d \in G : /\ NextNode(flagged, d) = NextNode(z, d)
                   /\ PrevNode(flagged, d) = PrevNode(z, d)
                   /\ Size(flagged, d) = Size(z, d)
  <2>1. ASSUME NEW d \in G PROVE d + 2 # b /\ (d # b => Cell(flagged, d) = Cell(z, d))
    <3>1. CASE d = b
      BY <3>1, <1>1 DEF Addr
    <3>2. CASE d # b
      <4>1. \A i, j \in 0 .. 2 : d + i # b + j
        BY <3>2, SpacedCells
      <4>2. b + 0 = b
        BY <1>1 DEF Addr
      <4>3. d + 2 # b + 0
        BY <4>1
      <4> QED
        BY <1>3, <3>2, <4>2, <4>3
    <3> QED
      BY <3>1, <3>2
  <2> QED
    BY <1>3, <2>1 DEF NextNode, PrevNode, Size, HeaderSize
<1>5. /\ Relinks(flagged, cleared, G) /\ cleared \in Zones /\ cleared.freelists = flagged.freelists
      /\ \A d \in G : /\ NextNode(cleared, d) = IF d = b THEN Null ELSE NextNode(flagged, d)
                      /\ PrevNode(cleared, d) = IF d = b THEN Null ELSE PrevNode(flagged, d)
  BY <1>1, <1>3, SetLinksReads
<1> HIDE DEF cleared
\* What is enough to have read of y.
<1>6. SUFFICES ASSUME NEW w, Relinks(flagged, w, G),
                      \A x \in Classes \ {c} : w.freelists[x] = z.freelists[x],
                      \A d \in F \ R : /\ NextNode(w, d) = NextNode(z, d)
                                       /\ PrevNode(w, d) = PrevNode(z, d),
                      Cycle(w, R \cup {b}), w.freelists[c] \in R \cup {b}
               PROVE  Lists(w, G)
  <2>0. SUFFICES \E w : /\ y = w /\ Relinks(flagged, w, G)
                        /\ \A x \in Classes \ {c} : w.freelists[x] = z.freelists[x]
                        /\ \A d \in F \ R : /\ NextNode(w, d) = NextNode(z, d)
                                            /\ PrevNode(w, d) = PrevNode(z, d)
                        /\ Cycle(w, R \cup {b}) /\ w.freelists[c] \in R \cup {b}
    <3>1. Lists(y, G) /\ Relinks(flagged, y, G)
      BY <1>6, <2>0
    <3>2. y \in Rewrites(z)
      BY <1>3, <3>1, RewritesCompose DEF Relinks
    <3>3. \A a : a \notin LinkCells(G) \cup {b} => Cell(y, a) = Cell(z, a)
      BY <1>3, <3>1 DEF Relinks
    <3>4. Size(y, b) = Size(z, b) /\ Flags(y, b) = {"FREE"} /\ LockCount(y, b) = LockCount(z, b)
      BY <1>1, <1>3, <3>1, RelinksHeaders
    <3> QED
      BY <3>1, <3>2, <3>3, <3>4
  <2>1. CASE R = {}
    <3> DEFINE x1 == SetHead(cleared, c, b)
               w == SetLinks(x1, b, b, b)
    <3>1. y = w
      <4>1. ~(Size(z, b) < MinBlockSize)
        BY Reads DEF MinBlockSize
      <4> HIDE DEF head
      <4>2. head = Null /\ head = z.freelists[c]
        BY <1>2, <2>1 DEF head
      <4>3. cleared = SetLinks(SetFlags(z, b, {"FREE"}), b, Null, Null)
        BY DEF cleared, flagged
      <4> QED
        BY <1>1, <4>1, <4>2, <4>3, InsertIs
    <3>2. /\ x1 \in Zones /\ Relinks(cleared, x1, G)
          /\ \A d : NextNode(x1, d) = NextNode(cleared, d) /\ PrevNode(x1, d) = PrevNode(cleared, d)
          /\ \A k \in Classes : x1.freelists[k] = IF k = c THEN b ELSE cleared.freelists[k]
      BY <1>1, <1>5, HeadReads
    <3> HIDE DEF x1
    <3>3. /\ Relinks(x1, w, G) /\ w.freelists = x1.freelists
          /\ \A d \in G : /\ NextNode(w, d) = IF d = b THEN b ELSE NextNode(x1, d)
                          /\ PrevNode(w, d) = IF d = b THEN b ELSE PrevNode(x1, d)
      BY <1>1, <3>2, SetLinksReads
    <3> HIDE DEF w
    <3>4. Relinks(flagged, w, G)
      BY <1>3, <1>5, <3>2, <3>3, RelinksCompose
    <3>5. R \cup {b} = {b} /\ Cycle(w, {b})
      BY <1>1, <2>1, <3>3, CycleOne
    <3>6. \A k \in Classes \ {c} : w.freelists[k] = z.freelists[k]
      BY <1>3, <1>5, <3>2, <3>3
    <3>7. \A d \in F \ R : NextNode(w, d) = NextNode(z, d) /\ PrevNode(w, d) = PrevNode(z, d)
      BY <1>4, <1>5, <3>2, <3>3
    <3>8. w.freelists[c] \in R \cup {b}
      BY <1>1, <3>2, <3>3
    <3> QED
      BY <3>1, <3>4, <3>5, <3>6, <3>7, <3>8
  <2>2. CASE R # {}
    <3> DEFINE p == PrevNode(z, head)
               x1 == SetNext(cleared, b, head)
               x2 == SetPrev(x1, b, p)
               x3 == SetHead(x2, c, b)
               x4 == SetNext(x3, p, b)
               w == SetPrev(x4, head, b)
    <3>0. /\ head \in R /\ p \in R /\ head \in Addr /\ p \in Addr /\ head # b /\ p # b
          /\ head \in G /\ p \in G /\ head \in F
      BY <1>1, <1>2, <2>2 DEF Cycle
    <3>1. head # Null /\ IsValidFreenode(head)
      BY <3>0, SpacedCells, ConstantsType
    <3>2. /\ Relinks(cleared, x1, G) /\ x1 \in Zones /\ x1.freelists = cleared.freelists
          /\ \A d \in G : /\ NextNode(x1, d) = IF d = b THEN head ELSE NextNode(cleared, d)
                          /\ PrevNode(x1, d) = PrevNode(cleared, d)
      BY <1>5, <3>0, SetNextReads
    <3> HIDE DEF x1
    <3>3. PrevNode(x1, head) = p
      BY <1>4, <1>5, <3>0, <3>2
    <3>4. /\ Relinks(x1, x2, G) /\ x2 \in Zones /\ x2.freelists = x1.freelists
          /\ \A d \in G : /\ PrevNode(x2, d) = IF d = b THEN p ELSE PrevNode(x1, d)
                          /\ NextNode(x2, d) = NextNode(x1, d)
      BY <3>0, <3>2, SetPrevReads
    <3> HIDE DEF x2
    <3>5. /\ x3 \in Zones /\ Relinks(x2, x3, G)
          /\ \A d : NextNode(x3, d) = NextNode(x2, d) /\ PrevNode(x3, d) = PrevNode(x2, d)
          /\ \A k \in Classes : x3.freelists[k] = IF k = c THEN b ELSE x2.freelists[k]
      BY <1>1, <3>4, HeadReads
    <3> HIDE DEF x3
    <3>6. PrevNode(x3, head) = p
      BY <3>0, <3>3, <3>4, <3>5
    <3>7. /\ Relinks(x3, x4, G) /\ x4 \in Zones /\ x4.freelists = x3.freelists
          /\ \A d \in G : /\ NextNode(x4, d) = IF d = p THEN b ELSE NextNode(x3, d)
                          /\ PrevNode(x4, d) = PrevNode(x3, d)
      <4> HIDE DEF p, head, G
      <4>1. b \in Addr \cup {Null} /\ Spaced(G)
        BY <1>1 DEF G
      <4> QED
        BY <3>0, <3>5, <4>1, SetNextReads
    <3> HIDE DEF x4
    <3>8. /\ Relinks(x4, w, G) /\ w.freelists = x4.freelists
          /\ \A d \in G : /\ PrevNode(w, d) = IF d = head THEN b ELSE PrevNode(x4, d)
                          /\ NextNode(w, d) = NextNode(x4, d)
      <4> HIDE DEF p, head, G
      <4>1. b \in Addr \cup {Null} /\ Spaced(G)
        BY <1>1 DEF G
      <4> QED
        BY <3>0, <3>7, <4>1, SetPrevReads
    <3> HIDE DEF w
    <3>9. y = w
      <4>1. ~(Size(z, b) < MinBlockSize)
        BY Reads DEF MinBlockSize
      <4>2. cleared = SetLinks(SetFlags(z, b, {"FREE"}), b, Null, Null)
        BY DEF cleared, flagged
      <4> HIDE DEF head, p
      <4>3. /\ head = z.freelists[c] /\ x1 = SetNext(cleared, b, head)
            /\ x2 = SetPrev(x1, b, PrevNode(x1, head)) /\ x3 = SetHead(x2, c, b)
            /\ x4 = SetNext(x3, PrevNode(x3, head), b)
        BY <3>3, <3>6 DEF x1, x2, x3, x4, head
      <4>4. y = SetPrev(x4, head, b)
        BY <1>1, <3>1, <4>1, <4>2, <4>3, InsertIs
      <4> QED
        BY <4>4 DEF w
    <3>10. Relinks(flagged, w, G)
      BY <1>3, <1>5, <3>2, <3>4, <3>5, <3>7, <3>8, RelinksCompose
    <3>11. \A d \in G :
             /\ NextNode(w, d) = IF d = b THEN head ELSE IF d = p THEN b ELSE NextNode(z, d)
             /\ PrevNode(w, d) = IF d = b THEN p ELSE IF d = head THEN b ELSE PrevNode(z, d)
      BY <1>4, <1>5, <3>0, <3>2, <3>4, <3>5, <3>7, <3>8
    <3>12. Cycle(w, R \cup {b})
      <4>1. b \notin R /\ R \cup {b} \subseteq G
        BY <1>1
      <4> QED
        BY <1>2, <3>0, <3>11, <4>1, CycleInsert
    <3>13. \A k \in Classes \ {c} : w.freelists[k] = z.freelists[k]
      BY <1>3, <1>5, <3>2, <3>4, <3>5, <3>7, <3>8
    <3>14. \A d \in F \ R : NextNode(w, d) = NextNode(z, d) /\ PrevNode(w, d) = PrevNode(z, d)
      BY <3>0, <3>11
    <3>15. w.freelists[c] \in R \cup {b}
      BY <1>1, <3>5, <3>7, <3>8
    <3> QED
      BY <3>9, <3>10, <3>12, <3>13, <3>14, <3>15
  <2> QED
    BY <2>1, <2>2
<1>7. \A d \in G : Size(w, d) = Size(z, d)
  BY <1>3, <1>4, <1>6, RelinksHeaders
<1>8. ClassOf(w, G, c) = R \cup {b}
  BY <1>7 DEF ClassOf
<1>9. ASSUME NEW x \in Classes \ {c}
      PROVE  /\ Cycle(w, ClassOf(w, G, x))
             /\ IF ClassOf(w, G, x) = {} THEN w.freelists[x] = Null
                ELSE w.freelists[x] \in ClassOf(w, G, x)
  <2> DEFINE Q == ClassOf(z, F, x)
  <2>1. ClassOf(w, G, x) = Q /\ Q \subseteq F \ R
    BY <1>7 DEF ClassOf
  <2>2. Cycle(z, Q) /\ IF Q = {} THEN z.freelists[x] = Null ELSE z.freelists[x] \in Q
    BY DEF Lists
  <2>3. Cycle(w, Q) /\ IF Q = {} THEN w.freelists[x] = Null ELSE w.freelists[x] \in Q
    <3>1. \A n \in Q : NextNode(w, n) = NextNode(z, n) /\ PrevNode(w, n) = PrevNode(z, n)
      BY <1>6, <2>1
    <3>2. w.freelists[x] = z.freelists[x]
      BY <1>6
    <3> HIDE DEF Q
    <3> QED
      BY <2>2, <3>1, <3>2, CycleKept
  <2> QED
    BY <2>1, <2>3
<1> QED
  BY <1>6, <1>8, <1>9 DEF Lists

-----------------------------------------------------------------------------
(* Walks.                                                                   *)

\* To follow a function from a start, a number of times, is a function of the number.
Iterates(f, S, g, x, N) ==
    f \in [0 .. N -> S] /\ f = [i \in 0 .. N |-> IF i = 0 THEN x ELSE g[f[i - 1]]]

\* A function may be iterated.
LEMMA IterationExists ==
    ASSUME NEW S, NEW g \in [S -> S], NEW x \in S, NEW N \in Nat
    PROVE  \E f : Iterates(f, S, g, x, N)
<1> DEFINE Upto(n) == \E f \in [0 .. n -> S] :
                          f = [i \in 0 .. n |-> IF i = 0 THEN x ELSE g[f[i - 1]]]
           Missing == {n \in 0 .. N : ~Upto(n)}
<1>1. Upto(0)
  <2> DEFINE f == [i \in 0 .. 0 |-> x]
  <2>1. f \in [0 .. 0 -> S] /\ f = [i \in 0 .. 0 |-> IF i = 0 THEN x ELSE g[f[i - 1]]]
    OBVIOUS
  <2> QED
    BY <2>1
<1>2. ASSUME NEW n \in Nat, Upto(n) PROVE Upto(n + 1)
  <2>1. PICK f \in [0 .. n -> S] : f = [i \in 0 .. n |-> IF i = 0 THEN x ELSE g[f[i - 1]]]
    BY <1>2
  <2> DEFINE h == [i \in 0 .. n + 1 |-> IF i = 0 THEN x ELSE g[f[i - 1]]]
  <2>2. \A i \in 0 .. n + 1 : i # 0 => i - 1 \in 0 .. n
    OBVIOUS
  <2>3. h \in [0 .. n + 1 -> S]
    BY <2>2
  <2>4. \A i \in 0 .. n : h[i] = f[i]
    BY <2>1
  <2>5. \A i \in 0 .. n + 1 : h[i] = IF i = 0 THEN x ELSE g[h[i - 1]]
    BY <2>2, <2>4
  <2>6. h = [i \in 0 .. n + 1 |-> IF i = 0 THEN x ELSE g[h[i - 1]]]
    BY <2>5
  <2> QED
    BY <2>3, <2>6
<1> HIDE DEF Upto
<1>3. CASE Missing # {}
  <2>0. Missing \in SUBSET Nat
    OBVIOUS
  <2> HIDE DEF Missing
  <2>1. PICK m \in Missing : \A k \in Missing : m <= k
    BY <1>3, <2>0, LeastOf
  <2> USE DEF Missing
  <2>2. m # 0 /\ m - 1 \in 0 .. N /\ m - 1 \notin Missing
    BY <1>1, <2>1
  <2>3. Upto(m - 1 + 1) /\ m - 1 + 1 = m
    BY <1>2, <2>2
  <2> QED
    BY <2>1, <2>3
<1>4. CASE Missing = {}
  <2>1. N \in 0 .. N
    OBVIOUS
  <2>2. Upto(N)
    BY <1>4, <2>1
  <2>3. PICK f \in [0 .. N -> S] : f = [i \in 0 .. N |-> IF i = 0 THEN x ELSE g[f[i - 1]]]
    BY <2>2 DEF Upto
  <2>4. Iterates(f, S, g, x, N)
    BY <2>3 DEF Iterates
  <2> QED
    BY <2>4
<1> QED
  BY <1>3, <1>4

\* RingFrom follows next from the head.
LEMMA RingFromIs ==
    ASSUME NEW z \in Zones, NEW head \in Addr \cup {Null, Wild}
    PROVE  LET at == RingFrom(z, head) IN
           /\ WalkLimit \in Nat /\ at[0] = head
           /\ \A i \in 1 .. WalkLimit : at[i] = NextNode(z, at[i - 1])
<1> DEFINE S == Addr \cup {Null, Wild}
           g == [n \in S |-> NextNode(z, n)]
           at == RingFrom(z, head)
<1>1. WalkLimit \in Nat
  BY ZoneAssumption DEF WalkLimit, MinBlockSize
<1>2. g \in [S -> S]
  BY Reads
<1>3. PICK f \in [0 .. WalkLimit -> S] :
         f = [i \in 0 .. WalkLimit |-> IF i = 0 THEN head ELSE g[f[i - 1]]]
  <2>1. head \in S
    OBVIOUS
  <2> HIDE DEF g, S
  <2>2. PICK f : Iterates(f, S, g, head, WalkLimit)
    BY <1>1, <1>2, <2>1, IterationExists
  <2> QED
    BY <2>2 DEF Iterates
<1>4. ASSUME NEW i \in 0 .. WalkLimit, i # 0 PROVE g[f[i - 1]] = NextNode(z, f[i - 1])
  <2>1. i - 1 \in 0 .. WalkLimit
    BY <1>1, <1>4
  <2>2. f[i - 1] \in S
    BY <1>3, <2>1
  <2> QED
    BY <2>2
<1>5. f = [i \in 0 .. WalkLimit |-> IF i = 0 THEN head ELSE NextNode(z, f[i - 1])]
  BY <1>3, <1>4
<1>6. at = CHOOSE h : h = [i \in 0 .. WalkLimit |-> IF i = 0 THEN head ELSE NextNode(z, h[i - 1])]
  BY DEF RingFrom
<1>7. at = [i \in 0 .. WalkLimit |-> IF i = 0 THEN head ELSE NextNode(z, at[i - 1])]
  BY <1>5, <1>6
<1> HIDE DEF at
<1> QED
  BY <1>1, <1>7 DEF at

\* A walk of a ring stays on it, comes back, and has seen all of it by then.
LEMMA RingWalked ==
    ASSUME NEW z \in Zones, NEW R, Spaced(R), Cycle(z, R), NEW head \in R
    PROVE  LET at == RingFrom(z, head) IN
           /\ WalkLimit \in Nat /\ at[0] = head
           /\ \A i \in 0 .. WalkLimit : at[i] \in R
           /\ \E k \in 1 .. WalkLimit :
                 /\ at[k] = head /\ \A i \in 1 .. k - 1 : at[i] # head
                 /\ R = {at[i] : i \in 0 .. k - 1}
<1> DEFINE at == RingFrom(z, head)
           Lost == {i \in 0 .. WalkLimit : at[i] \notin R}
<1>1. R \subseteq Addr
  BY SpacedCells
<1>2. /\ WalkLimit \in Nat /\ at[0] = head
      /\ \A i \in 1 .. WalkLimit : at[i] = NextNode(z, at[i - 1])
  BY <1>1, RingFromIs
<1> HIDE DEF at
<1>3. \A i \in 0 .. WalkLimit : at[i] \in R
  <2>1. SUFFICES ASSUME Lost # {} PROVE FALSE
    OBVIOUS
  <2>2. Lost \in SUBSET Nat
    BY <1>2
  <2>3. PICK m \in Lost : \A k \in Lost : m <= k
    <3> HIDE DEF Lost
    <3> QED
      BY <2>1, <2>2, LeastOf
  <2>4. m # 0 /\ m \in 1 .. WalkLimit /\ m - 1 \in 0 .. WalkLimit /\ m - 1 \notin Lost
    BY <1>2, <2>3
  <2>5. at[m - 1] \in R /\ at[m] = NextNode(z, at[m - 1])
    BY <1>2, <2>4
  <2> QED
    BY <2>3, <2>5 DEF Cycle
\* There are more turns than places.
<1>4. \E i, j \in 0 .. WalkLimit : i < j /\ at[i] = at[j]
  <2> DEFINE Q == ZoneSize \div 3
             f == [i \in 0 .. WalkLimit |-> at[i] \div 3]
  <2>1. Q \in Nat /\ WalkLimit = 1 + Q /\ 3 * Q <= ZoneSize /\ ZoneSize < 3 * Q + 3
    BY ZoneAssumption DEF WalkLimit, MinBlockSize
  <2>2. \A d \in R : d \div 3 \in 0 .. Q - 1
    <3> SUFFICES ASSUME NEW d \in R PROVE d \div 3 \in 0 .. Q - 1
      OBVIOUS
    <3>1. d \in Nat /\ d + 2 < ZoneSize /\ ZoneSize \in Nat
      BY ZoneAssumption DEF Spaced
    <3> HIDE DEF Q
    <3>2. d \div 3 \in Nat /\ 3 * (d \div 3) <= d
      BY <3>1
    <3> QED
      BY <2>1, <3>1, <3>2
  <2>3. f \in [0 .. WalkLimit -> 0 .. Q - 1]
    <3> HIDE DEF Q
    <3> QED
      BY <1>3, <2>2
  <2> HIDE DEF Q, f
  <2>4. /\ IsFiniteSet(0 .. WalkLimit) /\ Cardinality(0 .. WalkLimit) = WalkLimit + 1
        /\ IsFiniteSet(0 .. Q - 1) /\ Cardinality(0 .. Q - 1) = Q
    <3>1. 0 \in Int /\ WalkLimit \in Int /\ Q - 1 \in Int
      BY <1>2, <2>1
    <3> QED
      <4>1. \A n \in Int : n >= -1 => IsFiniteSet(0 .. n) /\ Cardinality(0 .. n) = n + 1
        BY FS_Interval
      <4>2. Q - 1 >= -1 /\ WalkLimit >= -1 /\ Q - 1 + 1 = Q
        BY <1>2, <2>1
      <4> QED
        BY <3>1, <4>1, <4>2
  <2>5. Cardinality(0 .. Q - 1) < Cardinality(0 .. WalkLimit)
    BY <2>1, <2>4
  <2>6. PICK x, y \in 0 .. WalkLimit : x # y /\ f[x] = f[y]
    BY <2>3, <2>4, <2>5, FS_PigeonHole
  <2>7. at[x] = at[y]
    <3>1. at[x] \in R /\ at[y] \in R /\ at[x] \div 3 = at[y] \div 3
      BY <1>3, <2>6 DEF f
    <3> DEFINE d == at[x]
               e == at[y]
    <3>2. d \in Nat /\ e \in Nat /\ d \div 3 = e \div 3
      BY <3>1 DEF Spaced
    <3> HIDE DEF d, e
    <3>3. ~(d + 3 <= e) /\ ~(e + 3 <= d)
      BY <3>2
    <3> QED
      BY <3>1, <3>2, <3>3 DEF Spaced, d, e
  <2>8. x < y \/ y < x
    BY <1>2, <2>6
  <2> QED
    BY <2>7, <2>8
\* The first that is seen twice is the head.
<1>5. \E j \in 1 .. WalkLimit : at[j] = head
  <2> DEFINE Twice == {i \in 0 .. WalkLimit : \E j \in 0 .. WalkLimit : i < j /\ at[i] = at[j]}
  <2>1. Twice \in SUBSET Nat /\ Twice # {}
    BY <1>2, <1>4
  <2>2. PICK m \in Twice : \A k \in Twice : m <= k
    <3> HIDE DEF Twice
    <3> QED
      BY <2>1, LeastOf
  <2>3. PICK j \in 0 .. WalkLimit : m < j /\ at[m] = at[j]
    BY <2>2
  <2>4. CASE m > 0
    <3>1. /\ m \in 1 .. WalkLimit /\ m - 1 \in 0 .. WalkLimit
          /\ j \in 1 .. WalkLimit /\ j - 1 \in 0 .. WalkLimit /\ m - 1 < j - 1
      BY <1>2, <2>3, <2>4
    <3>2. at[m - 1] = PrevNode(z, at[m]) /\ at[j - 1] = PrevNode(z, at[j])
      BY <1>2, <1>3, <3>1 DEF Cycle
    <3>3. m - 1 \in Twice
      BY <2>3, <3>1, <3>2
    <3> QED
      BY <2>2, <2>4, <3>1, <3>3
  <2>5. CASE m = 0
    BY <1>2, <2>3, <2>5
  <2> QED
    BY <1>2, <2>2, <2>4, <2>5
<1>6. PICK k \in 1 .. WalkLimit : at[k] = head /\ \A i \in 1 .. k - 1 : at[i] # head
  <2> DEFINE Back == {j \in 1 .. WalkLimit : at[j] = head}
  <2>1. Back \in SUBSET Nat /\ Back # {}
    BY <1>2, <1>5
  <2>2. PICK m \in Back : \A j \in Back : m <= j
    <3> HIDE DEF Back
    <3> QED
      BY <2>1, LeastOf
  <2>3. \A i \in 1 .. m - 1 : i \in 1 .. WalkLimit /\ ~(m <= i)
    BY <1>2, <2>2
  <2> QED
    BY <2>2, <2>3
<1>7. R = {at[i] : i \in 0 .. k - 1}
  <2> DEFINE S == {at[i] : i \in 0 .. k - 1}
  <2>1. S \in SUBSET R /\ S # {}
    <3>1. 0 \in 0 .. k - 1 /\ \A i \in 0 .. k - 1 : i \in 0 .. WalkLimit
      BY <1>2
    <3> QED
      BY <1>3, <3>1
  <2>2. ASSUME NEW n \in S PROVE NextNode(z, n) \in S
    <3>1. PICK i \in 0 .. k - 1 : n = at[i]
      OBVIOUS
    <3>2. i + 1 \in 1 .. WalkLimit /\ i + 1 - 1 = i
      BY <1>2
    <3>3. at[i + 1] = NextNode(z, n)
      BY <1>2, <3>1, <3>2
    <3>4. CASE i + 1 = k
      <4>1. 0 \in 0 .. k - 1
        BY <1>2
      <4> QED
        BY <1>2, <1>6, <3>3, <3>4, <4>1
    <3>5. CASE i + 1 # k
      <4>1. i + 1 \in 0 .. k - 1
        BY <1>2, <3>5
      <4> QED
        BY <3>3, <4>1
    <3> QED
      BY <3>4, <3>5
  <2> QED
    BY <2>1, <2>2 DEF Cycle
<1> QED
  BY <1>2, <1>3, <1>6, <1>7 DEF at

-----------------------------------------------------------------------------
(* What the walks of the lists find.                                        *)

Stocked(z, F) == Spaced(F) /\ Lists(z, F) /\ \A d \in F : ValidateBlock(z, d)

\* Min of a set of numbers with a least one.
LEMMA LeastIs ==
    ASSUME NEW E \in SUBSET Nat, NEW k \in E, \A i \in E : k <= i
    PROVE  Min(E) = k
<1>1. \A m \in E : (\A i \in E : m <= i) => m = k
  BY SMT
<1> QED
  BY <1>1 DEF Min

\* What a list head leads to, when the lists are exact.
LEMMA RingOfClass ==
    ASSUME NEW z \in Zones, NEW F, Stocked(z, F), NEW c \in Classes, z.freelists[c] # Null
    PROVE  LET R == ClassOf(z, F, c) IN
           /\ Cycle(z, R) /\ Spaced(R) /\ z.freelists[c] \in R /\ R \subseteq F
           /\ \A n \in R : ~BadLinks(z, n) /\ ValidateBlock(z, n) /\ GoodNode(z, n)
<1> DEFINE R == ClassOf(z, F, c)
<1>1. R \subseteq F /\ Cycle(z, R) /\ z.freelists[c] \in R
  BY DEF Stocked, Lists, ClassOf
<1> HIDE DEF R
<1>2. Spaced(R)
  BY <1>1 DEF Stocked, Spaced
<1>3. ASSUME NEW n \in R PROVE ~BadLinks(z, n) /\ ValidateBlock(z, n) /\ GoodNode(z, n)
  <2>1. NextNode(z, n) \in R /\ PrevNode(z, NextNode(z, n)) = n
    BY <1>1 DEF Cycle
  <2>2. IsValidFreenode(n) /\ IsValidFreenode(NextNode(z, n))
    BY <1>2, <2>1, SpacedCells
  <2>3. ValidateBlock(z, n)
    BY <1>1 DEF Stocked
  <2> QED
    BY <2>1, <2>2, <2>3 DEF BadLinks, GoodNode
<1> QED
  BY <1>1, <1>2, <1>3 DEF R

\* A walk that nothing stops ends where it began, having seen all of the ring.
LEMMA WalkReturns ==
    ASSUME NEW z \in Zones, NEW F, Stocked(z, F), NEW c \in Classes, z.freelists[c] # Null,
           NEW E, E \subseteq 0 .. WalkLimit,
           \A i \in 0 .. WalkLimit : CameBack(RingFrom(z, z.freelists[c]), i) => i \in E,
           \A i \in E : CameBack(RingFrom(z, z.freelists[c]), i)
    PROVE  LET at == RingFrom(z, z.freelists[c]) IN
           /\ E # {} /\ CameBack(at, Min(E))
           /\ ClassOf(z, F, c) = {at[i] : i \in 0 .. Min(E) - 1}
<1> DEFINE at == RingFrom(z, z.freelists[c])
           R == ClassOf(z, F, c)
<1>1. Cycle(z, R) /\ Spaced(R) /\ z.freelists[c] \in R
  BY RingOfClass
<1> HIDE DEF R
<1>2. /\ WalkLimit \in Nat /\ at[0] = z.freelists[c]
      /\ \E k \in 1 .. WalkLimit :
            /\ at[k] = at[0] /\ \A i \in 1 .. k - 1 : at[i] # at[0]
            /\ R = {at[i] : i \in 0 .. k - 1}
  BY <1>1, RingWalked
<1> HIDE DEF at
<1>3. PICK k \in 1 .. WalkLimit :
            /\ at[k] = at[0] /\ \A i \in 1 .. k - 1 : at[i] # at[0]
            /\ R = {at[i] : i \in 0 .. k - 1}
  BY <1>2
<1>4. k \in E
  BY <1>2, <1>3 DEF at, CameBack
<1>5. \A i \in E : k <= i
  <2> SUFFICES ASSUME NEW i \in E PROVE k <= i
    OBVIOUS
  <2>1. i > 0 /\ i \in Nat /\ at[i] = at[0]
    BY <1>2 DEF at, CameBack
  <2> QED
    BY <1>2, <1>3, <2>1
<1>6. Min(E) = k
  <2>1. E \in SUBSET Nat
    BY <1>2
  <2> QED
    BY <1>4, <1>5, <2>1, LeastIs
<1>7. CameBack(at, k)
  BY <1>2, <1>3 DEF CameBack
<1> QED
  BY <1>3, <1>4, <1>6, <1>7 DEF at, R

\* ValidateFreelist finds nothing wrong with exact lists.
LEMMA ListsAreValid ==
    ASSUME NEW z \in Zones, NEW F, Stocked(z, F)
    PROVE  ValidateFreelist(z)
<1> SUFFICES ASSUME NEW c \in Classes, z.freelists[c] # Null
             PROVE  LET at == RingFrom(z, z.freelists[c])
                    IN  CameBack(at, WalkEnd(at, LAMBDA n : ~GoodNode(z, n)))
  BY DEF ValidateFreelist
<1> DEFINE at == RingFrom(z, z.freelists[c])
           E == {i \in 0 .. WalkLimit : (i > 0 /\ at[i] = at[0]) \/ ~GoodNode(z, at[i])}
<1>1. \A i \in 0 .. WalkLimit : GoodNode(z, at[i])
  BY RingOfClass, RingWalked
<1>2. E # {} /\ CameBack(at, Min(E))
  <2>1. /\ E \subseteq 0 .. WalkLimit
        /\ \A i \in 0 .. WalkLimit : CameBack(at, i) => i \in E
        /\ \A i \in E : CameBack(at, i)
    BY <1>1 DEF CameBack
  <2> HIDE DEF E
  <2> QED
    BY <2>1, WalkReturns
<1>3. WalkEnd(at, LAMBDA n : ~GoodNode(z, n)) = Min(E)
  BY <1>2 DEF WalkEnd
<1> QED
  BY <1>2, <1>3

\* One class: its list is left as it is, and a block that fits is found if it has one.
LEMMA SearchClassFinds ==
    ASSUME NEW z \in Zones, NEW F, Stocked(z, F), NEW c \in Classes, NEW need \in Nat
    PROVE  LET s == SearchClass(z, c, need) IN
           /\ s.zone = z
           /\ \/ s.found \in F /\ Size(z, s.found) >= need
              \/ s.found = Null /\ \A d \in ClassOf(z, F, c) : Size(z, d) < need
<1> DEFINE R == ClassOf(z, F, c)
           at == RingFrom(z, z.freelists[c])
           E == {i \in 0 .. WalkLimit : (i > 0 /\ at[i] = at[0]) \/
                    BadLinks(z, at[i]) \/ ~ValidateBlock(z, at[i]) \/ Size(z, at[i]) >= need}
           end == WalkEnd(at, LAMBDA n : BadLinks(z, n) \/ ~ValidateBlock(z, n) \/ Size(z, n) >= need)
           s == SearchClass(z, c, need)
<1>1. CASE z.freelists[c] = Null
  <2>1. R = {}
    <3>1. R \subseteq Addr
      BY SpacedCells DEF Stocked, ClassOf
    <3>2. z.freelists[c] \in R \/ R = {}
      BY DEF Stocked, Lists
    <3> QED
      BY <1>1, <3>1, <3>2, ConstantsType
  <2>2. s = [zone |-> z, found |-> Null]
    BY <1>1 DEF SearchClass
  <2> QED
    BY <2>1, <2>2
<1>2. CASE z.freelists[c] # Null
  <2>1. /\ Cycle(z, R) /\ Spaced(R) /\ z.freelists[c] \in R /\ R \subseteq F
        /\ \A n \in R : ~BadLinks(z, n) /\ ValidateBlock(z, n)
    BY <1>2, RingOfClass
  <2>2. /\ WalkLimit \in Nat /\ at[0] = z.freelists[c]
        /\ \A i \in 0 .. WalkLimit : at[i] \in R
        /\ \E k \in 1 .. WalkLimit :
              /\ at[k] = at[0] /\ \A i \in 1 .. k - 1 : at[i] # at[0]
              /\ R = {at[i] : i \in 0 .. k - 1}
    <3> HIDE DEF R
    <3> QED
      BY <2>1, RingWalked
  <2>3. end = IF E = {} THEN WalkLimit ELSE Min(E)
    BY DEF WalkEnd
  <2>4. E = {i \in 0 .. WalkLimit : CameBack(at, i) \/ Size(z, at[i]) >= need}
    BY <2>1, <2>2 DEF CameBack
  <2>5. E # {} /\ E \in SUBSET Nat
    BY <2>2, <2>4 DEF CameBack
  <2> HIDE DEF E, end, at, R
  <2>6. PICK m \in E : \A i \in E : m <= i
    BY <2>5, LeastOf
  <2>7. end = m
    BY <2>3, <2>5, <2>6, LeastIs
  <2>8. PICK k \in 1 .. WalkLimit :
              /\ at[k] = at[0] /\ \A i \in 1 .. k - 1 : at[i] # at[0]
              /\ R = {at[i] : i \in 0 .. k - 1}
    BY <2>2
  <2>9. m \in 0 .. WalkLimit /\ at[m] \in R /\ ~BadLinks(z, at[m]) /\ ValidateBlock(z, at[m])
    BY <2>1, <2>2, <2>4, <2>6
  <2>10. s = IF CameBack(at, m) THEN [zone |-> z, found |-> Null]
             ELSE IF Size(z, at[m]) >= need THEN [zone |-> z, found |-> at[m]]
             ELSE [zone |-> [z EXCEPT !.freelists[c] = Null], found |-> Null]
    BY <1>2, <2>7, <2>9 DEF SearchClass, at, end
  <2>11. CASE CameBack(at, m)
    <3>1. m >= k
      BY <2>2, <2>8, <2>9, <2>11 DEF CameBack
    <3>2. ASSUME NEW d \in R PROVE Size(z, d) < need
      <4>1. PICK i \in 0 .. k - 1 : d = at[i]
        BY <2>8
      <4>2. i \notin E /\ i \in 0 .. WalkLimit
        BY <2>2, <2>6, <2>9, <3>1
      <4> QED
        BY <2>4, <4>1, <4>2, Reads
    <3> QED
      BY <2>10, <2>11, <3>2 DEF R
  <2>12. CASE ~CameBack(at, m)
    BY <2>1, <2>4, <2>6, <2>9, <2>10, <2>12
  <2> QED
    BY <2>11, <2>12
<1> QED
  BY <1>1, <1>2

\* A larger size is of the same class or a higher one.
LEMMA SizeClassGrows ==
    ASSUME NEW m \in Nat, NEW n \in Nat, m <= n
    PROVE  SizeClass(m) <= SizeClass(n)
<1> DEFINE S(k) == {i \in DOMAIN ClassLimits : ClassLimits[i] < k}
           Top == Len(ClassLimits)
<1>1. Top \in Nat /\ DOMAIN ClassLimits = 1 .. Top /\ \A i \in 1 .. Top : ClassLimits[i] \in Nat
  BY ZoneAssumption
<1>2. IsFiniteSet(1 .. Top)
  BY <1>1, FS_Interval
<1>3. S(n) \subseteq 1 .. Top /\ S(m) \subseteq S(n)
  BY <1>1
<1>4. IsFiniteSet(S(n))
  BY <1>2, <1>3, FS_Subset
<1>5. Cardinality(S(m)) <= Cardinality(S(n))
  BY <1>3, <1>4, FS_Subset
<1> QED
  BY <1>5 DEF SizeClass

\* find_fit leaves a sound zone as it is, and finds a block if any is large enough.
LEMMA FindFitFinds ==
    ASSUME NEW z \in Zones, NEW F, Stocked(z, F), NEW need \in Nat
    PROVE  LET s == FindFit(z, need) IN
           /\ s.zone = z
           /\ \/ s.found \in F /\ Size(z, s.found) >= need
              \/ s.found = Null /\ \A d \in F : Size(z, d) < need
<1> DEFINE Top == Len(ClassLimits)
           search == CHOOSE f : f = [c \in -1 .. Top |-> Searched(z, need, c, f)]
           Right(c) == /\ search[c].zone = z
                       /\ \/ search[c].found \in F /\ Size(z, search[c].found) >= need
                          \/ /\ search[c].found = Null
                             /\ \A d \in F : SizeClass(Size(z, d)) <= c => Size(z, d) < need
           Wrong == {n \in 0 .. Top + 1 : ~Right(n - 1)}
<1>1. search = [c \in -1 .. Top |-> Searched(z, need, c, search)]
  BY SearchExists
<1>2. FindFit(z, need) = search[Top]
  BY DEF FindFit, Searched
<1> HIDE DEF search
<1>3. /\ Top \in Nat /\ SizeClass(need) \in Nat
      /\ \A d \in F : SizeClass(Size(z, d)) \in Nat /\ SizeClass(Size(z, d)) <= Top
      /\ Null \notin F
  BY ZoneAssumption, SizeClassType, SpacedCells, ConstantsType DEF Stocked
<1>4. \A d \in F : SizeClass(Size(z, d)) < SizeClass(need) => Size(z, d) < need
  <2> SUFFICES ASSUME NEW d \in F, ~(Size(z, d) < need)
               PROVE  ~(SizeClass(Size(z, d)) < SizeClass(need))
    OBVIOUS
  <2>1. Size(z, d) \in Nat /\ need <= Size(z, d)
    BY Reads
  <2>2. SizeClass(need) <= SizeClass(Size(z, d))
    BY <2>1, SizeClassGrows
  <2> QED
    BY <1>3, <2>2
<1>5. ASSUME NEW c \in -1 .. Top, c < SizeClass(need) PROVE Right(c)
  <2>1. search[c] = [zone |-> z, found |-> Null]
    BY <1>1, <1>5 DEF Searched
  <2>2. \A d \in F : SizeClass(Size(z, d)) <= c => Size(z, d) < need
    BY <1>3, <1>4, <1>5
  <2> QED
    BY <2>1, <2>2
<1>6. ASSUME NEW c \in 0 .. Top, ~(c < SizeClass(need)), Right(c - 1) PROVE Right(c)
  <2>1. search[c] = IF search[c - 1].found # Null THEN search[c - 1]
                    ELSE SearchClass(search[c - 1].zone, c, need)
    BY <1>1, <1>6 DEF Searched
  <2>2. CASE search[c - 1].found # Null
    BY <1>6, <2>1, <2>2
  <2>3. CASE search[c - 1].found = Null
    <3>1. search[c] = SearchClass(z, c, need) /\ c \in Classes
      BY <1>3, <1>6, <2>1, <2>3 DEF Classes
    <3>2. \A d \in F : SizeClass(Size(z, d)) <= c - 1 => Size(z, d) < need
      BY <1>3, <1>6, <2>3
    <3>3. \A d \in F : SizeClass(Size(z, d)) <= c =>
             SizeClass(Size(z, d)) <= c - 1 \/ d \in ClassOf(z, F, c)
      BY <1>3 DEF ClassOf
    <3>4. /\ SearchClass(z, c, need).zone = z
          /\ \/ /\ SearchClass(z, c, need).found \in F
                /\ Size(z, SearchClass(z, c, need).found) >= need
             \/ /\ SearchClass(z, c, need).found = Null
                /\ \A d \in ClassOf(z, F, c) : Size(z, d) < need
      BY <3>1, SearchClassFinds
    <3> QED
      BY <3>1, <3>2, <3>3, <3>4
  <2> QED
    BY <2>2, <2>3
<1> HIDE DEF Right
<1>7. CASE Wrong # {}
  <2>0. Wrong \in SUBSET Nat
    BY <1>3
  <2> HIDE DEF Wrong
  <2>1. PICK m \in Wrong : \A k \in Wrong : m <= k
    BY <1>7, <2>0, LeastOf
  <2> USE DEF Wrong
  <2>2. m - 1 \in -1 .. Top /\ ~Right(m - 1)
    BY <1>3, <2>1
  <2>3. ~(m - 1 < SizeClass(need))
    BY <1>5, <2>2
  <2>4. m - 1 \in 0 .. Top /\ m - 1 \in 0 .. Top + 1 /\ m - 1 \notin Wrong
    BY <1>3, <2>1, <2>2, <2>3
  <2>5. Right(m - 1 - 1)
    BY <2>4
  <2> QED
    BY <1>6, <2>2, <2>3, <2>4, <2>5
<1>8. CASE Wrong = {}
  <2>1. Top + 1 \in 0 .. Top + 1 /\ Top + 1 - 1 = Top
    BY <1>3
  <2>2. Right(Top)
    BY <1>8, <2>1
  <2> QED
    BY <1>2, <1>3, <2>2 DEF Right
<1> QED
  BY <1>7, <1>8

\* MaxMem sees every free block, and leaves a sound zone as it is.
LEMMA MaxMemSees ==
    ASSUME NEW z \in Zones, NEW F, Stocked(z, F)
    PROVE  /\ AfterMaxMem(z) = z
           /\ \A need \in Nat, d \in F : MaxMem(z) < need => Size(z, d) < need + HeaderSize
<1> DEFINE at(c) == RingFrom(z, z.freelists[c])
           E(c) == {i \in 0 .. WalkLimit : (i > 0 /\ at(c)[i] = at(c)[0]) \/ BadLinks(z, at(c)[i])}
<1>1. ASSUME NEW c \in Classes, z.freelists[c] # Null
      PROVE  /\ CameBack(at(c), MaxMemEnd(z, c))
             /\ ClassOf(z, F, c) = {at(c)[i] : i \in 0 .. MaxMemEnd(z, c) - 1}
  <2> DEFINE EE == E(c)
  <2>1. \A i \in 0 .. WalkLimit : ~BadLinks(z, at(c)[i])
    BY <1>1, RingOfClass, RingWalked
  <2>2. MaxMemEnd(z, c) = IF EE = {} THEN WalkLimit ELSE Min(EE)
    BY DEF MaxMemEnd, WalkEnd
  <2>3. /\ EE \subseteq 0 .. WalkLimit
        /\ \A i \in 0 .. WalkLimit : CameBack(at(c), i) => i \in EE
        /\ \A i \in EE : CameBack(at(c), i)
    BY <2>1 DEF CameBack
  <2> HIDE DEF EE
  <2>4. /\ EE # {} /\ CameBack(at(c), Min(EE))
        /\ ClassOf(z, F, c) = {at(c)[i] : i \in 0 .. Min(EE) - 1}
    BY <1>1, <2>3, WalkReturns
  <2> QED
    BY <2>2, <2>4
<1>2. AfterMaxMem(z) = z
  <2>1. \A c \in Classes : z.freelists[c] # Null =>
           CameBack(RingFrom(z, z.freelists[c]), MaxMemEnd(z, c))
    BY <1>1
  <2>2. z.freelists = [c \in Classes |-> z.freelists[c]]
    BY DEF Zones
  <2>3. [c \in Classes |->
            IF z.freelists[c] # Null /\ ~CameBack(RingFrom(z, z.freelists[c]), MaxMemEnd(z, c))
            THEN Null ELSE z.freelists[c]] = [c \in Classes |-> z.freelists[c]]
    BY <2>1
  <2>4. [z EXCEPT !.freelists = z.freelists] = z
    BY DEF Zones
  <2> QED
    BY <2>2, <2>3, <2>4 DEF AfterMaxMem
<1>3. F \subseteq SeenByMaxMem(z)
  <2> SUFFICES ASSUME NEW d \in F PROVE d \in SeenByMaxMem(z)
    OBVIOUS
  <2> DEFINE c == SizeClass(Size(z, d))
  <2>1. c \in Classes /\ d \in ClassOf(z, F, c)
    BY ClassIs DEF ClassOf
  <2>2. z.freelists[c] \in ClassOf(z, F, c) /\ ClassOf(z, F, c) \subseteq Addr
    BY <2>1, SpacedCells DEF Stocked, Lists, ClassOf
  <2>3. z.freelists[c] # Null
    BY <2>2, ConstantsType
  <2> HIDE DEF c
  <2>4. d \in {at(c)[i] : i \in 0 .. MaxMemEnd(z, c) - 1}
    BY <1>1, <2>1, <2>3
  <2>5. c \in {x \in Classes : z.freelists[x] # Null}
    BY <2>1, <2>3
  <2> QED
    BY <2>4, <2>5 DEF SeenByMaxMem
<1>4. SeenByMaxMem(z) \subseteq F
  <2> SUFFICES ASSUME NEW c \in Classes, z.freelists[c] # Null,
                      NEW d \in {at(c)[i] : i \in 0 .. MaxMemEnd(z, c) - 1}
               PROVE  d \in F
    BY DEF SeenByMaxMem
  <2> QED
    BY <1>1 DEF ClassOf
<1> DEFINE Sizes == {0} \cup {Size(z, n) : n \in SeenByMaxMem(z)}
<1>5. \A s \in Sizes : s \in Nat /\ s <= ZoneSize
  <2>1. \A n \in F : Size(z, n) \in Nat /\ Size(z, n) <= ZoneSize
    <3> SUFFICES ASSUME NEW n \in F PROVE Size(z, n) \in Nat /\ Size(z, n) <= ZoneSize
      OBVIOUS
    <3>1. n \in Nat /\ Size(z, n) \in 1 .. ZoneSize - n /\ ZoneSize \in Nat
      BY ConstantsType DEF Stocked, ValidateBlock, Spaced
    <3> QED
      BY <3>1
  <2> QED
    BY <1>4, <2>1, ConstantsType
<1>6. \E m \in Sizes : \A s \in Sizes : s <= m
  <2> DEFINE Gaps == {ZoneSize - s : s \in Sizes}
  <2> HIDE DEF Sizes
  <2>1. Gaps \in SUBSET Nat /\ Gaps # {}
    <3>1. 0 \in Sizes
      BY DEF Sizes
    <3> QED
      BY <1>5, <3>1, ConstantsType
  <2>2. PICK g \in Gaps : \A h \in Gaps : g <= h
    <3> HIDE DEF Gaps
    <3> QED
      BY <2>1, LeastOf
  <2>3. PICK m \in Sizes : g = ZoneSize - m
    BY <2>2
  <2>4. \A s \in Sizes : s <= m
    <3> SUFFICES ASSUME NEW s \in Sizes PROVE s <= m
      OBVIOUS
    <3>1. ZoneSize - m <= ZoneSize - s
      BY <2>2, <2>3
    <3> QED
      BY <1>5, <2>3, <3>1, ConstantsType
  <2> QED
    BY <2>4
<1>7. Max(Sizes) \in Sizes /\ \A s \in Sizes : s <= Max(Sizes)
  <2> HIDE DEF Sizes
  <2>1. \E m \in Sizes : \A s \in Sizes : m >= s
    BY <1>5, <1>6
  <2>2. Max(Sizes) \in Sizes /\ \A s \in Sizes : Max(Sizes) >= s
    BY <2>1 DEF Max
  <2> QED
    BY <1>5, <2>2
<1>8. ASSUME NEW need \in Nat, NEW d \in F, MaxMem(z) < need
      PROVE  Size(z, d) < need + HeaderSize
  <2>1. Size(z, d) \in Sizes
    BY <1>3
  <2>2. MaxMem(z) = IF Max(Sizes) > HeaderSize THEN Max(Sizes) - HeaderSize ELSE 0
    BY DEF MaxMem
  <2> HIDE DEF Sizes
  <2>3. Size(z, d) \in Nat /\ Max(Sizes) \in Nat /\ Size(z, d) <= Max(Sizes)
    BY <1>5, <1>7, <2>1
  <2> QED
    BY <1>8, <2>2, <2>3 DEF HeaderSize
<1> QED
  BY <1>2, <1>8

-----------------------------------------------------------------------------
(* Blocks tile the zone.                                                    *)

Tiles(z, B) ==
    /\ B \subseteq Addr /\ 0 \in B
    /\ \A b \in B : /\ Size(z, b) >= MinBlockSize
                    /\ b + Size(z, b) \in B \cup {ZoneSize}
                    /\ \A d \in B : b < d => b + Size(z, b) <= d
    /\ PrevSize(z, 0) = 0
    /\ \A b \in B : b + Size(z, b) \in B => PrevSize(z, b + Size(z, b)) = Size(z, b)

\* Blocks that tile the zone do not overlap, and end where it does.
LEMMA TilesFit ==
    ASSUME NEW z \in Zones, NEW B, Tiles(z, B)
    PROVE  /\ Spaced(B)
           /\ \A b \in B : /\ b \in Nat /\ Size(z, b) \in Nat /\ Size(z, b) >= 3
                           /\ b + Size(z, b) <= ZoneSize /\ b + Size(z, b) # b
           /\ \A b, d \in B : b # d => b + Size(z, b) <= d \/ d + Size(z, d) <= b
           /\ ZoneSize \notin B /\ ZoneSize \in Nat
<1>1. \A b \in B : b \in Nat /\ b < ZoneSize /\ Size(z, b) \in Nat /\ Size(z, b) >= 3
  BY Reads, ConstantsType DEF Tiles, Addr, MinBlockSize
<1>2. \A b \in B : b + Size(z, b) <= ZoneSize
  <2> SUFFICES ASSUME NEW b \in B PROVE b + Size(z, b) <= ZoneSize
    OBVIOUS
  <2>1. b + Size(z, b) \in B \cup {ZoneSize}
    BY DEF Tiles
  <2> QED
    BY <1>1, <2>1, ConstantsType
<1>3. \A b, d \in B : b # d => b + Size(z, b) <= d \/ d + Size(z, d) <= b
  <2> SUFFICES ASSUME NEW b \in B, NEW d \in B, b # d
               PROVE  b + Size(z, b) <= d \/ d + Size(z, d) <= b
    OBVIOUS
  <2>1. b < d \/ d < b
    BY <1>1
  <2> QED
    BY <2>1 DEF Tiles
<1>4. Spaced(B)
  <2>1. \A d, e \in B : d < e => d + 3 <= e
    BY <1>1, <1>3
  <2>2. \A d \in B : d + 2 < ZoneSize
    BY <1>1, <1>2, ConstantsType
  <2> QED
    BY <1>1, <2>1, <2>2 DEF Spaced
<1> QED
  BY <1>1, <1>2, <1>3, <1>4, ConstantsType

\* Every block but the first has one before it, whose size it knows.
LEMMA TilesBefore ==
    ASSUME NEW z \in Zones, NEW B, Tiles(z, B), NEW d \in B, d # 0
    PROVE  \E b \in B : b < d /\ b + Size(z, b) = d /\ PrevSize(z, d) = Size(z, b)
<1> DEFINE Gaps == {d - b : b \in {x \in B : x < d}}
<1>1. /\ \A b \in B : b \in Nat /\ Size(z, b) \in Nat /\ b + Size(z, b) # b
      /\ \A b \in B : b + Size(z, b) \in B \cup {ZoneSize} /\ (b < d => b + Size(z, b) <= d)
      /\ 0 \in B /\ d < ZoneSize /\ ZoneSize \in Nat
  <2>1. /\ \A b \in B : b \in Nat /\ Size(z, b) \in Nat /\ b + Size(z, b) # b
        /\ ZoneSize \in Nat
    BY TilesFit
  <2>2. /\ \A b \in B : b + Size(z, b) \in B \cup {ZoneSize} /\ (b < d => b + Size(z, b) <= d)
        /\ 0 \in B /\ d \in Addr
    BY DEF Tiles
  <2>3. d < ZoneSize
    BY <2>1, <2>2 DEF Addr
  <2> QED
    BY <2>1, <2>2, <2>3
<1>2. Gaps \in SUBSET Nat /\ Gaps # {}
  BY <1>1
<1>3. PICK g \in Gaps : \A h \in Gaps : g <= h
  <2> HIDE DEF Gaps
  <2> QED
    BY <1>2, LeastOf
<1>4. PICK b \in B : b < d /\ g = d - b
  BY <1>3
<1> DEFINE n == b + Size(z, b)
<1>5. n <= d /\ n \in B
  BY <1>1, <1>4
<1>6. n = d
  <2>1. SUFFICES ASSUME n < d PROVE FALSE
    BY <1>1, <1>5
  <2>2. d - n \in Gaps
    BY <1>5, <2>1
  <2>3. g <= d - n
    BY <1>3, <2>2
  <2> QED
    BY <1>1, <1>4, <1>5, <2>3
<1> QED
  BY <1>4, <1>5, <1>6 DEF Tiles

\* ValidateBlock passes every block of a tiled zone.
LEMMA TilesValid ==
    ASSUME NEW z \in Zones, NEW B, Tiles(z, B), NEW b \in B
    PROVE  ValidateBlock(z, b)
<1>1. /\ b \in Addr /\ b \in Nat /\ Size(z, b) \in Nat /\ Size(z, b) >= 3
      /\ b + Size(z, b) <= ZoneSize /\ ZoneSize \in Nat
  BY TilesFit DEF Tiles
<1>2. PrevSize(z, b) <= b
  <2>1. CASE b = 0
    BY <2>1 DEF Tiles
  <2>2. CASE b # 0
    <3>1. PICK d \in B : d + Size(z, d) = b /\ PrevSize(z, b) = Size(z, d)
      BY <2>2, TilesBefore
    <3>2. d \in Nat /\ Size(z, d) \in Nat
      BY TilesFit
    <3> QED
      BY <3>1, <3>2
  <2> QED
    BY <2>1, <2>2
<1> QED
  BY <1>1, <1>2 DEF ValidateBlock, MinBlockSize

\* Two neighbours become one block.
Merged(z, y, B, b, n) == \A d \in B \ {n} :
    /\ Size(y, d) = IF d = b THEN Size(z, b) + Size(z, n) ELSE Size(z, d)
    /\ PrevSize(y, d) = IF d = n + Size(z, n) THEN Size(z, b) + Size(z, n) ELSE PrevSize(z, d)

\* A block joined with the one behind it leaves the zone tiled.
LEMMA TilesMerge ==
    ASSUME NEW z \in Zones, NEW B, Tiles(z, B), NEW b \in B, NEW n \in B, n = b + Size(z, b),
           NEW y \in Zones, Merged(z, y, B, b, n)
    PROVE  Tiles(y, B \ {n})
<1> DEFINE after == n + Size(z, n)
<1>0. /\ \A d \in B \ {n} : Size(y, d) = IF d = b THEN Size(z, b) + Size(z, n) ELSE Size(z, d)
      /\ \A d \in B \ {n} : PrevSize(y, d) = IF d = after THEN Size(z, b) + Size(z, n)
                                               ELSE PrevSize(z, d)
  BY DEF Merged
<1>1. /\ \A d \in B : /\ d \in Nat /\ Size(z, d) \in Nat /\ Size(z, d) >= 3
                      /\ d + Size(z, d) <= ZoneSize
      /\ \A d, e \in B : d # e => d + Size(z, d) <= e \/ e + Size(z, e) <= d
      /\ ZoneSize \notin B /\ ZoneSize \in Nat
  BY TilesFit
<1>2. /\ B \subseteq Addr /\ 0 \in B /\ PrevSize(z, 0) = 0
      /\ \A d \in B : d + Size(z, d) \in B \cup {ZoneSize}
      /\ \A d \in B : d + Size(z, d) \in B => PrevSize(z, d + Size(z, d)) = Size(z, d)
  BY DEF Tiles
<1>3. n # 0 /\ after # 0 /\ after # n /\ after # b /\ b # n /\ b + Size(y, b) = after
  BY <1>0, <1>1
<1>4. ASSUME NEW d \in B \ {n}, d # b
      PROVE  d + Size(z, d) # n /\ d + Size(z, d) # after
  <2>1. d # n /\ d # b
    BY <1>4
  <2>2. d + Size(z, d) <= b \/ b + Size(z, b) <= d
    BY <1>1, <2>1
  <2>3. d + Size(z, d) <= n \/ n + Size(z, n) <= d
    BY <1>1, <2>1
  <2> QED
    BY <1>1, <2>2, <2>3
<1>5. ASSUME NEW d \in B \ {n}
      PROVE  /\ Size(y, d) >= MinBlockSize
             /\ d + Size(y, d) \in (B \ {n}) \cup {ZoneSize}
             /\ \A e \in B \ {n} : d < e => d + Size(y, d) <= e
             /\ d + Size(y, d) \in B \ {n} => PrevSize(y, d + Size(y, d)) = Size(y, d)
  <2>1. CASE d = b
    <3>1. Size(y, d) = Size(z, b) + Size(z, n) /\ d + Size(y, d) = after
      BY <1>0, <1>3, <2>1
    <3>2. after \in (B \ {n}) \cup {ZoneSize}
      BY <1>2, <1>3
    <3>3. ASSUME NEW e \in B \ {n}, d < e PROVE after <= e
      <4>1. n <= e /\ n # e
        BY <1>1, <2>1, <3>3
      <4> QED
        BY <1>1, <4>1
    <3>4. Size(y, d) >= MinBlockSize
      BY <1>1, <3>1 DEF MinBlockSize
    <3>5. after \in B \ {n} => PrevSize(y, after) = Size(y, d)
      BY <1>0, <3>1
    <3> QED
      BY <3>1, <3>2, <3>3, <3>4, <3>5
  <2>2. CASE d # b
    <3>1. Size(y, d) = Size(z, d)
      BY <1>0, <2>2
    <3>2. d + Size(z, d) \in (B \ {n}) \cup {ZoneSize}
      BY <1>2, <1>4, <2>2
    <3>3. \A e \in B \ {n} : d < e => d + Size(z, d) <= e
      BY DEF Tiles
    <3>4. Size(z, d) >= MinBlockSize
      BY DEF Tiles
    <3>5. d + Size(z, d) \in B \ {n} => PrevSize(y, d + Size(z, d)) = Size(z, d)
      BY <1>0, <1>2, <1>4, <2>2
    <3> QED
      BY <3>1, <3>2, <3>3, <3>4, <3>5
  <2> QED
    BY <2>1, <2>2
<1>6. 0 \in B \ {n} /\ PrevSize(y, 0) = 0
  BY <1>0, <1>2, <1>3
<1> QED
  BY <1>2, <1>5, <1>6 DEF Tiles

\* A block becomes two neighbours.
Halved(z, y, B, b, need) == \A d \in B \cup {b + need} :
    /\ Size(y, d) = IF d = b THEN need
                    ELSE IF d = b + need THEN Size(z, b) - need ELSE Size(z, d)
    /\ PrevSize(y, d) = IF d = b + need THEN need
                        ELSE IF d = b + Size(z, b) THEN Size(z, b) - need ELSE PrevSize(z, d)

\* A block cut in two leaves the zone tiled.
LEMMA TilesSplit ==
    ASSUME NEW z \in Zones, NEW B, Tiles(z, B), NEW b \in B, NEW need \in Nat, need >= 3,
           Size(z, b) - need >= 3, NEW y \in Zones, Halved(z, y, B, b, need)
    PROVE  b + need \notin B /\ Tiles(y, B \cup {b + need})
<1> DEFINE t == b + need
           after == b + Size(z, b)
<1>0. /\ \A d \in B \cup {t} : Size(y, d) = IF d = b THEN need
                               ELSE IF d = t THEN Size(z, b) - need ELSE Size(z, d)
      /\ \A d \in B \cup {t} : PrevSize(y, d) = IF d = t THEN need
                               ELSE IF d = after THEN Size(z, b) - need ELSE PrevSize(z, d)
  BY DEF Halved
<1>1. /\ \A d \in B : /\ d \in Nat /\ Size(z, d) \in Nat /\ Size(z, d) >= 3
                      /\ d + Size(z, d) <= ZoneSize
      /\ \A d, e \in B : d # e => d + Size(z, d) <= e \/ e + Size(z, e) <= d
      /\ ZoneSize \notin B /\ ZoneSize \in Nat
  BY TilesFit
<1>2. /\ B \subseteq Addr /\ 0 \in B /\ PrevSize(z, 0) = 0
      /\ \A d \in B : d + Size(z, d) \in B \cup {ZoneSize}
      /\ \A d \in B : d + Size(z, d) \in B => PrevSize(z, d + Size(z, d)) = Size(z, d)
  BY DEF Tiles
<1>3. /\ t \in Nat /\ b < t /\ t + 3 <= after /\ after <= ZoneSize /\ t \in Addr
      /\ t + (Size(z, b) - need) = after
  BY <1>1 DEF Addr
<1>4. t \notin B
  BY <1>1, <1>3
<1>5. \A e \in B : e # b => e + Size(z, e) <= b \/ after <= e
  BY <1>1
<1>6. ASSUME NEW d \in B \cup {t}
      PROVE  /\ Size(y, d) >= MinBlockSize
             /\ d + Size(y, d) \in (B \cup {t}) \cup {ZoneSize}
             /\ \A e \in B \cup {t} : d < e => d + Size(y, d) <= e
             /\ d + Size(y, d) \in B \cup {t} => PrevSize(y, d + Size(y, d)) = Size(y, d)
  <2>1. CASE d = b
    BY <1>0, <1>1, <1>3, <1>4, <1>5, <2>1 DEF MinBlockSize
  <2>2. CASE d = t
    <3>1. Size(y, d) = Size(z, b) - need /\ d + Size(y, d) = after
      BY <1>0, <1>3, <1>4, <2>2
    <3>2. after \in B \cup {ZoneSize} /\ after # t
      BY <1>2, <1>3
    <3>3. \A e \in B \cup {t} : d < e => after <= e
      BY <1>1, <1>3, <1>5, <2>2
    <3>4. after \in B \cup {t} => PrevSize(y, after) = Size(z, b) - need
      BY <1>0, <3>2
    <3> QED
      BY <3>1, <3>2, <3>3, <3>4 DEF MinBlockSize
  <2>3. CASE d # b /\ d # t
    <3>1. d \in B /\ Size(y, d) = Size(z, d)
      BY <1>0, <2>3
    <3>2. d + Size(z, d) # t /\ d + Size(z, d) # after
      BY <1>1, <1>3, <1>5, <2>3, <3>1
    <3>3. d + Size(z, d) \in B \cup {ZoneSize}
      BY <1>2, <3>1
    <3>4. \A e \in B \cup {t} : d < e => d + Size(z, d) <= e
      BY <1>1, <1>3, <1>5, <2>3, <3>1
    <3>5. d + Size(z, d) \in B \cup {t} => PrevSize(y, d + Size(z, d)) = Size(z, d)
      BY <1>0, <1>2, <3>1, <3>2
    <3>6. Size(z, d) >= MinBlockSize
      BY <3>1 DEF Tiles
    <3> QED
      BY <3>1, <3>3, <3>4, <3>5, <3>6
  <2> QED
    BY <2>1, <2>2, <2>3
<1>7. PrevSize(y, 0) = 0
  <2>1. 0 # t /\ 0 # after /\ 0 \in B \cup {t}
    BY <1>1, <1>2, <1>3
  <2> QED
    BY <1>0, <1>2, <2>1
<1> QED
  BY <1>2, <1>3, <1>4, <1>6, <1>7 DEF Tiles

-----------------------------------------------------------------------------
(* What becomes of the blocks that are not written to.                      *)

\* Block d is as its holder left it: its sizes, flags, master pointer and data. Its
\* prevSize is not its own.
Kept(z, y, d) ==
    /\ Cell(y, d) = Cell(z, d) /\ Cell(y, d + 1).hi = Cell(z, d + 1).hi
    /\ \A a \in d + 2 .. d + Size(z, d) - 1 : Cell(y, a) = Cell(z, a)

\* What is kept of a block includes its size, its flags and its master pointer.
LEMMA KeptReads ==
    ASSUME NEW z \in Zones, NEW y, NEW d, Kept(z, y, d)
    PROVE  /\ Size(y, d) = Size(z, d) /\ Flags(y, d) = Flags(z, d)
           /\ LockCount(y, d) = LockCount(z, d) /\ MasterPtr(y, d) = MasterPtr(z, d)
BY DEF Kept, Size, Flags, LockCount, MasterPtr

\* What two steps keep, both keep.
LEMMA KeptCompose ==
    ASSUME NEW z \in Zones, NEW d
    PROVE  /\ Kept(z, z, d)
           /\ \A x \in Zones : \A y : Kept(z, x, d) /\ Kept(x, y, d) => Kept(z, y, d)
<1>1. Kept(z, z, d)
  BY DEF Kept
<1>2. ASSUME NEW x \in Zones, NEW y, Kept(z, x, d), Kept(x, y, d) PROVE Kept(z, y, d)
  <2>1. Size(x, d) = Size(z, d)
    BY <1>2, KeptReads
  <2> QED
    BY <1>2, <2>1 DEF Kept
<1> QED
  BY <1>1, <1>2

\* Of the blocks of B only those of V are written to, and the sizes that others keep
\* of the one before.
Writes(z, y, B, V) == \A a :
    \/ Cell(y, a) = Cell(z, a)
    \/ \E e \in V : a \in e .. e + Size(z, e) - 1
    \/ Cell(y, a).hi = Cell(z, a).hi /\ \E e \in B : a = e + 1

\* Blocks outside the ones that are written are kept.
LEMMA WritesKeep ==
    ASSUME NEW z \in Zones, NEW B, Tiles(z, B), NEW V \in SUBSET B, NEW y, Writes(z, y, B, V)
    PROVE  \A d \in B \ V : Kept(z, y, d)
<1> SUFFICES ASSUME NEW d \in B \ V PROVE Kept(z, y, d)
  OBVIOUS
<1>1. /\ \A e \in B : e \in Nat /\ Size(z, e) \in Nat /\ Size(z, e) >= 3
      /\ \A e \in B : e # d => d + Size(z, d) <= e \/ e + Size(z, e) <= d
  BY TilesFit
<1>2. ASSUME NEW a \in d .. d + Size(z, d) - 1
      PROVE  /\ Cell(y, a) = Cell(z, a) \/ Cell(y, a).hi = Cell(z, a).hi
             /\ a # d + 1 => Cell(y, a) = Cell(z, a)
  <2>0. a \in Int /\ d <= a /\ a < d + Size(z, d)
    BY <1>1
  <2>1. \A e \in V : a \notin e .. e + Size(z, e) - 1
    <3> SUFFICES ASSUME NEW e \in V, a \in e .. e + Size(z, e) - 1 PROVE FALSE
      OBVIOUS
    <3>1. e \in B /\ e # d /\ e <= a /\ a < e + Size(z, e)
      BY <1>1, <2>0
    <3> QED
      BY <1>1, <2>0, <3>1
  <2>2. \A e \in B : a = e + 1 => a = d + 1
    <3> SUFFICES ASSUME NEW e \in B, a = e + 1, e # d PROVE FALSE
      BY <1>1
    <3> QED
      BY <1>1, <2>0
  <2> QED
    BY <2>1, <2>2 DEF Writes
<1>3. d \in d .. d + Size(z, d) - 1 /\ d # d + 1 /\ d + 1 \in d .. d + Size(z, d) - 1
  BY <1>1
<1>4. \A a \in d + 2 .. d + Size(z, d) - 1 : a \in d .. d + Size(z, d) - 1 /\ a # d + 1
  BY <1>1
<1> QED
  BY <1>2, <1>3, <1>4 DEF Kept

-----------------------------------------------------------------------------
(* What else is read of the places of S, when one of their sizes is set.    *)

Tags(z, d) == <<Flags(z, d), LockCount(z, d), MasterPtr(z, d)>>
Links(z, d) == <<NextNode(z, d), PrevNode(z, d)>>
SameTags(z, y, S) == \A d \in S : Tags(y, d) = Tags(z, d)

\* Lists stay exact when no link and no size of a free block is written.
LEMMA ListsKept ==
    ASSUME NEW z, NEW y, NEW F, Lists(z, F), y.freelists = z.freelists,
           \A d \in F : Size(y, d) = Size(z, d) /\ Links(y, d) = Links(z, d)
    PROVE  Lists(y, F)
<1> SUFFICES ASSUME NEW c \in Classes
             PROVE  LET R == ClassOf(y, F, c) IN
                    /\ Cycle(y, R)
                    /\ IF R = {} THEN y.freelists[c] = Null ELSE y.freelists[c] \in R
  BY DEF Lists
<1> DEFINE R == ClassOf(z, F, c)
<1>1. ClassOf(y, F, c) = R /\ R \subseteq F
  BY DEF ClassOf
<1>2. Cycle(z, R) /\ IF R = {} THEN z.freelists[c] = Null ELSE z.freelists[c] \in R
  BY DEF Lists
<1> HIDE DEF R
<1>3. \A n \in R : NextNode(y, n) = NextNode(z, n) /\ PrevNode(y, n) = PrevNode(z, n)
  BY <1>1 DEF Links
<1>4. Cycle(y, R)
  BY <1>2, <1>3, CycleKept
<1> QED
  BY <1>1, <1>2, <1>4

\* SetSize changes the size of one block.
LEMMA SetSizeReads ==
    ASSUME NEW z \in Zones, NEW S, Spaced(S), NEW b \in S, NEW n \in Nat
    PROVE  LET y == SetSize(z, b, n) IN
           /\ y \in Rewrites(z) /\ y \in Zones /\ y.freelists = z.freelists
           /\ \A a : a # b => Cell(y, a) = Cell(z, a)
           /\ \A d \in S : /\ Size(y, d) = IF d = b THEN n ELSE Size(z, d)
                           /\ PrevSize(y, d) = PrevSize(z, d)
                           /\ Tags(y, d) = Tags(z, d) /\ Links(y, d) = Links(z, d)
<1> DEFINE y == PutLo(z, b, Number(n))
<1>1. y = SetSize(z, b, n) /\ b \in Addr
  BY SpacedCells DEF SetSize
<1>2. y \in Rewrites(z) /\ y \in Zones
  BY <1>1, SetType, RewritesCompose
<1>3. /\ \A x : x # b => Cell(y, x) = Cell(z, x)
      /\ Cell(y, b).lo = Number(n) /\ Cell(y, b).hi = Cell(z, b).hi
      /\ y.freelists = z.freelists
  BY <1>1, PutLoCells
<1> HIDE DEF y
<1>4. ASSUME NEW d \in S PROVE d \in Addr /\ d + 1 # b /\ d + 2 # b
  <2>0. b \in Nat /\ d \in Nat /\ d \in Addr
    BY SpacedCells
  <2>1. CASE d = b
    BY <2>0, <2>1
  <2>2. CASE d # b
    <3>1. \A i, j \in 0 .. 2 : d + i # b + j
      BY <2>2, SpacedCells
    <3>2. d + 1 # b + 0 /\ d + 2 # b + 0 /\ b + 0 = b
      BY <2>0, <3>1
    <3> QED
      BY <2>0, <3>2
  <2> QED
    BY <2>1, <2>2
<1>5. \A d \in S : Size(y, d) = IF d = b THEN n ELSE Size(z, d)
  BY <1>3 DEF Size, AsNumber, Number
<1>6. \A d \in S : PrevSize(y, d) = PrevSize(z, d) /\ Tags(y, d) = Tags(z, d)
  BY <1>3, <1>4 DEF PrevSize, Tags, Flags, LockCount, MasterPtr
<1>7. \A d \in S : Links(y, d) = Links(z, d)
  BY <1>3, <1>4 DEF Links, NextNode, PrevNode, HeaderSize
<1> QED
  BY <1>1, <1>2, <1>3, <1>5, <1>6, <1>7

\* SetPrevSize changes the prevSize of one block.
LEMMA SetPrevSizeReads ==
    ASSUME NEW z \in Zones, NEW S, Spaced(S), NEW b \in S, NEW n \in Nat
    PROVE  LET y == SetPrevSize(z, b, n) IN
           /\ y \in Rewrites(z) /\ y \in Zones /\ y.freelists = z.freelists
           /\ \A a : a # b + 1 => Cell(y, a) = Cell(z, a)
           /\ Cell(y, b + 1).hi = Cell(z, b + 1).hi
           /\ \A d \in S : /\ PrevSize(y, d) = IF d = b THEN n ELSE PrevSize(z, d)
                           /\ Size(y, d) = Size(z, d)
                           /\ Tags(y, d) = Tags(z, d) /\ Links(y, d) = Links(z, d)
<1> DEFINE y == PutLo(z, b + 1, Number(n))
<1>1. y = SetPrevSize(z, b, n) /\ b \in Addr /\ b + 1 \in Addr /\ b \in Nat
  BY SpacedCells DEF SetPrevSize
<1>2. y \in Rewrites(z) /\ y \in Zones
  BY <1>1, SetType, RewritesCompose
<1>3. /\ \A x : x # b + 1 => Cell(y, x) = Cell(z, x)
      /\ Cell(y, b + 1).lo = Number(n) /\ Cell(y, b + 1).hi = Cell(z, b + 1).hi
      /\ y.freelists = z.freelists
  BY <1>1, PutLoCells
<1> HIDE DEF y
<1>4. ASSUME NEW d \in S
      PROVE  d \in Addr /\ d # b + 1 /\ d + 2 # b + 1 /\ (d # b => d + 1 # b + 1)
  <2>0. b \in Nat /\ d \in Nat /\ d \in Addr
    BY SpacedCells
  <2>1. CASE d = b
    BY <2>0, <2>1
  <2>2. CASE d # b
    <3>1. \A i, j \in 0 .. 2 : d + i # b + j
      BY <2>2, SpacedCells
    <3>2. d + 0 # b + 1 /\ d + 1 # b + 1 /\ d + 2 # b + 1 /\ d + 0 = d
      BY <2>0, <3>1
    <3> QED
      BY <2>0, <3>2
  <2> QED
    BY <2>1, <2>2
<1>5. \A d \in S : PrevSize(y, d) = IF d = b THEN n ELSE PrevSize(z, d)
  BY <1>3, <1>4 DEF PrevSize, AsNumber, Number
<1>6. \A d \in S : Size(y, d) = Size(z, d) /\ Tags(y, d) = Tags(z, d)
  BY <1>3, <1>4 DEF Size, Tags, Flags, LockCount, MasterPtr
<1>7. \A d \in S : Links(y, d) = Links(z, d)
  BY <1>3, <1>4 DEF Links, NextNode, PrevNode, HeaderSize
<1> QED
  BY <1>1, <1>2, <1>3, <1>5, <1>6, <1>7

-----------------------------------------------------------------------------
(* Merging neighbours.                                                      *)

\* The block after b, if there is one, learns b's size; its own size and links stay.
LEMMA TellReads ==
    ASSUME NEW z \in Zones, NEW B, Spaced(B), NEW b, NEW after, after = b + Size(z, b),
           after \in B \cup {ZoneSize}, after \in B => after # ZoneSize
    PROVE  LET y == TellNext(z, b) IN
           /\ y \in Rewrites(z) /\ y \in Zones /\ y.freelists = z.freelists
           /\ \A a : ~(after \in B /\ a = after + 1) => Cell(y, a) = Cell(z, a)
           /\ \A a : Cell(y, a).hi = Cell(z, a).hi
           /\ \A d \in B : /\ PrevSize(y, d) = IF d = after THEN Size(z, b) ELSE PrevSize(z, d)
                           /\ Size(y, d) = Size(z, d)
                           /\ Tags(y, d) = Tags(z, d) /\ Links(y, d) = Links(z, d)
<1>1. CASE after \in B
  <2>1. after + HeaderSize <= ZoneSize /\ Size(z, b) \in Nat
    BY <1>1, Reads, ConstantsType DEF Spaced, HeaderSize
  <2>2. TellNext(z, b) = SetPrevSize(z, after, Size(z, b))
    BY <2>1 DEF TellNext
  <2> QED
    BY <1>1, <2>1, <2>2, SetPrevSizeReads
<1>2. CASE after \notin B
  <2>1. after = ZoneSize /\ ~(after + HeaderSize <= ZoneSize)
    BY <1>2, ConstantsType DEF HeaderSize
  <2>2. TellNext(z, b) = z
    BY <2>1 DEF TellNext
  <2>3. \A d \in B : d # after
    BY <1>2
  <2> QED
    BY <1>2, <2>2, <2>3, RewritesCompose
<1> QED
  BY <1>1, <1>2

\* Relinking free blocks changes no header of any block.
LEMMA RelinksMore ==
    ASSUME NEW z \in Zones, NEW y, NEW F, NEW B, F \subseteq B, Spaced(B), Relinks(z, y, F)
    PROVE  \A d \in B : /\ Size(y, d) = Size(z, d) /\ PrevSize(y, d) = PrevSize(z, d)
                        /\ Tags(y, d) = Tags(z, d)
<1>1. Relinks(z, y, B)
  BY DEF Relinks, LinkCells
<1> QED
  BY <1>1, RelinksHeaders DEF Tags

\* b and n become one block, once r, which is one of them, is off its list.
Joined(z, b, n, r) == TellNext(SetSize(FreelistRemove(z, r), b, Size(z, b) + Size(z, n)), b)

Joinable(z, B, F, b, n, r) ==
    /\ Tiles(z, B) /\ F \subseteq B /\ Lists(z, F)
    /\ b \in B /\ n \in B /\ n = b + Size(z, b)
    /\ r \in F /\ ((r = b /\ n \notin F) \/ (r = n /\ b \notin F))

\* Joining a block with a listed neighbour leaves the zone tiled and the lists exact.
LEMMA MergeSound ==
    ASSUME NEW z \in Zones, NEW B, NEW F, NEW b, NEW n, NEW r, Joinable(z, B, F, b, n, r)
    PROVE  LET y == Joined(z, b, n, r) IN
           /\ y \in Rewrites(z) /\ y \in Zones /\ Tiles(y, B \ {n}) /\ Lists(y, F \ {r})
           /\ SameTags(z, y, B) /\ Merged(z, y, B, b, n) /\ Writes(z, y, B, F \cup {b})
<1> DEFINE sum == Size(z, b) + Size(z, n)
           after == n + Size(z, n)
           x1 == FreelistRemove(z, r)
           x2 == SetSize(x1, b, sum)
           y == TellNext(x2, b)
<1>0. /\ Tiles(z, B) /\ F \subseteq B /\ Lists(z, F)
      /\ b \in B /\ n \in B /\ n = b + Size(z, b)
      /\ r \in F /\ ((r = b /\ n \notin F) \/ (r = n /\ b \notin F))
  BY DEF Joinable
<1>1. /\ Spaced(B) /\ ZoneSize \notin B /\ ZoneSize \in Nat
      /\ \A d \in B : d \in Nat /\ Size(z, d) \in Nat /\ Size(z, d) >= 3
                      /\ d + Size(z, d) <= ZoneSize
      /\ after \in B \cup {ZoneSize}
  BY <1>0, TilesFit DEF Tiles
<1>2. sum \in Nat /\ b + sum = after /\ after # b /\ after # n /\ n # b
  BY <1>0, <1>1
<1>3. Spaced(F)
  BY <1>0, <1>1 DEF Spaced
<1>4. Relinks(z, x1, F) /\ Lists(x1, F \ {r}) /\ x1 \in Zones /\ x1 \in Rewrites(z)
  <2>1. Relinks(z, x1, F) /\ Lists(x1, F \ {r})
    BY <1>0, <1>3, RemoveSound
  <2> QED
    BY <1>0, <2>1, RewritesCompose DEF Relinks
<1> HIDE DEF x1
<1>5. \A d \in B : /\ Size(x1, d) = Size(z, d) /\ PrevSize(x1, d) = PrevSize(z, d)
                   /\ Tags(x1, d) = Tags(z, d)
  <2>1. Spaced(B) /\ Relinks(z, x1, F)
    BY <1>0, <1>1, <1>4
  <2> QED
    BY <1>0, <2>1, RelinksMore
<1>6. /\ x2 \in Rewrites(x1) /\ x2 \in Zones /\ x2.freelists = x1.freelists
      /\ \A a : a # b => Cell(x2, a) = Cell(x1, a)
      /\ \A d \in B : /\ Size(x2, d) = IF d = b THEN sum ELSE Size(x1, d)
                      /\ PrevSize(x2, d) = PrevSize(x1, d)
                      /\ Tags(x2, d) = Tags(x1, d) /\ Links(x2, d) = Links(x1, d)
  <2>1. Spaced(B) /\ x1 \in Zones /\ sum \in Nat
    BY <1>0, <1>1, <1>2, <1>4
  <2> HIDE DEF sum
  <2> QED
    BY <1>0, <2>1, SetSizeReads
<1> HIDE DEF x2
<1>8. /\ y \in Rewrites(x2) /\ y \in Zones /\ y.freelists = x2.freelists
      /\ \A a : ~(after \in B /\ a = after + 1) => Cell(y, a) = Cell(x2, a)
      /\ \A a : Cell(y, a).hi = Cell(x2, a).hi
      /\ \A d \in B : /\ PrevSize(y, d) = IF d = after THEN sum ELSE PrevSize(x2, d)
                      /\ Size(y, d) = Size(x2, d)
                      /\ Tags(y, d) = Tags(x2, d) /\ Links(y, d) = Links(x2, d)
  <2>1. Size(x2, b) = sum /\ after = b + Size(x2, b)
    BY <1>0, <1>2, <1>6
  <2>2. Spaced(B) /\ x2 \in Zones /\ after \in B \cup {ZoneSize} /\ (after \in B => after # ZoneSize)
    BY <1>0, <1>1, <1>6
  <2> HIDE DEF after, sum
  <2> QED
    BY <1>0, <2>1, <2>2, TellReads
<1> HIDE DEF y
<1>9. y \in Rewrites(z)
  BY <1>0, <1>4, <1>6, <1>8, RewritesCompose
<1>10. \A d \in B : /\ Size(y, d) = IF d = b THEN sum ELSE Size(z, d)
                    /\ PrevSize(y, d) = IF d = after THEN sum ELSE PrevSize(z, d)
                    /\ Tags(y, d) = Tags(z, d)
  BY <1>0, <1>5, <1>6, <1>8
<1>14. Merged(z, y, B, b, n) /\ SameTags(z, y, B)
  BY <1>10 DEF Merged, SameTags
<1>11. Tiles(y, B \ {n})
  BY <1>0, <1>8, <1>14, TilesMerge
<1>12. Lists(y, F \ {r})
  <2>1. b \notin F \ {r}
    BY <1>0
  <2>2. \A d \in F \ {r} : Size(y, d) = Size(x1, d) /\ Links(y, d) = Links(x1, d)
    BY <1>0, <1>6, <1>8, <2>1
  <2>3. y.freelists = x1.freelists
    BY <1>0, <1>6, <1>8
  <2> QED
    BY <1>0, <1>4, <2>2, <2>3, ListsKept
<1>13. Writes(z, y, B, F \cup {b})
  <2> SUFFICES ASSUME NEW a
               PROVE  \/ Cell(y, a) = Cell(z, a)
                      \/ \E e \in F \cup {b} : a \in e .. e + Size(z, e) - 1
                      \/ Cell(y, a).hi = Cell(z, a).hi /\ \E e \in B : a = e + 1
    BY DEF Writes
  <2>1. CASE a \in LinkCells(F)
    <3>1. PICK e \in F : a = e + 2
      BY <1>0, <2>1 DEF LinkCells
    <3>2. a \in e .. e + Size(z, e) - 1
      BY <1>0, <1>1, <3>1
    <3> QED
      BY <1>0, <3>2
  <2>2. CASE a = b
    <3>1. a \in b .. b + Size(z, b) - 1
      BY <1>0, <1>1, <2>2
    <3> QED
      BY <1>0, <3>1
  <2>3. CASE a \notin LinkCells(F) /\ a # b
    <3>1. Cell(x2, a) = Cell(z, a)
      BY <1>0, <1>4, <1>6, <2>3 DEF Relinks
    <3> HIDE DEF after
    <3> QED
      BY <1>0, <1>8, <3>1
  <2> QED
    BY <1>0, <2>1, <2>2, <2>3
<1> QED
  BY <1>0, <1>8, <1>9, <1>11, <1>12, <1>13, <1>14 DEF y, x2, x1, Joined

-----------------------------------------------------------------------------
(* A zone between two steps: every free block but b is listed.  No two free  *)
(* blocks are neighbours, and none is flagged as a handle's.                 *)

FreeOf(z, B) == {d \in B : "FREE" \in Flags(z, d)}
Apart(z, F) == \A d \in F : d + Size(z, d) \notin F /\ "HANDLE" \notin Flags(z, d)

Sound(z, B) == Tiles(z, B) /\ Lists(z, FreeOf(z, B)) /\ Apart(z, FreeOf(z, B))

Loose(z, B, F, b) ==
    /\ Tiles(z, B) /\ F \subseteq B /\ b \in B /\ b \notin F
    /\ Lists(z, F) /\ Apart(z, F)
    /\ \A d \in B : d # b => (d \in F <=> "FREE" \in Flags(z, d))

\* The defensive checks pass while one block is between its use and the list.
LEMMA LooseIsValid ==
    ASSUME NEW z \in Zones, NEW B, NEW F, NEW b, Loose(z, B, F, b)
    PROVE  Stocked(z, F) /\ ValidateFreelist(z) /\ ValidateBlock(z, b)
<1>1. Tiles(z, B) /\ Lists(z, F) /\ b \in B
  BY DEF Loose
<1>2. Spaced(F)
  BY <1>1, TilesFit DEF Loose, Spaced
<1>3. \A d \in F : ValidateBlock(z, d)
  BY <1>1, TilesValid DEF Loose
<1> QED
  BY <1>1, <1>2, <1>3, TilesValid, ListsAreValid DEF Stocked

\* The defensive checks pass on a sound zone.
LEMMA SoundIsValid ==
    ASSUME NEW z \in Zones, NEW B, Sound(z, B)
    PROVE  Stocked(z, FreeOf(z, B)) /\ ValidateFreelist(z) /\ \A b \in B : ValidateBlock(z, b)
<1>1. Tiles(z, B) /\ Lists(z, FreeOf(z, B)) /\ FreeOf(z, B) \subseteq B
  BY DEF Sound, FreeOf
<1>2. Spaced(FreeOf(z, B))
  BY <1>1, TilesFit DEF Spaced
<1>3. \A d \in B : ValidateBlock(z, d)
  BY <1>1, TilesValid
<1> QED
  BY <1>1, <1>2, <1>3, ListsAreValid DEF Stocked

\* The block behind b is taken in if it is free.
LEMMA ForwardSound ==
    ASSUME NEW z \in Zones, NEW B, NEW F, NEW b, Loose(z, B, F, b)
    PROVE  LET y == CoalesceForward(z, b) IN
           /\ y \in Rewrites(z) /\ y \in Zones
           /\ \E B2, F2 : /\ Loose(y, B2, F2, b) /\ b + Size(y, b) \notin F2
                          /\ B2 \ F2 = B \ F
           /\ \A d \in (B \ F) \ {b} : Kept(z, y, d)
           /\ Tags(y, b) = Tags(z, b)
<1> DEFINE n == b + Size(z, b)
           y == CoalesceForward(z, b)
<1>1. /\ Tiles(z, B) /\ F \subseteq B /\ b \in B /\ b \notin F
      /\ Lists(z, F) /\ Apart(z, F)
      /\ \A d \in B : d # b => (d \in F <=> "FREE" \in Flags(z, d))
      /\ n \in B \cup {ZoneSize}
  BY DEF Loose, Tiles
<1>2. /\ Spaced(B) /\ ZoneSize \notin B /\ ZoneSize \in Nat /\ b \in Addr /\ b \in Nat
      /\ \A d \in B : d \in Nat /\ Size(z, d) \in Nat /\ Size(z, d) >= 3
                      /\ d + Size(z, d) <= ZoneSize
  BY <1>1, TilesFit DEF Tiles
<1>3. CASE n \in F
  <2>1. n \in B /\ n # b /\ "FREE" \in Flags(z, n)
    BY <1>1, <1>3
  <2>2. n + HeaderSize <= ZoneSize /\ Size(z, n) \in 1 .. ZoneSize - n
    BY <1>2, <2>1 DEF HeaderSize
  <2>3. y = Joined(z, b, n, n)
    BY <1>2, <2>1, <2>2 DEF CoalesceForward, Joined
  <2> HIDE DEF y
  <2>4. /\ y \in Rewrites(z) /\ y \in Zones /\ Tiles(y, B \ {n}) /\ Lists(y, F \ {n})
        /\ \A d \in B : Tags(y, d) = Tags(z, d)
        /\ \A d \in B \ {n} : Size(y, d) = IF d = b THEN Size(z, b) + Size(z, n) ELSE Size(z, d)
        /\ Writes(z, y, B, F \cup {b})
    <3>1. Joinable(z, B, F, b, n, n)
      BY <1>1, <1>3 DEF Joinable
    <3> HIDE DEF n
    <3>2. LET w == Joined(z, b, n, n) IN
          /\ w \in Rewrites(z) /\ w \in Zones /\ Tiles(w, B \ {n}) /\ Lists(w, F \ {n})
          /\ SameTags(z, w, B) /\ Merged(z, w, B, b, n) /\ Writes(z, w, B, F \cup {b})
      BY <3>1, MergeSound
    <3> QED
      BY <2>3, <3>2 DEF SameTags, Merged
  <2>5. b + Size(y, b) = n + Size(z, n)
    BY <1>1, <1>2, <2>1, <2>4
  <2>6. b + Size(y, b) \notin F
    BY <1>1, <1>3, <2>5 DEF Apart
  <2>7. Apart(y, F \ {n})
    BY <1>1, <2>4 DEF Apart, Tags
  <2>8. \A d \in B : d # b => (d \in F <=> "FREE" \in Flags(y, d))
    BY <1>1, <2>4 DEF Tags
  <2>9. Loose(y, B \ {n}, F \ {n}, b)
    BY <1>1, <2>1, <2>4, <2>7, <2>8 DEF Loose
  <2>10. (B \ {n}) \ (F \ {n}) = B \ F
    BY <1>3
  <2>11. \A d \in (B \ F) \ {b} : Kept(z, y, d)
    <3>1. F \cup {b} \in SUBSET B
      BY <1>1
    <3> QED
      BY <1>1, <2>4, <3>1, WritesKeep
  <2>12. b + Size(y, b) \notin F \ {n}
    BY <2>6
  <2>13. \E B2, F2 : Loose(y, B2, F2, b) /\ b + Size(y, b) \notin F2 /\ B2 \ F2 = B \ F
    BY <2>9, <2>10, <2>12
  <2> QED
    BY <1>1, <2>4, <2>11, <2>13 DEF y
<1>4. CASE n \notin F
  <2>1. y = z
    <3>1. CASE n \in B
      <4>1. "FREE" \notin Flags(z, n)
        BY <1>1, <1>2, <1>4, <3>1
      <4> QED
        BY <4>1 DEF CoalesceForward
    <3>2. CASE n = ZoneSize
      <4>1. ~(n + HeaderSize <= ZoneSize)
        BY <1>2, <3>2 DEF HeaderSize
      <4> QED
        BY <4>1 DEF CoalesceForward
    <3> QED
      BY <1>1, <3>1, <3>2
  <2>2. \E B2, F2 : Loose(z, B2, F2, b) /\ b + Size(z, b) \notin F2 /\ B2 \ F2 = B \ F
    BY <1>4
  <2>3. z \in Rewrites(z) /\ \A d : Kept(z, z, d)
    BY RewritesCompose, KeptCompose
  <2> QED
    BY <2>1, <2>2, <2>3
<1> QED
  BY <1>3, <1>4

\* The block before b takes it in if that is free; the one behind is not.
LEMMA BackwardSound ==
    ASSUME NEW z \in Zones, NEW B, NEW F, NEW b, Loose(z, B, F, b), b + Size(z, b) \notin F
    PROVE  LET y == CoalesceBackward(z, b)
               p == Start(z, b) IN
           /\ y \in Rewrites(z) /\ y \in Zones
           /\ \E B2, F2 : /\ Loose(y, B2, F2, p) /\ p + Size(y, p) \notin F2
                          /\ \A d \in F2 : d + Size(y, d) # p
                          /\ (B2 \ F2) \ {p} = (B \ F) \ {b}
           /\ \A d \in (B \ F) \ {b} : Kept(z, y, d)
<1> DEFINE y == CoalesceBackward(z, b)
           p == Start(z, b)
<1>1. /\ Tiles(z, B) /\ F \subseteq B /\ b \in B /\ b \notin F
      /\ Lists(z, F) /\ Apart(z, F)
      /\ \A d \in B : d # b => (d \in F <=> "FREE" \in Flags(z, d))
  BY DEF Loose
<1>2. /\ Spaced(B) /\ ZoneSize \notin B /\ ZoneSize \in Nat /\ b \in Addr /\ b \in Nat
      /\ \A d \in B : d \in Nat /\ Size(z, d) \in Nat /\ Size(z, d) >= 3
      /\ \A d, e \in B : d # e => d + Size(z, d) <= e \/ e + Size(z, e) <= d
  BY <1>1, TilesFit DEF Tiles
<1>3. CASE \E d \in F : d + Size(z, d) = b
  <2>1. PICK d \in F : d + Size(z, d) = b
    BY <1>3
  <2>2. d \in B /\ d # b /\ "FREE" \in Flags(z, d) /\ d < b
    BY <1>1, <1>2, <2>1
  <2>3. PrevSize(z, b) = Size(z, d)
    BY <1>1, <2>1, <2>2 DEF Tiles
  <2>4. MergesBackward(z, b) /\ p = d
    <3>1. b - PrevSize(z, b) = d /\ PrevSize(z, b) \in 1 .. b
      BY <1>2, <2>1, <2>2, <2>3
    <3>2. MergesBackward(z, b)
      BY <1>2, <2>2, <2>3, <3>1 DEF MergesBackward
    <3> QED
      BY <3>1, <3>2 DEF Start
  <2>5. y = Joined(z, d, b, d)
    BY <2>4 DEF CoalesceBackward, Joined
  <2> HIDE DEF y, p
  <2>6. /\ y \in Rewrites(z) /\ y \in Zones /\ Tiles(y, B \ {b}) /\ Lists(y, F \ {d})
        /\ \A e \in B : Tags(y, e) = Tags(z, e)
        /\ \A e \in B \ {b} : Size(y, e) = IF e = d THEN Size(z, d) + Size(z, b) ELSE Size(z, e)
        /\ Writes(z, y, B, F \cup {d})
    <3>1. Joinable(z, B, F, d, b, d)
      BY <1>1, <2>1 DEF Joinable
    <3>2. LET w == Joined(z, d, b, d) IN
          /\ w \in Rewrites(z) /\ w \in Zones /\ Tiles(w, B \ {b}) /\ Lists(w, F \ {d})
          /\ SameTags(z, w, B) /\ Merged(z, w, B, d, b) /\ Writes(z, w, B, F \cup {d})
      BY <3>1, MergeSound
    <3> QED
      BY <2>5, <3>2 DEF SameTags, Merged
  <2>7. d + Size(y, d) = b + Size(z, b)
    BY <1>1, <1>2, <2>1, <2>2, <2>6
  <2>8. ASSUME NEW e \in F \ {d} PROVE e + Size(y, e) # d
    <3>1. e \in B \ {b} /\ Size(y, e) = Size(z, e)
      BY <1>1, <2>6
    <3>2. e + Size(z, e) \notin F
      BY <1>1 DEF Apart
    <3> QED
      BY <2>1, <3>1, <3>2
  <2>9. Apart(y, F \ {d})
    BY <1>1, <2>6 DEF Apart, Tags
  <2>10. \A e \in B \ {b} : e # d => (e \in F \ {d} <=> "FREE" \in Flags(y, e))
    BY <1>1, <2>6 DEF Tags
  <2>11. Loose(y, B \ {b}, F \ {d}, d)
    BY <1>1, <2>2, <2>6, <2>9, <2>10 DEF Loose
  <2>12. ((B \ {b}) \ (F \ {d})) \ {d} = (B \ F) \ {b}
    BY <2>1
  <2>13. \A e \in (B \ F) \ {b} : Kept(z, y, e)
    <3>1. F \cup {d} \in SUBSET B /\ F \cup {d} = F
      BY <1>1, <2>1
    <3> QED
      BY <1>1, <2>6, <3>1, WritesKeep
  <2>14. d + Size(y, d) \notin F \ {d}
    BY <2>7
  <2>15. \E B2, F2 : /\ Loose(y, B2, F2, d) /\ d + Size(y, d) \notin F2
                     /\ \A e \in F2 : e + Size(y, e) # d
                     /\ (B2 \ F2) \ {d} = (B \ F) \ {b}
    BY <2>8, <2>11, <2>12, <2>14
  <2> QED
    BY <2>4, <2>6, <2>13, <2>15 DEF y, p
<1>4. CASE ~(\E d \in F : d + Size(z, d) = b)
  <2>1. ~MergesBackward(z, b)
    <3>1. CASE b = 0
      <4>1. PrevSize(z, b) = 0
        BY <1>1, <3>1 DEF Tiles
      <4> QED
        BY <4>1 DEF MergesBackward
    <3>2. CASE b # 0
      <4>1. PICK d \in B : d < b /\ d + Size(z, d) = b /\ PrevSize(z, b) = Size(z, d)
        BY <1>1, <3>2, TilesBefore
      <4>2. b - PrevSize(z, b) = d /\ d # b
        BY <1>2, <4>1
      <4>3. "FREE" \notin Flags(z, d)
        BY <1>1, <1>4, <4>1, <4>2
      <4> QED
        BY <4>2, <4>3 DEF MergesBackward
    <3> QED
      BY <3>1, <3>2
  <2>2. CoalesceBackward(z, b) = z /\ Start(z, b) = b
    BY <2>1 DEF CoalesceBackward, Start
  <2>3. z \in Rewrites(z) /\ \A d : Kept(z, z, d)
    BY RewritesCompose, KeptCompose
  <2>5. /\ y \in Rewrites(z) /\ y \in Zones
        /\ \A d \in (B \ F) \ {b} : Kept(z, y, d)
    BY <2>2, <2>3
  <2>6. \E B2, F2 : /\ Loose(y, B2, F2, p) /\ p + Size(y, p) \notin F2
                    /\ \A e \in F2 : e + Size(y, e) # p
                    /\ (B2 \ F2) \ {p} = (B \ F) \ {b}
    <3>1. /\ Loose(y, B, F, p) /\ p + Size(y, p) \notin F
          /\ \A e \in F : e + Size(y, e) # p
          /\ (B \ F) \ {p} = (B \ F) \ {b}
      BY <1>4, <2>2
    <3> QED
      BY <3>1
  <2> QED
    BY <2>5, <2>6
<1> QED
  BY <1>3, <1>4

-----------------------------------------------------------------------------
(* Taking a block back.                                                     *)

\* The tiling depends on the sizes alone.
LEMMA TilesSame ==
    ASSUME NEW z \in Zones, NEW B, Tiles(z, B), NEW y,
           \A d \in B : Size(y, d) = Size(z, d) /\ PrevSize(y, d) = PrevSize(z, d)
    PROVE  Tiles(y, B)
<1>1. PrevSize(y, 0) = 0
  BY DEF Tiles
<1>2. ASSUME NEW b \in B
      PROVE  /\ Size(y, b) >= MinBlockSize
             /\ b + Size(y, b) \in B \cup {ZoneSize}
             /\ \A d \in B : b < d => b + Size(y, b) <= d
             /\ b + Size(y, b) \in B => PrevSize(y, b + Size(y, b)) = Size(y, b)
  <2>1. Size(y, b) = Size(z, b)
    OBVIOUS
  <2> QED
    BY <2>1 DEF Tiles
<1> QED
  BY <1>1, <1>2 DEF Tiles

\* Listing the one block that is loose makes the zone sound.
LEMMA InsertLoose ==
    ASSUME NEW z \in Zones, NEW B, NEW F, NEW b, Loose(z, B, F, b), b + Size(z, b) \notin F,
           \A d \in F : d + Size(z, d) # b
    PROVE  LET y == FreelistInsert(z, b) IN
           /\ y \in Rewrites(z) /\ y \in Zones /\ Sound(y, B) /\ FreeOf(y, B) = F \cup {b}
           /\ \A d \in (B \ F) \ {b} : Kept(z, y, d)
<1> DEFINE y == FreelistInsert(z, b)
           G == F \cup {b}
<1>1. /\ Tiles(z, B) /\ F \subseteq B /\ b \in B /\ b \notin F
      /\ Lists(z, F) /\ Apart(z, F)
      /\ \A d \in B : d # b => (d \in F <=> "FREE" \in Flags(z, d))
  BY DEF Loose
<1>2. /\ Spaced(B) /\ ZoneSize \notin B /\ ZoneSize \in Nat
      /\ \A d \in B : d \in Nat /\ Size(z, d) \in Nat /\ Size(z, d) >= 3
      /\ \A d \in B : d + Size(z, d) # d
  BY <1>1, TilesFit
<1>3. G \subseteq B /\ Spaced(G)
  BY <1>1, <1>2 DEF Spaced
<1>4. /\ y \in Rewrites(z) /\ Lists(y, G)
      /\ \A a : a \notin LinkCells(G) \cup {b} => Cell(y, a) = Cell(z, a)
      /\ Size(y, b) = Size(z, b) /\ Flags(y, b) = {"FREE"}
  <2>1. Size(z, b) >= MinBlockSize
    BY <1>1 DEF Tiles
  <2> QED
    BY <1>1, <1>3, <2>1, InsertSound
<1> HIDE DEF y
<1>5. ASSUME NEW d \in B
      PROVE  /\ d # b => Cell(y, d) = Cell(z, d)
             /\ Cell(y, d + 1) = Cell(z, d + 1)
  <2>0. d \in Nat /\ b \in Nat
    BY <1>1, <1>2
  <2>1. ASSUME NEW e \in G PROVE d # e + 2 /\ d + 1 # e + 2
    <3>1. e \in B /\ e \in Nat
      BY <1>2, <1>3
    <3>2. CASE d = e
      BY <3>1, <3>2
    <3>3. CASE d # e
      <4>1. \A i, j \in 0 .. 2 : d + i # e + j
        BY <1>2, <3>1, <3>3, SpacedCells
      <4>2. d + 0 # e + 2 /\ d + 1 # e + 2 /\ d + 0 = d
        BY <2>0, <4>1
      <4> QED
        BY <4>2
    <3> QED
      BY <3>2, <3>3
  <2>2. d \notin LinkCells(G) /\ d + 1 \notin LinkCells(G)
    BY <2>1 DEF LinkCells
  <2>3. d + 1 # b
    <3>1. CASE d = b
      BY <2>0, <3>1
    <3>2. CASE d # b
      <4>1. \A i, j \in 0 .. 2 : d + i # b + j
        BY <1>1, <1>2, <3>2, SpacedCells
      <4>2. d + 1 # b + 0 /\ b + 0 = b
        BY <2>0, <4>1
      <4> QED
        BY <4>2
    <3> QED
      BY <3>1, <3>2
  <2> QED
    BY <1>4, <2>2, <2>3
<1>6. \A d \in B : Size(y, d) = Size(z, d) /\ PrevSize(y, d) = PrevSize(z, d)
  <2>1. \A d \in B : d # b => Size(y, d) = Size(z, d)
    BY <1>5 DEF Size
  <2>2. \A d \in B : PrevSize(y, d) = PrevSize(z, d)
    BY <1>5 DEF PrevSize
  <2> QED
    BY <1>4, <2>1, <2>2
<1>7. \A d \in B : d # b => Flags(y, d) = Flags(z, d)
  BY <1>5 DEF Flags
<1>8. Tiles(y, B)
  BY <1>1, <1>6, TilesSame
<1>9. FreeOf(y, B) = G
  BY <1>1, <1>4, <1>7 DEF FreeOf
<1>10. Apart(y, G)
  BY <1>1, <1>2, <1>3, <1>4, <1>6, <1>7 DEF Apart
<1>11. \A d \in (B \ F) \ {b} : Kept(z, y, d)
  <2>1. Writes(z, y, B, G)
    <3> SUFFICES ASSUME NEW a, ~(Cell(y, a) = Cell(z, a))
                 PROVE  \E e \in G : a \in e .. e + Size(z, e) - 1
      BY DEF Writes
    <3>1. PICK e \in G : a = e + 2 \/ a = e
      BY <1>4 DEF LinkCells
    <3>2. e \in Nat /\ Size(z, e) \in Nat /\ Size(z, e) >= 3
      BY <1>2, <1>3
    <3>3. a \in e .. e + Size(z, e) - 1
      BY <3>1, <3>2
    <3> QED
      BY <3>3
  <2>2. G \in SUBSET B
    BY <1>3
  <2> HIDE DEF G
  <2>3. \A d \in B \ G : Kept(z, y, d)
    BY <1>1, <2>1, <2>2, WritesKeep
  <2> QED
    BY <2>3 DEF G
<1>12. y \in Zones
  BY <1>4, RewritesCompose
<1>13. Sound(y, B)
  BY <1>4, <1>8, <1>9, <1>10 DEF Sound
<1> QED
  BY <1>4, <1>9, <1>11, <1>12, <1>13 DEF y

\* A block is coalesced with its neighbours and listed: the zone is sound again, and
\* the blocks in use are as they were.
Returned(z, b) == FreelistInsert(CoalesceBackward(CoalesceForward(z, b), b),
                                 Start(CoalesceForward(z, b), b))
UsedOf(z, B) == B \ FreeOf(z, B)

\* A block given back is joined with its free neighbours and listed; the zone is sound,
\* and what other blocks hold is kept.
LEMMA ReturnedSound ==
    ASSUME NEW z \in Zones, NEW B, NEW F, NEW b, Loose(z, B, F, b)
    PROVE  LET forward == CoalesceForward(z, b)
               merged == CoalesceBackward(forward, b)
               at == Start(forward, b)
               y == Returned(z, b) IN
           /\ ValidateBlock(forward, b) /\ ValidateBlock(merged, at)
           /\ ValidateFreelist(merged) /\ ValidateFreelist(y)
           /\ y \in Rewrites(z) /\ y \in Zones
           /\ \E B2 : /\ Sound(y, B2) /\ at \in B2 /\ UsedOf(y, B2) = (B \ F) \ {b}
           /\ \A d \in (B \ F) \ {b} : Kept(z, y, d)
<1> DEFINE x1 == CoalesceForward(z, b)
           x2 == CoalesceBackward(x1, b)
           p == Start(x1, b)
           y == FreelistInsert(x2, p)
           U == (B \ F) \ {b}
<1>1. /\ x1 \in Rewrites(z) /\ x1 \in Zones
      /\ \E B2, F2 : /\ Loose(x1, B2, F2, b) /\ b + Size(x1, b) \notin F2
                     /\ B2 \ F2 = B \ F
      /\ \A d \in U : Kept(z, x1, d)
  BY ForwardSound
<1> HIDE DEF x1
<1>2. PICK B2, F2 : /\ Loose(x1, B2, F2, b) /\ b + Size(x1, b) \notin F2
                    /\ B2 \ F2 = B \ F
  BY <1>1
<1>3. /\ x2 \in Rewrites(x1) /\ x2 \in Zones
      /\ \E B3, F3 : /\ Loose(x2, B3, F3, p) /\ p + Size(x2, p) \notin F3
                     /\ \A d \in F3 : d + Size(x2, d) # p
                     /\ (B3 \ F3) \ {p} = (B2 \ F2) \ {b}
      /\ \A d \in (B2 \ F2) \ {b} : Kept(x1, x2, d)
  BY <1>1, <1>2, BackwardSound
<1> HIDE DEF x2, p
<1>4. PICK B3, F3 : /\ Loose(x2, B3, F3, p) /\ p + Size(x2, p) \notin F3
                    /\ \A d \in F3 : d + Size(x2, d) # p
                    /\ (B3 \ F3) \ {p} = (B2 \ F2) \ {b}
  BY <1>3
<1>5. /\ y \in Rewrites(x2) /\ y \in Zones /\ Sound(y, B3) /\ FreeOf(y, B3) = F3 \cup {p}
      /\ \A d \in (B3 \ F3) \ {p} : Kept(x2, y, d)
  BY <1>3, <1>4, InsertLoose
<1> HIDE DEF y
<1>6. (B3 \ F3) \ {p} = U /\ (B2 \ F2) \ {b} = U
  BY <1>2, <1>4
<1>7. y \in Rewrites(z)
  BY <1>1, <1>3, <1>5, RewritesCompose
<1>8. \A d \in U : Kept(z, y, d)
  <2>1. \A d \in U : Kept(z, x1, d) /\ Kept(x1, x2, d) /\ Kept(x2, y, d)
    BY <1>1, <1>3, <1>5, <1>6
  <2> QED
    BY <1>1, <1>3, <2>1, KeptCompose
<1>9. UsedOf(y, B3) = U /\ p \in B3
  <2>1. p \in B3
    BY <1>4 DEF Loose
  <2>2. UsedOf(y, B3) = (B3 \ F3) \ {p}
    BY <1>5 DEF UsedOf
  <2> QED
    BY <1>6, <2>1, <2>2
<1>10. /\ ValidateBlock(x1, b) /\ ValidateBlock(x2, p) /\ ValidateFreelist(x2)
       /\ ValidateFreelist(y)
  BY <1>1, <1>2, <1>3, <1>4, <1>5, LooseIsValid, SoundIsValid
<1>11. y = Returned(z, b)
  BY DEF Returned, y, x2, x1, p
<1>12. \E B4 : Sound(y, B4) /\ p \in B4 /\ UsedOf(y, B4) = U
  BY <1>5, <1>9
<1> QED
  BY <1>5, <1>7, <1>8, <1>10, <1>11, <1>12 DEF x1, x2, p

-----------------------------------------------------------------------------
(* Flags, master pointers and the headers of free blocks that are made.     *)

\* No block starts on another's header or links.
LEMMA StartsApart ==
    ASSUME NEW S, Spaced(S), NEW b \in S, NEW d \in S
    PROVE  /\ b \in Addr /\ d \in Addr /\ b \in Nat /\ d \in Nat
           /\ d + 1 # b /\ d + 2 # b /\ d # b + 1 /\ d + 2 # b + 1
           /\ d # b => d + 1 # b + 1
<1>0. b \in Nat /\ d \in Nat /\ d \in Addr /\ b \in Addr
  BY SpacedCells
<1>1. CASE d = b
  BY <1>0, <1>1
<1>2. CASE d # b
  <2>1. \A i, j \in 0 .. 2 : d + i # b + j
    BY <1>2, SpacedCells
  <2>2. /\ d + 1 # b + 0 /\ d + 2 # b + 0 /\ b + 0 = b
        /\ d + 0 # b + 1 /\ d + 1 # b + 1 /\ d + 2 # b + 1 /\ d + 0 = d
    BY <1>0, <2>1
  <2> QED
    BY <1>0, <2>2
<1> QED
  BY <1>1, <1>2

\* No block's links lie on another's header.
LEMMA LinksApart ==
    ASSUME NEW S, Spaced(S), NEW e \in S, NEW d \in S
    PROVE  d # e + 2 /\ d + 1 # e + 2
<1>0. e \in Nat /\ d \in Nat
  BY SpacedCells
<1>1. CASE d = e
  BY <1>0, <1>1
<1>2. CASE d # e
  <2>1. \A i, j \in 0 .. 2 : d + i # e + j
    BY <1>2, SpacedCells
  <2>2. d + 0 # e + 2 /\ d + 1 # e + 2 /\ d + 0 = d
    BY <1>0, <2>1
  <2> QED
    BY <2>2
<1> QED
  BY <1>1, <1>2

\* SetFlags changes the flags of one block.
LEMMA SetFlagsReads ==
    ASSUME NEW z \in Zones, NEW S, Spaced(S), NEW b \in S, NEW fs \in SUBSET FlagNames
    PROVE  LET y == SetFlags(z, b, fs) IN
           /\ y \in Rewrites(z) /\ y \in Zones /\ y.freelists = z.freelists
           /\ \A a : a # b => Cell(y, a) = Cell(z, a)
           /\ \A a : Cell(y, a).lo = Cell(z, a).lo
           /\ Flags(y, b) = fs /\ LockCount(y, b) = LockCount(z, b)
           /\ \A d \in S : /\ Size(y, d) = Size(z, d) /\ PrevSize(y, d) = PrevSize(z, d)
                           /\ MasterPtr(y, d) = MasterPtr(z, d) /\ Links(y, d) = Links(z, d)
                           /\ d # b => Tags(y, d) = Tags(z, d)
<1> DEFINE w == <<"flags", fs, LockCount(z, b)>>
           y == PutHi(z, b, w)
<1>1. y = SetFlags(z, b, fs) /\ b \in Addr
  BY SpacedCells DEF SetFlags
<1>2. y \in Rewrites(z) /\ y \in Zones
  BY <1>1, SetType, RewritesCompose
<1>3. /\ \A x : x # b => Cell(y, x) = Cell(z, x)
      /\ Cell(y, b).hi = w /\ Cell(y, b).lo = Cell(z, b).lo
      /\ y.freelists = z.freelists
  BY <1>1, PutHiCells
<1> HIDE DEF y
<1>4. ASSUME NEW d \in S PROVE d \in Addr /\ d + 1 # b /\ d + 2 # b
  BY StartsApart
<1>5. Flags(y, b) = fs /\ LockCount(y, b) = LockCount(z, b)
  BY <1>3 DEF Flags, LockCount, AsFlags, AsLockCount
<1>6. \A d \in S : /\ Size(y, d) = Size(z, d) /\ PrevSize(y, d) = PrevSize(z, d)
                   /\ MasterPtr(y, d) = MasterPtr(z, d)
  BY <1>3, <1>4 DEF Size, PrevSize, MasterPtr
<1>7. \A d \in S : Links(y, d) = Links(z, d)
  BY <1>3, <1>4 DEF Links, NextNode, PrevNode, HeaderSize
<1>8. \A d \in S : d # b => Tags(y, d) = Tags(z, d)
  BY <1>3, <1>6 DEF Tags, Flags, LockCount
<1>9. \A a : Cell(y, a).lo = Cell(z, a).lo
  BY <1>3
<1> QED
  BY <1>1, <1>2, <1>3, <1>5, <1>6, <1>7, <1>8, <1>9

\* SetMaster changes the master pointer of one block.
LEMMA SetMasterReads ==
    ASSUME NEW z \in Zones, NEW S, Spaced(S), NEW b \in S, NEW i \in Masters \cup {Null}
    PROVE  LET y == SetMaster(z, b, i) IN
           /\ y \in Rewrites(z) /\ y \in Zones /\ y.freelists = z.freelists
           /\ \A a : a # b + 1 => Cell(y, a) = Cell(z, a)
           /\ \A a : Cell(y, a).lo = Cell(z, a).lo
           /\ MasterPtr(y, b) = i
           /\ \A d \in S : /\ Size(y, d) = Size(z, d) /\ PrevSize(y, d) = PrevSize(z, d)
                           /\ Flags(y, d) = Flags(z, d) /\ LockCount(y, d) = LockCount(z, d)
                           /\ Links(y, d) = Links(z, d)
                           /\ d # b => Tags(y, d) = Tags(z, d)
<1> DEFINE w == IF i \in Masters THEN <<"master", i>> ELSE Zero
           y == PutHi(z, b + 1, w)
<1>1. y = SetMaster(z, b, i) /\ b \in Addr /\ b + 1 \in Addr /\ b \in Nat
  BY SpacedCells DEF SetMaster
<1>2. y \in Rewrites(z) /\ y \in Zones
  BY <1>1, SetType, RewritesCompose
<1>3. /\ \A x : x # b + 1 => Cell(y, x) = Cell(z, x)
      /\ Cell(y, b + 1).hi = w /\ Cell(y, b + 1).lo = Cell(z, b + 1).lo
      /\ y.freelists = z.freelists
  BY <1>1, PutHiCells
<1> HIDE DEF y
<1>4. ASSUME NEW d \in S
      PROVE  d \in Addr /\ d # b + 1 /\ d + 2 # b + 1 /\ (d # b => d + 1 # b + 1)
  BY StartsApart
<1>5. MasterPtr(y, b) = i
  BY <1>3, ConstantsType DEF MasterPtr, Zero
<1>6. \A d \in S : /\ Size(y, d) = Size(z, d) /\ PrevSize(y, d) = PrevSize(z, d)
                   /\ Flags(y, d) = Flags(z, d) /\ LockCount(y, d) = LockCount(z, d)
  BY <1>3, <1>4 DEF Size, PrevSize, Flags, LockCount
<1>7. \A d \in S : Links(y, d) = Links(z, d)
  BY <1>3, <1>4 DEF Links, NextNode, PrevNode, HeaderSize
<1>8. \A d \in S : d # b => Tags(y, d) = Tags(z, d)
  BY <1>3, <1>4, <1>6 DEF Tags, MasterPtr
<1>9. \A a : Cell(y, a).lo = Cell(z, a).lo
  BY <1>3
<1> QED
  BY <1>1, <1>2, <1>3, <1>5, <1>6, <1>7, <1>8, <1>9

\* A free block's header is made at b.
LEMMA FreeHeaderReads ==
    ASSUME NEW z \in Zones, NEW S, Spaced(S), NEW b \in S, NEW size \in Nat, NEW prev \in Nat
    PROVE  LET y == FreeHeader(z, b, size, prev) IN
           /\ y \in Rewrites(z) /\ y \in Zones /\ y.freelists = z.freelists
           /\ \A a : a \notin {b, b + 1} => Cell(y, a) = Cell(z, a)
           /\ Flags(y, b) = {"FREE"} /\ MasterPtr(y, b) = Null
           /\ \A d \in S : /\ Size(y, d) = IF d = b THEN size ELSE Size(z, d)
                           /\ PrevSize(y, d) = IF d = b THEN prev ELSE PrevSize(z, d)
                           /\ Links(y, d) = Links(z, d)
                           /\ d # b => Tags(y, d) = Tags(z, d)
<1> DEFINE x1 == SetSize(z, b, size)
           x2 == SetFlags(x1, b, {"FREE"})
           x3 == SetPrevSize(x2, b, prev)
           y == SetMaster(x3, b, Null)
<1>0. {"FREE"} \in SUBSET FlagNames
  BY DEF FlagNames
<1>1. /\ x1 \in Rewrites(z) /\ x1 \in Zones /\ x1.freelists = z.freelists
      /\ \A a : a # b => Cell(x1, a) = Cell(z, a)
      /\ \A d \in S : /\ Size(x1, d) = IF d = b THEN size ELSE Size(z, d)
                      /\ PrevSize(x1, d) = PrevSize(z, d)
                      /\ Tags(x1, d) = Tags(z, d) /\ Links(x1, d) = Links(z, d)
  BY SetSizeReads
<1> HIDE DEF x1
<1>2. /\ x2 \in Rewrites(x1) /\ x2 \in Zones /\ x2.freelists = x1.freelists
      /\ \A a : a # b => Cell(x2, a) = Cell(x1, a)
      /\ Flags(x2, b) = {"FREE"}
      /\ \A d \in S : /\ Size(x2, d) = Size(x1, d) /\ PrevSize(x2, d) = PrevSize(x1, d)
                      /\ Links(x2, d) = Links(x1, d)
                      /\ d # b => Tags(x2, d) = Tags(x1, d)
  BY <1>0, <1>1, SetFlagsReads
<1> HIDE DEF x2
<1>3. /\ x3 \in Rewrites(x2) /\ x3 \in Zones /\ x3.freelists = x2.freelists
      /\ \A a : a # b + 1 => Cell(x3, a) = Cell(x2, a)
      /\ \A d \in S : /\ PrevSize(x3, d) = IF d = b THEN prev ELSE PrevSize(x2, d)
                      /\ Size(x3, d) = Size(x2, d)
                      /\ Tags(x3, d) = Tags(x2, d) /\ Links(x3, d) = Links(x2, d)
  BY <1>2, SetPrevSizeReads
<1>4. Flags(x3, b) = {"FREE"}
  BY <1>2, <1>3 DEF Tags
<1> HIDE DEF x3
<1>5. /\ y \in Rewrites(x3) /\ y \in Zones /\ y.freelists = x3.freelists
      /\ \A a : a # b + 1 => Cell(y, a) = Cell(x3, a)
      /\ MasterPtr(y, b) = Null
      /\ \A d \in S : /\ Size(y, d) = Size(x3, d) /\ PrevSize(y, d) = PrevSize(x3, d)
                      /\ Flags(y, d) = Flags(x3, d)
                      /\ Links(y, d) = Links(x3, d)
                      /\ d # b => Tags(y, d) = Tags(x3, d)
  BY <1>3, SetMasterReads
<1> HIDE DEF y
<1>6. y \in Rewrites(z)
  BY <1>1, <1>2, <1>3, <1>5, RewritesCompose
<1>7. y.freelists = z.freelists /\ \A a : a \notin {b, b + 1} => Cell(y, a) = Cell(z, a)
  BY <1>1, <1>2, <1>3, <1>5
<1>8. \A d \in S : /\ Size(y, d) = IF d = b THEN size ELSE Size(z, d)
                   /\ PrevSize(y, d) = IF d = b THEN prev ELSE PrevSize(z, d)
                   /\ Links(y, d) = Links(z, d)
                   /\ d # b => Tags(y, d) = Tags(z, d)
  BY <1>1, <1>2, <1>3, <1>5
<1> QED
  BY <1>4, <1>5, <1>6, <1>7, <1>8 DEF y, x3, x2, x1, FreeHeader

-----------------------------------------------------------------------------
(* Splitting.                                                               *)

\* A block too small to leave a tail is taken whole.
Taken(z, b) == SetFlags(FreelistRemove(z, b), b, {})

\* A free block taken whole leaves the zone sound.
LEMMA TakenSound ==
    ASSUME NEW z \in Zones, NEW B, Sound(z, B), NEW b \in FreeOf(z, B)
    PROVE  LET y == Taken(z, b) IN
           /\ y \in Rewrites(z) /\ y \in Zones /\ Sound(y, B)
           /\ UsedOf(y, B) = UsedOf(z, B) \cup {b}
           /\ Size(y, b) = Size(z, b) /\ Flags(y, b) = {}
           /\ \A d \in UsedOf(z, B) : Kept(z, y, d)
<1> DEFINE F == FreeOf(z, B)
           x1 == FreelistRemove(z, b)
           y == SetFlags(x1, b, {})
<1>1. /\ Tiles(z, B) /\ Lists(z, F) /\ Apart(z, F) /\ F \subseteq B /\ b \in B /\ Spaced(B)
      /\ \A d \in B : d \in Nat /\ Size(z, d) \in Nat /\ Size(z, d) >= 3
      /\ {} \in SUBSET FlagNames /\ Spaced(F)
  <2>1. Tiles(z, B) /\ Lists(z, F) /\ Apart(z, F) /\ F \subseteq B /\ b \in B
    BY DEF Sound, FreeOf
  <2>2. /\ Spaced(B)
        /\ \A d \in B : d \in Nat /\ Size(z, d) \in Nat /\ Size(z, d) >= 3
    BY <2>1, TilesFit
  <2> QED
    BY <2>1, <2>2 DEF Spaced
<1>2. Relinks(z, x1, F) /\ Lists(x1, F \ {b}) /\ x1 \in Zones /\ x1 \in Rewrites(z)
  <2>1. Relinks(z, x1, F) /\ Lists(x1, F \ {b})
    BY <1>1, RemoveSound
  <2> QED
    BY <2>1, RewritesCompose DEF Relinks
<1> HIDE DEF x1
<1>3. \A d \in B : /\ Size(x1, d) = Size(z, d) /\ PrevSize(x1, d) = PrevSize(z, d)
                   /\ Tags(x1, d) = Tags(z, d)
  <2> HIDE DEF F
  <2> QED
    BY <1>1, <1>2, RelinksMore
<1>4. /\ y \in Rewrites(x1) /\ y \in Zones /\ y.freelists = x1.freelists
      /\ \A a : a # b => Cell(y, a) = Cell(x1, a)
      /\ Flags(y, b) = {}
      /\ \A d \in B : /\ Size(y, d) = Size(x1, d) /\ PrevSize(y, d) = PrevSize(x1, d)
                      /\ Links(y, d) = Links(x1, d)
                      /\ d # b => Tags(y, d) = Tags(x1, d)
  BY <1>1, <1>2, SetFlagsReads
<1> HIDE DEF y
<1>5. \A d \in B : /\ Size(y, d) = Size(z, d) /\ PrevSize(y, d) = PrevSize(z, d)
                   /\ d # b => Flags(y, d) = Flags(z, d)
  BY <1>3, <1>4 DEF Tags
<1>6. FreeOf(y, B) = F \ {b}
  BY <1>1, <1>4, <1>5 DEF FreeOf
<1>7. Tiles(y, B)
  BY <1>1, <1>5, TilesSame
<1>8. Lists(y, F \ {b})
  <2>1. \A d \in F \ {b} : Size(y, d) = Size(x1, d) /\ Links(y, d) = Links(x1, d)
    BY <1>1, <1>4
  <2> HIDE DEF F
  <2> QED
    BY <1>2, <1>4, <2>1, ListsKept
<1>9. Apart(y, F \ {b})
  BY <1>1, <1>5 DEF Apart
<1>10. Writes(z, y, B, F)
  <2> SUFFICES ASSUME NEW a
               PROVE  \/ Cell(y, a) = Cell(z, a)
                      \/ \E e \in F : a \in e .. e + Size(z, e) - 1
    BY DEF Writes
  <2>1. CASE a \in LinkCells(F)
    <3>1. PICK e \in F : a = e + 2
      BY <2>1 DEF LinkCells
    <3>2. a \in e .. e + Size(z, e) - 1
      BY <1>1, <3>1
    <3> QED
      BY <3>2
  <2>2. CASE a = b
    <3>1. a \in b .. b + Size(z, b) - 1
      BY <1>1, <2>2
    <3> QED
      BY <3>1
  <2>3. CASE a \notin LinkCells(F) /\ a # b
    BY <1>2, <1>4, <2>3 DEF Relinks
  <2> QED
    BY <2>1, <2>2, <2>3
<1>11. \A d \in B \ F : Kept(z, y, d)
  <2> HIDE DEF F
  <2> QED
    BY <1>1, <1>10, WritesKeep
<1>12. y \in Rewrites(z)
  BY <1>2, <1>4, RewritesCompose
<1>13. UsedOf(y, B) = UsedOf(z, B) \cup {b}
  BY <1>1, <1>6 DEF UsedOf
<1> QED
  BY <1>1, <1>4, <1>5, <1>6, <1>7, <1>8, <1>9, <1>11, <1>12, <1>13
     DEF Sound, UsedOf, Taken, y, x1

\* What is left of b behind need becomes a block of its own, before it is listed.
TailMade(z, b, need) ==
    TellNext(FreeHeader(FreelistRemove(z, b), b + need, Size(z, b) - need, need), b + need)
Cut(z, b, need) == SetFlags(SetSize(TailMade(z, b, need), b, need), b, {})

\* A free block that is cut leaves its tail loose.
LEMMA CutSound ==
    ASSUME NEW z \in Zones, NEW B, Sound(z, B), NEW b \in FreeOf(z, B),
           NEW need \in Nat, need >= 3, Size(z, b) - need >= 3
    PROVE  LET y == Cut(z, b, need)
               t == b + need IN
           /\ y \in Rewrites(z) /\ y \in Zones
           /\ t \notin B /\ Loose(y, B \cup {t}, FreeOf(z, B) \ {b}, t)
           /\ t + Size(y, t) \notin FreeOf(z, B) \ {b}
           /\ \A d \in FreeOf(z, B) \ {b} : d + Size(y, d) # t
           /\ Size(y, t) = Size(z, b) - need
           /\ Size(y, b) = need /\ Flags(y, b) = {}
           /\ \A d \in UsedOf(z, B) : Kept(z, y, d)
<1> DEFINE F == FreeOf(z, B)
           t == b + need
           rest == Size(z, b) - need
           after == b + Size(z, b)
           T == B \cup {t}
           x1 == FreelistRemove(z, b)
           x2 == FreeHeader(x1, t, rest, need)
           x3 == TellNext(x2, t)
           x4 == SetSize(x3, b, need)
           y == SetFlags(x4, b, {})
<1>1. /\ Tiles(z, B) /\ Lists(z, F) /\ Apart(z, F) /\ F \subseteq B /\ b \in B
      /\ Spaced(B) /\ Spaced(F) /\ {} \in SUBSET FlagNames
      /\ \A d \in B : d \in Nat /\ Size(z, d) \in Nat /\ Size(z, d) >= 3
      /\ \A d, e \in B : d # e => d + Size(z, d) <= e \/ e + Size(z, e) <= d
      /\ \A d \in B : d + Size(z, d) <= ZoneSize
      /\ ZoneSize \in Nat /\ ZoneSize \notin B
  <2>1. Tiles(z, B) /\ Lists(z, F) /\ Apart(z, F) /\ F \subseteq B /\ b \in B
    BY DEF Sound, FreeOf
  <2>2. /\ Spaced(B)
        /\ \A d \in B : d \in Nat /\ Size(z, d) \in Nat /\ Size(z, d) >= 3
        /\ \A d, e \in B : d # e => d + Size(z, d) <= e \/ e + Size(z, e) <= d
        /\ \A d \in B : d + Size(z, d) <= ZoneSize
        /\ ZoneSize \in Nat /\ ZoneSize \notin B
    BY <2>1, TilesFit
  <2> QED
    BY <2>1, <2>2 DEF Spaced
<1>2. /\ t \in Nat /\ rest \in Nat /\ rest >= 3 /\ after = t + rest /\ t # b /\ after # t
      /\ after \in B \cup {ZoneSize} /\ after # b
  BY <1>1 DEF Tiles
<1>3. t \notin B /\ Spaced(T)
  <2>1. \A d \in B \ {b} : d + 3 <= b \/ after <= d
    BY <1>1
  <2>2. b \in Nat /\ after <= ZoneSize /\ after \in Nat
    BY <1>1, <1>2
  <2> HIDE DEF after, rest, F
  <2>3. \A d \in B : (d < t => d + 3 <= t) /\ (t < d => t + 3 <= d) /\ d # t
    <3> SUFFICES ASSUME NEW d \in B
                 PROVE  (d < t => d + 3 <= t) /\ (t < d => t + 3 <= d) /\ d # t
      OBVIOUS
    <3>1. CASE d = b
      BY <1>2, <2>2, <3>1
    <3>2. CASE d # b
      <4>1. d \in Nat /\ (d + 3 <= b \/ after <= d)
        BY <1>1, <2>1, <3>2
      <4> QED
        BY <1>2, <2>2, <4>1
    <3> QED
      BY <3>1, <3>2
  <2>4. t + 2 < ZoneSize
    BY <1>1, <1>2, <2>2
  <2> QED
    BY <1>1, <1>2, <2>3, <2>4 DEF Spaced
<1>4. Relinks(z, x1, F) /\ Lists(x1, F \ {b}) /\ x1 \in Zones /\ x1 \in Rewrites(z)
  <2>1. Relinks(z, x1, F) /\ Lists(x1, F \ {b})
    BY <1>1, RemoveSound
  <2> QED
    BY <2>1, RewritesCompose DEF Relinks
<1> HIDE DEF x1
<1>5. \A d \in B : /\ Size(x1, d) = Size(z, d) /\ PrevSize(x1, d) = PrevSize(z, d)
                   /\ Tags(x1, d) = Tags(z, d)
  <2> HIDE DEF F
  <2> QED
    BY <1>1, <1>4, RelinksMore
<1>6. /\ x2 \in Rewrites(x1) /\ x2 \in Zones /\ x2.freelists = x1.freelists
      /\ \A a : a \notin {t, t + 1} => Cell(x2, a) = Cell(x1, a)
      /\ \A d \in T : /\ Size(x2, d) = IF d = t THEN rest ELSE Size(x1, d)
                      /\ PrevSize(x2, d) = IF d = t THEN need ELSE PrevSize(x1, d)
                      /\ Links(x2, d) = Links(x1, d)
                      /\ d # t => Tags(x2, d) = Tags(x1, d)
  <2>1. Spaced(T) /\ t \in T /\ rest \in Nat
    BY <1>2, <1>3
  <2> HIDE DEF T, t, rest
  <2> QED
    BY <1>4, <2>1, FreeHeaderReads
<1> HIDE DEF x2
<1>7. /\ x3 \in Rewrites(x2) /\ x3 \in Zones /\ x3.freelists = x2.freelists
      /\ \A a : ~(after \in T /\ a = after + 1) => Cell(x3, a) = Cell(x2, a)
      /\ \A a : Cell(x3, a).hi = Cell(x2, a).hi
      /\ \A d \in T : /\ PrevSize(x3, d) = IF d = after THEN rest ELSE PrevSize(x2, d)
                      /\ Size(x3, d) = Size(x2, d)
                      /\ Tags(x3, d) = Tags(x2, d) /\ Links(x3, d) = Links(x2, d)
  <2>1. Size(x2, t) = rest /\ after = t + Size(x2, t)
    BY <1>2, <1>6
  <2>2. after \in T \cup {ZoneSize} /\ (after \in T => after # ZoneSize) /\ Spaced(T)
    BY <1>1, <1>2, <1>3
  <2> HIDE DEF T, t, rest, after
  <2> QED
    BY <1>6, <2>1, <2>2, TellReads
<1> HIDE DEF x3
<1>8. /\ x4 \in Rewrites(x3) /\ x4 \in Zones /\ x4.freelists = x3.freelists
      /\ \A a : a # b => Cell(x4, a) = Cell(x3, a)
      /\ \A d \in T : /\ Size(x4, d) = IF d = b THEN need ELSE Size(x3, d)
                      /\ PrevSize(x4, d) = PrevSize(x3, d)
                      /\ Tags(x4, d) = Tags(x3, d) /\ Links(x4, d) = Links(x3, d)
  <2>1. Spaced(T) /\ b \in T
    BY <1>1, <1>3
  <2> HIDE DEF T
  <2> QED
    BY <1>7, <2>1, SetSizeReads
<1> HIDE DEF x4
<1>9. /\ y \in Rewrites(x4) /\ y \in Zones /\ y.freelists = x4.freelists
      /\ \A a : a # b => Cell(y, a) = Cell(x4, a)
      /\ Flags(y, b) = {}
      /\ \A d \in T : /\ Size(y, d) = Size(x4, d) /\ PrevSize(y, d) = PrevSize(x4, d)
                      /\ Links(y, d) = Links(x4, d)
                      /\ d # b => Tags(y, d) = Tags(x4, d)
  <2>1. Spaced(T) /\ b \in T
    BY <1>1, <1>3
  <2> HIDE DEF T
  <2> QED
    BY <1>1, <1>8, <2>1, SetFlagsReads
<1> HIDE DEF y
<1>10. y \in Rewrites(z)
  BY <1>4, <1>6, <1>7, <1>8, <1>9, RewritesCompose
<1>11. \A d \in T : /\ Size(y, d) = IF d = b THEN need ELSE IF d = t THEN rest ELSE Size(z, d)
                    /\ PrevSize(y, d) = IF d = t THEN need ELSE IF d = after THEN rest
                                        ELSE PrevSize(z, d)
  <2> SUFFICES ASSUME NEW d \in T
               PROVE  /\ Size(y, d) = IF d = b THEN need ELSE IF d = t THEN rest ELSE Size(z, d)
                      /\ PrevSize(y, d) = IF d = t THEN need ELSE IF d = after THEN rest
                                          ELSE PrevSize(z, d)
    OBVIOUS
  <2>1. /\ Size(y, d) = IF d = b THEN need ELSE Size(x2, d)
        /\ PrevSize(y, d) = IF d = after THEN rest ELSE PrevSize(x2, d)
    BY <1>7, <1>8, <1>9
  <2>2. CASE d = t
    BY <1>2, <1>6, <2>1, <2>2
  <2>3. CASE d # t
    BY <1>5, <1>6, <2>1, <2>3
  <2> QED
    BY <2>2, <2>3
<1>12. Tiles(y, T)
  <2>1. Halved(z, y, B, b, need)
    BY <1>11 DEF Halved
  <2> HIDE DEF F
  <2> QED
    BY <1>1, <1>9, <2>1, TilesSplit
<1>13. \A d \in B \ {b} : Size(y, d) = Size(z, d) /\ Flags(y, d) = Flags(z, d)
  <2> SUFFICES ASSUME NEW d \in B \ {b}
               PROVE  Size(y, d) = Size(z, d) /\ Flags(y, d) = Flags(z, d)
    OBVIOUS
  <2>1. d # t /\ d \in T
    BY <1>3
  <2>2. Tags(y, d) = Tags(z, d)
    BY <1>5, <1>6, <1>7, <1>8, <1>9, <2>1
  <2> QED
    BY <1>11, <2>1, <2>2 DEF Tags
<1>14. Lists(y, F \ {b})
  <2>1. \A d \in F \ {b} : Size(y, d) = Size(x1, d) /\ Links(y, d) = Links(x1, d)
    BY <1>1, <1>3, <1>6, <1>7, <1>8, <1>9
  <2>2. y.freelists = x1.freelists
    BY <1>6, <1>7, <1>8, <1>9
  <2> HIDE DEF F
  <2> QED
    BY <1>4, <2>1, <2>2, ListsKept
<1>15. Apart(y, F \ {b})
  BY <1>1, <1>13 DEF Apart
<1>16. \A d \in T : d # t => (d \in F \ {b} <=> "FREE" \in Flags(y, d))
  <2> SUFFICES ASSUME NEW d \in B PROVE d \in F \ {b} <=> "FREE" \in Flags(y, d)
    OBVIOUS
  <2>1. CASE d = b
    BY <1>9, <2>1
  <2>2. CASE d # b
    BY <1>13, <2>2 DEF FreeOf
  <2> QED
    BY <2>1, <2>2
<1>17. Loose(y, T, F \ {b}, t)
  BY <1>1, <1>3, <1>12, <1>14, <1>15, <1>16 DEF Loose
<1>18. Size(y, t) = rest /\ Size(y, b) = need /\ t + Size(y, t) = after
  BY <1>1, <1>2, <1>11
<1>19. after \notin F \ {b} /\ \A d \in F \ {b} : d + Size(y, d) # t
  <2>1. after \notin F
    BY DEF Apart, Sound
  <2>2. ASSUME NEW d \in F \ {b} PROVE d + Size(y, d) # t
    <3>1. d + Size(z, d) \in B \cup {ZoneSize} /\ Size(y, d) = Size(z, d)
      BY <1>1, <1>13 DEF Tiles
    <3>2. t # ZoneSize
      BY <1>1, <1>2
    <3> QED
      BY <1>3, <3>1, <3>2
  <2> QED
    BY <2>1, <2>2
<1>20. Writes(z, y, B, F)
  <2> SUFFICES ASSUME NEW a
               PROVE  \/ Cell(y, a) = Cell(z, a)
                      \/ \E e \in F : a \in e .. e + Size(z, e) - 1
                      \/ Cell(y, a).hi = Cell(z, a).hi /\ \E e \in B : a = e + 1
    BY DEF Writes
  <2>1. CASE a \in LinkCells(F)
    <3>1. PICK e \in F : a = e + 2
      BY <2>1 DEF LinkCells
    <3>2. a \in e .. e + Size(z, e) - 1
      BY <1>1, <3>1
    <3> QED
      BY <3>2
  <2>2. CASE a \in {b, t, t + 1}
    <3>1. a \in b .. b + Size(z, b) - 1
      BY <1>1, <1>2, <2>2
    <3> QED
      BY <3>1
  <2>3. CASE a \notin LinkCells(F) /\ a \notin {b, t, t + 1}
    <3>1. Cell(x2, a) = Cell(z, a) /\ Cell(y, a) = Cell(x3, a)
      BY <1>4, <1>6, <1>8, <1>9, <2>3 DEF Relinks
    <3>2. CASE after \in T /\ a = after + 1
      <4>1. after \in B
        BY <1>2, <3>2
      <4> QED
        BY <1>7, <3>1, <3>2, <4>1
    <3>3. CASE ~(after \in T /\ a = after + 1)
      BY <1>7, <3>1, <3>3
    <3> QED
      BY <3>2, <3>3
  <2> QED
    BY <2>1, <2>2, <2>3
<1>21. \A d \in B \ F : Kept(z, y, d)
  <2> HIDE DEF F
  <2> QED
    BY <1>1, <1>20, WritesKeep
<1>22. y = Cut(z, b, need)
  BY DEF y, x4, x3, x2, x1, Cut, TailMade
<1> QED
  BY <1>3, <1>9, <1>10, <1>17, <1>18, <1>19, <1>21, <1>22 DEF UsedOf

\* split_block takes what is needed of a free block and lists the rest.
LEMMA SplitSound ==
    ASSUME NEW z \in Zones, NEW B, Sound(z, B), NEW b \in FreeOf(z, B),
           NEW need \in Nat, need >= 3, need <= Size(z, b)
    PROVE  LET y == SplitBlock(z, b, need) IN
           /\ y \in Rewrites(z) /\ y \in Zones
           /\ \E B2 : /\ Sound(y, B2) /\ b \in B2
                      /\ UsedOf(y, B2) = UsedOf(z, B) \cup {b}
           /\ Size(y, b) >= need /\ Flags(y, b) = {}
           /\ \A d \in UsedOf(z, B) : Kept(z, y, d)
<1>1. ValidateBlock(z, b) /\ b \in B /\ Size(z, b) \in Nat
  BY SoundIsValid, Reads DEF FreeOf
<1>2. CASE ~(Size(z, b) - need >= MinBlockSize)
  <2>1. SplitBlock(z, b, need) = Taken(z, b)
    BY <1>1, <1>2 DEF SplitBlock, Taken
  <2> QED
    BY <1>1, <2>1, TakenSound
<1>3. CASE Size(z, b) - need >= MinBlockSize
  <2>2. Size(z, b) - need >= 3
    BY <1>3 DEF MinBlockSize
  <2>0. /\ Cut(z, b, need) \in Rewrites(z) /\ Cut(z, b, need) \in Zones
        /\ b + need \notin B
        /\ Loose(Cut(z, b, need), B \cup {b + need}, FreeOf(z, B) \ {b}, b + need)
        /\ b + need + Size(Cut(z, b, need), b + need) \notin FreeOf(z, B) \ {b}
        /\ \A d \in FreeOf(z, B) \ {b} : d + Size(Cut(z, b, need), d) # b + need
        /\ Size(Cut(z, b, need), b) = need /\ Flags(Cut(z, b, need), b) = {}
        /\ \A d \in UsedOf(z, B) : Kept(z, Cut(z, b, need), d)
    <3>1. LET y == Cut(z, b, need)
              t == b + need IN
          /\ y \in Rewrites(z) /\ y \in Zones
          /\ t \notin B /\ Loose(y, B \cup {t}, FreeOf(z, B) \ {b}, t)
          /\ t + Size(y, t) \notin FreeOf(z, B) \ {b}
          /\ \A d \in FreeOf(z, B) \ {b} : d + Size(y, d) # t
          /\ Size(y, t) = Size(z, b) - need
          /\ Size(y, b) = need /\ Flags(y, b) = {}
          /\ \A d \in UsedOf(z, B) : Kept(z, y, d)
      BY <2>2, CutSound
    <3> QED
      BY <3>1
  <2> DEFINE t == b + need
             F == FreeOf(z, B) \ {b}
             x == Cut(z, b, need)
             y == FreelistInsert(x, t)
  <2>1. SplitBlock(z, b, need) = y
    BY <1>1, <1>3, Zenon DEF SplitBlock, Cut, TailMade
  <2>3. /\ x \in Rewrites(z) /\ x \in Zones
        /\ t \notin B /\ Loose(x, B \cup {t}, F, t)
        /\ t + Size(x, t) \notin F
        /\ \A d \in F : d + Size(x, d) # t
        /\ Size(x, b) = need /\ Flags(x, b) = {}
        /\ \A d \in UsedOf(z, B) : Kept(z, x, d)
    BY <2>0
  <2> HIDE DEF x, F
  <2>4. /\ y \in Rewrites(x) /\ y \in Zones /\ Sound(y, B \cup {t})
        /\ FreeOf(y, B \cup {t}) = F \cup {t}
        /\ \A d \in ((B \cup {t}) \ F) \ {t} : Kept(x, y, d)
    <3>1. t \in B \cup {t}
      OBVIOUS
    <3> HIDE DEF t
    <3> QED
      BY <2>3, <3>1, InsertLoose
  <2> HIDE DEF y
  <2>5. UsedOf(y, B \cup {t}) = UsedOf(z, B) \cup {b}
    BY <1>1, <2>3, <2>4 DEF UsedOf, F
  <2>6. Kept(x, y, b)
    BY <1>1, <2>3, <2>4 DEF F
  <2>7. Size(y, b) = need /\ Flags(y, b) = {}
    BY <2>3, <2>6, KeptReads
  <2>8. ASSUME NEW d \in UsedOf(z, B) PROVE Kept(z, y, d)
    <3>1. Kept(x, y, d)
      BY <2>3, <2>4, <2>8 DEF UsedOf, F
    <3> QED
      BY <2>3, <3>1, KeptCompose
  <2>9. y \in Rewrites(z)
    BY <2>3, <2>4, RewritesCompose
  <2>10. \E B2 : Sound(y, B2) /\ b \in B2 /\ UsedOf(y, B2) = UsedOf(z, B) \cup {b}
    BY <1>1, <2>4, <2>5
  <2>11. Size(y, b) >= need
    BY <2>7
  <2> HIDE DEF t
  <2> QED
    BY <2>1, <2>4, <2>7, <2>8, <2>9, <2>10, <2>11
<1> QED
  BY <1>2, <1>3

-----------------------------------------------------------------------------
(* Making a free block where one is.                                        *)

\* It is listed again: nothing changes if it is the only one of its class.
LEMMA ListedAgain ==
    ASSUME NEW z \in Zones, NEW F, Spaced(F), Lists(z, F), NEW b \in F,
           Size(z, b) >= MinBlockSize,
           z.freelists[SizeClass(Size(z, b))] = b, NextNode(z, b) = b
    PROVE  LET y == FreelistInsert(z, b) IN
           /\ y \in Rewrites(z) /\ y \in Zones /\ Lists(y, F)
           /\ \A a : a \notin LinkCells(F) \cup {b} => Cell(y, a) = Cell(z, a)
           /\ Size(y, b) = Size(z, b) /\ Flags(y, b) = {"FREE"}
<1> DEFINE c == SizeClass(Size(z, b))
           flagged == SetFlags(z, b, {"FREE"})
           cleared == SetLinks(flagged, b, Null, Null)
           x1 == SetNext(cleared, b, b)
           x2 == SetPrev(x1, b, Null)
           x3 == SetHead(x2, c, b)
           y == SetPrev(x3, b, b)
<1>0. /\ c \in Classes /\ b \in Addr /\ IsValidFreenode(b) /\ {"FREE"} \in SUBSET FlagNames
      /\ b # Null /\ Null \notin Addr
  BY ClassIs, SpacedCells, ConstantsType DEF FlagNames
<1>1. /\ flagged \in Rewrites(z) /\ flagged \in Zones /\ flagged.freelists = z.freelists
      /\ \A a : a # b => Cell(flagged, a) = Cell(z, a)
      /\ Flags(flagged, b) = {"FREE"}
      /\ \A d \in F : Size(flagged, d) = Size(z, d) /\ Links(flagged, d) = Links(z, d)
  BY <1>0, SetFlagsReads
<1> HIDE DEF flagged
<1>2. /\ Relinks(flagged, cleared, F) /\ cleared \in Zones /\ cleared.freelists = flagged.freelists
      /\ \A d \in F : /\ NextNode(cleared, d) = IF d = b THEN Null ELSE NextNode(flagged, d)
                      /\ PrevNode(cleared, d) = IF d = b THEN Null ELSE PrevNode(flagged, d)
  <2>1. flagged \in Zones /\ Spaced(F) /\ b \in F /\ Null \in Addr \cup {Null}
    BY <1>1
  <2> QED
    BY ONLY <2>1, SetLinksReads
<1> HIDE DEF cleared
<1>3. /\ Relinks(cleared, x1, F) /\ x1 \in Zones /\ x1.freelists = cleared.freelists
      /\ \A d \in F : /\ NextNode(x1, d) = IF d = b THEN b ELSE NextNode(cleared, d)
                      /\ PrevNode(x1, d) = PrevNode(cleared, d)
  BY <1>0, <1>2, SetNextReads
<1> HIDE DEF x1
<1>4. /\ Relinks(x1, x2, F) /\ x2 \in Zones /\ x2.freelists = x1.freelists
      /\ \A d \in F : /\ PrevNode(x2, d) = IF d = b THEN Null ELSE PrevNode(x1, d)
                      /\ NextNode(x2, d) = NextNode(x1, d)
  BY <1>3, SetPrevReads
<1> HIDE DEF x2
<1>5. /\ x3 \in Zones /\ Relinks(x2, x3, F)
      /\ \A d : NextNode(x3, d) = NextNode(x2, d) /\ PrevNode(x3, d) = PrevNode(x2, d)
      /\ \A k \in Classes : x3.freelists[k] = IF k = c THEN b ELSE x2.freelists[k]
  BY <1>0, <1>4, HeadReads
<1> HIDE DEF x3
<1>6. /\ Relinks(x3, y, F) /\ y \in Zones /\ y.freelists = x3.freelists
      /\ \A d \in F : /\ PrevNode(y, d) = IF d = b THEN b ELSE PrevNode(x3, d)
                      /\ NextNode(y, d) = NextNode(x3, d)
  BY <1>0, <1>5, SetPrevReads
<1> HIDE DEF y
<1>7. y = FreelistInsert(z, b)
  <2>1. ~(Size(z, b) < MinBlockSize)
    BY Reads DEF MinBlockSize
  <2>2. cleared = SetLinks(SetFlags(z, b, {"FREE"}), b, Null, Null)
    BY DEF cleared, flagged
  <2>3. PrevNode(x1, b) = Null /\ PrevNode(x3, b) = Null
    BY <1>2, <1>3, <1>4, <1>5
  <2>4. /\ b = z.freelists[c] /\ x1 = SetNext(cleared, b, b)
        /\ x2 = SetPrev(x1, b, PrevNode(x1, b)) /\ x3 = SetHead(x2, c, b)
        /\ x3 = SetNext(x3, PrevNode(x3, b), b)
    BY <1>0, <2>3 DEF x1, x2, x3, SetNext
  <2>5. FreelistInsert(z, b) = IF b = Null \/ ~IsValidFreenode(b)
                               THEN SetLinks(SetHead(cleared, c, b), b, b, b)
                               ELSE SetPrev(x3, b, b)
    BY <1>0, <2>1, <2>2, <2>4, InsertIs
  <2> QED
    BY <1>0, <2>5 DEF y
<1>8. Relinks(flagged, y, F)
  BY <1>1, <1>2, <1>3, <1>4, <1>5, <1>6, RelinksCompose
<1>9. \A d \in F : Size(y, d) = Size(z, d) /\ Flags(y, d) = Flags(flagged, d)
  BY <1>1, <1>8, RelinksHeaders
<1>10. Lists(y, F)
  <2>1. Cycle(z, ClassOf(z, F, c))
    BY <1>0 DEF Lists
  <2>2. b \in ClassOf(z, F, c)
    BY DEF ClassOf
  <2>3. PrevNode(z, b) = b
    BY <2>1, <2>2 DEF Cycle
  <2>4. \A d \in F : /\ NextNode(y, d) = IF d = b THEN b ELSE NextNode(flagged, d)
                     /\ PrevNode(y, d) = IF d = b THEN b ELSE PrevNode(flagged, d)
    BY <1>2, <1>3, <1>4, <1>5, <1>6
  <2>5. \A d \in F : Links(y, d) = Links(z, d)
    BY <1>1, <2>3, <2>4 DEF Links
  <2>6. \A k \in Classes : y.freelists[k] = z.freelists[k]
    BY <1>1, <1>2, <1>3, <1>4, <1>5, <1>6
  <2>7. y.freelists = z.freelists
    BY <1>6, <2>6 DEF Zones
  <2> QED
    BY <1>9, <2>5, <2>7, ListsKept
<1>11. y \in Rewrites(z)
  BY <1>1, <1>8, RewritesCompose DEF Relinks
<1>12. \A a : a \notin LinkCells(F) \cup {b} => Cell(y, a) = Cell(z, a)
  BY <1>1, <1>8 DEF Relinks
<1> QED
  BY <1>1, <1>6, <1>7, <1>9, <1>10, <1>11, <1>12

\* The same header is made and listed: the heap is as it was.
LEMMA MadeAgain ==
    ASSUME NEW z \in Zones, NEW B, Sound(z, B), NEW b \in FreeOf(z, B),
           z.freelists[SizeClass(Size(z, b))] = b, NextNode(z, b) = b
    PROVE  LET y == FreelistInsert(FreeHeader(z, b, Size(z, b), PrevSize(z, b)), b) IN
           /\ y \in Rewrites(z) /\ y \in Zones
           /\ Sound(y, B) /\ FreeOf(y, B) = FreeOf(z, B)
           /\ \A d \in B : Size(y, d) = Size(z, d) /\ PrevSize(y, d) = PrevSize(z, d)
           /\ \A d \in UsedOf(z, B) : Kept(z, y, d)
<1> DEFINE F == FreeOf(z, B)
           x == FreeHeader(z, b, Size(z, b), PrevSize(z, b))
           y == FreelistInsert(x, b)
<1>1. /\ Tiles(z, B) /\ Lists(z, F) /\ Apart(z, F) /\ F \subseteq B /\ b \in B
      /\ Spaced(B) /\ Spaced(F)
      /\ \A d \in B : d \in Nat /\ Size(z, d) \in Nat /\ Size(z, d) >= 3
      /\ PrevSize(z, b) \in Nat
  <2>1. Tiles(z, B) /\ Lists(z, F) /\ Apart(z, F) /\ F \subseteq B /\ b \in B
    BY DEF Sound, FreeOf
  <2>2. /\ Spaced(B)
        /\ \A d \in B : d \in Nat /\ Size(z, d) \in Nat /\ Size(z, d) >= 3
    BY <2>1, TilesFit
  <2> QED
    BY <2>1, <2>2, Reads DEF Spaced
<1>2. /\ x \in Rewrites(z) /\ x \in Zones /\ x.freelists = z.freelists
      /\ \A a : a \notin {b, b + 1} => Cell(x, a) = Cell(z, a)
      /\ Flags(x, b) = {"FREE"}
      /\ \A d \in B : /\ Size(x, d) = Size(z, d) /\ PrevSize(x, d) = PrevSize(z, d)
                      /\ Links(x, d) = Links(z, d)
                      /\ d # b => Tags(x, d) = Tags(z, d)
  <2>1. Spaced(B) /\ b \in B /\ Size(z, b) \in Nat /\ PrevSize(z, b) \in Nat
    BY <1>1
  <2> HIDE DEF F
  <2> QED
    BY <2>1, FreeHeaderReads
<1> HIDE DEF x
<1>3. Lists(x, F)
  <2>1. \A d \in F : Size(x, d) = Size(z, d) /\ Links(x, d) = Links(z, d)
    BY <1>1, <1>2
  <2> HIDE DEF F
  <2> QED
    BY <1>1, <1>2, <2>1, ListsKept
<1>4. /\ y \in Rewrites(x) /\ y \in Zones /\ Lists(y, F)
      /\ \A a : a \notin LinkCells(F) \cup {b} => Cell(y, a) = Cell(x, a)
      /\ Size(y, b) = Size(x, b) /\ Flags(y, b) = {"FREE"}
  <2>1. /\ Size(x, b) = Size(z, b) /\ Size(x, b) >= MinBlockSize
        /\ x.freelists[SizeClass(Size(x, b))] = b
    BY <1>1, <1>2 DEF MinBlockSize
  <2>2. NextNode(x, b) = b
    BY <1>1, <1>2 DEF Links
  <2> HIDE DEF F
  <2>3. b \in F
    BY DEF F
  <2> QED
    BY <1>1, <1>2, <1>3, <2>1, <2>2, <2>3, ListedAgain
<1> HIDE DEF y
<1>5. ASSUME NEW d \in B
      PROVE  /\ d # b => Cell(y, d) = Cell(x, d)
             /\ Cell(y, d + 1) = Cell(x, d + 1)
  <2>1. d \notin LinkCells(F) /\ d + 1 \notin LinkCells(F) /\ d + 1 # b
    <3>1. \A e \in F : d # e + 2 /\ d + 1 # e + 2
      <4>1. ASSUME NEW e \in F PROVE d # e + 2 /\ d + 1 # e + 2
        <5>1. e \in B
          BY <1>1
        <5> HIDE DEF F
        <5> QED
          BY <1>1, <5>1, LinksApart
      <4> QED
        BY <4>1
    <3>2. d + 1 # b
      BY <1>1, StartsApart
    <3> QED
      BY <3>1, <3>2 DEF LinkCells
  <2> QED
    BY <1>4, <2>1
<1>6. \A d \in B : Size(y, d) = Size(z, d) /\ PrevSize(y, d) = PrevSize(z, d)
  <2>1. \A d \in B : d # b => Size(y, d) = Size(x, d)
    BY <1>5 DEF Size
  <2>2. \A d \in B : PrevSize(y, d) = PrevSize(x, d)
    BY <1>5 DEF PrevSize
  <2> QED
    BY <1>2, <1>4, <2>1, <2>2
<1>7. \A d \in B : d # b => Flags(y, d) = Flags(z, d)
  <2>1. \A d \in B : d # b => Flags(y, d) = Flags(x, d)
    BY <1>5 DEF Flags
  <2> QED
    BY <1>2, <2>1 DEF Tags
<1>8. Tiles(y, B)
  BY <1>1, <1>6, TilesSame
<1>9. FreeOf(y, B) = F
  BY <1>1, <1>4, <1>7 DEF FreeOf
<1>10. Apart(y, F)
  BY <1>1, <1>4, <1>6, <1>7 DEF Apart
<1>11. \A d \in B \ F : Kept(z, y, d)
  <2>1. Writes(z, y, B, F)
    <3> SUFFICES ASSUME NEW a, ~(Cell(y, a) = Cell(z, a))
                 PROVE  \E e \in F : a \in e .. e + Size(z, e) - 1
      BY DEF Writes
    <3>1. PICK e \in F : a = e + 2 \/ a = e \/ a = e + 1
      BY <1>2, <1>4 DEF LinkCells
    <3>2. e \in Nat /\ Size(z, e) \in Nat /\ Size(z, e) >= 3
      BY <1>1
    <3>3. a \in e .. e + Size(z, e) - 1
      BY <3>1, <3>2
    <3> QED
      BY <3>3
  <2> HIDE DEF F
  <2> QED
    BY <1>1, <2>1, WritesKeep
<1>12. y \in Rewrites(z)
  BY <1>2, <1>4, RewritesCompose
<1>13. Sound(y, B)
  BY <1>4, <1>8, <1>9, <1>10 DEF Sound
<1> QED
  BY <1>4, <1>6, <1>9, <1>11, <1>12, <1>13 DEF y, x, UsedOf

-----------------------------------------------------------------------------
(* Writes inside a block that is in use: to the flags and the lock count,   *)
(* to the master pointer, and behind the header.                            *)

Inside(z, y, b) ==
    /\ y \in Zones /\ y.freelists = z.freelists
    /\ \A a : \/ Cell(y, a) = Cell(z, a)
              \/ a \in {b, b + 1} /\ Cell(y, a).lo = Cell(z, a).lo
              \/ a \in b + 2 .. b + Size(z, b) - 1

\* Two writes inside a block are a write inside it.
LEMMA InsideCompose ==
    ASSUME NEW z \in Zones, NEW b \in Nat
    PROVE  /\ Inside(z, z, b)
           /\ \A x, y : Inside(z, x, b) /\ Inside(x, y, b) => Inside(z, y, b)
           /\ \A x : Inside(z, x, b) => x \in Zones /\ Size(x, b) = Size(z, b)
<1>1. Inside(z, z, b)
  BY DEF Inside
<1>2. ASSUME NEW x, Inside(z, x, b) PROVE x \in Zones /\ Size(x, b) = Size(z, b)
  <2>1. b \notin b + 2 .. b + Size(z, b) - 1
    BY Reads
  <2>2. Cell(x, b).lo = Cell(z, b).lo
    BY <1>2, <2>1 DEF Inside
  <2> QED
    BY <1>2, <2>2 DEF Inside, Size
<1>3. ASSUME NEW x, NEW y, Inside(z, x, b), Inside(x, y, b) PROVE Inside(z, y, b)
  <2>1. Size(x, b) = Size(z, b)
    BY <1>2, <1>3
  <2>2. y \in Zones /\ y.freelists = z.freelists
    BY <1>3 DEF Inside
  <2>3. ASSUME NEW a
        PROVE  \/ Cell(y, a) = Cell(z, a)
               \/ a \in {b, b + 1} /\ Cell(y, a).lo = Cell(z, a).lo
               \/ a \in b + 2 .. b + Size(z, b) - 1
    <3>1. /\ \/ Cell(x, a) = Cell(z, a)
             \/ a \in {b, b + 1} /\ Cell(x, a).lo = Cell(z, a).lo
             \/ a \in b + 2 .. b + Size(z, b) - 1
          /\ \/ Cell(y, a) = Cell(x, a)
             \/ a \in {b, b + 1} /\ Cell(y, a).lo = Cell(x, a).lo
             \/ a \in b + 2 .. b + Size(z, b) - 1
      BY <1>3, <2>1 DEF Inside
    <3> QED
      BY <3>1
  <2> QED
    BY <2>2, <2>3 DEF Inside
<1> QED
  BY <1>1, <1>2, <1>3

\* A write inside a block changes no size, and nothing of another block.
LEMMA InsideKeeps ==
    ASSUME NEW z \in Zones, NEW B, Tiles(z, B), NEW b \in B, NEW y, Inside(z, y, b)
    PROVE  /\ \A d \in B : Size(y, d) = Size(z, d) /\ PrevSize(y, d) = PrevSize(z, d)
           /\ \A d \in B \ {b} : /\ Kept(z, y, d) /\ Tags(y, d) = Tags(z, d)
                                 /\ Links(y, d) = Links(z, d)
<1>1. /\ \A d \in B : d \in Nat /\ d \in Addr /\ Size(z, d) \in Nat /\ Size(z, d) >= 3
      /\ \A d \in B : d # b => b + Size(z, b) <= d \/ d + Size(z, d) <= b
  BY TilesFit DEF Tiles
<1>2. ASSUME NEW d \in B \ {b}, NEW a \in d .. d + Size(z, d) - 1 PROVE Cell(y, a) = Cell(z, a)
  <2>1. a \notin {b, b + 1} /\ a \notin b + 2 .. b + Size(z, b) - 1
    BY <1>1, <1>2
  <2> QED
    BY <2>1 DEF Inside
<1>3. ASSUME NEW d \in B \ {b}
      PROVE  /\ Cell(y, d) = Cell(z, d) /\ Cell(y, d + 1) = Cell(z, d + 1)
             /\ Cell(y, d + 2) = Cell(z, d + 2)
  <2>1. /\ d \in d .. d + Size(z, d) - 1 /\ d + 1 \in d .. d + Size(z, d) - 1
        /\ d + 2 \in d .. d + Size(z, d) - 1
    BY <1>1
  <2> QED
    BY <1>2, <2>1
<1>4. Cell(y, b).lo = Cell(z, b).lo /\ Cell(y, b + 1).lo = Cell(z, b + 1).lo
  <2>1. b \notin b + 2 .. b + Size(z, b) - 1 /\ b + 1 \notin b + 2 .. b + Size(z, b) - 1
    BY <1>1
  <2> QED
    BY <2>1 DEF Inside
<1>5. \A d \in B : Size(y, d) = Size(z, d) /\ PrevSize(y, d) = PrevSize(z, d)
  BY <1>3, <1>4 DEF Size, PrevSize
<1>6. ASSUME NEW d \in B \ {b}
      PROVE  Kept(z, y, d) /\ Tags(y, d) = Tags(z, d) /\ Links(y, d) = Links(z, d)
  <2>1. Kept(z, y, d)
    <3>1. \A a \in d + 2 .. d + Size(z, d) - 1 : a \in d .. d + Size(z, d) - 1
      BY <1>1
    <3> QED
      BY <1>2, <1>3, <3>1 DEF Kept
  <2>2. Tags(y, d) = Tags(z, d)
    BY <1>3 DEF Tags, Flags, LockCount, MasterPtr
  <2>3. Links(y, d) = Links(z, d)
    BY <1>3 DEF Links, NextNode, PrevNode, HeaderSize
  <2> QED
    BY <2>1, <2>2, <2>3
<1> QED
  BY <1>5, <1>6

\* The heap stays as sound as it was; the block may be made ready to be freed.
LEMMA InsideSound ==
    ASSUME NEW z \in Zones, NEW B, Sound(z, B), NEW b \in UsedOf(z, B), NEW y, Inside(z, y, b)
    PROVE  /\ Loose(y, B, FreeOf(z, B), b)
           /\ "FREE" \notin Flags(y, b) =>
                 Sound(y, B) /\ FreeOf(y, B) = FreeOf(z, B) /\ UsedOf(y, B) = UsedOf(z, B)
           /\ \A d \in UsedOf(z, B) \ {b} : Kept(z, y, d)
<1> DEFINE F == FreeOf(z, B)
<1>1. /\ Tiles(z, B) /\ Lists(z, F) /\ Apart(z, F) /\ F \subseteq B /\ b \in B /\ b \notin F
      /\ y.freelists = z.freelists
  BY DEF Sound, FreeOf, UsedOf, Inside
<1>2. /\ \A d \in B : Size(y, d) = Size(z, d) /\ PrevSize(y, d) = PrevSize(z, d)
      /\ \A d \in B \ {b} : /\ Kept(z, y, d) /\ Tags(y, d) = Tags(z, d)
                            /\ Links(y, d) = Links(z, d)
  BY <1>1, InsideKeeps
<1>3. Tiles(y, B)
  BY <1>1, <1>2, TilesSame
<1>4. Lists(y, F)
  <2>1. \A d \in F : Size(y, d) = Size(z, d) /\ Links(y, d) = Links(z, d)
    BY <1>1, <1>2
  <2> HIDE DEF F
  <2> QED
    BY <1>1, <2>1, ListsKept
<1>5. Apart(y, F)
  <2>1. \A d \in F : Size(y, d) = Size(z, d) /\ Flags(y, d) = Flags(z, d)
    BY <1>1, <1>2 DEF Tags
  <2> HIDE DEF F
  <2> QED
    BY <1>1, <2>1 DEF Apart
<1>6. \A d \in B : d # b => (d \in F <=> "FREE" \in Flags(y, d))
  BY <1>2 DEF Tags, FreeOf
<1>7. Loose(y, B, F, b)
  BY <1>1, <1>3, <1>4, <1>5, <1>6 DEF Loose
<1>8. ASSUME "FREE" \notin Flags(y, b)
      PROVE  Sound(y, B) /\ FreeOf(y, B) = FreeOf(z, B) /\ UsedOf(y, B) = UsedOf(z, B)
  <2>1. FreeOf(y, B) = F
    BY <1>1, <1>6, <1>8 DEF FreeOf
  <2> QED
    BY <1>3, <1>4, <1>5, <2>1 DEF Sound, UsedOf
<1> QED
  BY <1>2, <1>7, <1>8 DEF UsedOf

\* What is changed besides the memory and the lists does not matter.
SameHeap(z, y) == y \in Zones /\ y.mem = z.mem /\ y.freelists = z.freelists

\* A change of master pointers and counters writes nothing.
LEMMA SameHeapInside ==
    ASSUME NEW z, NEW y, SameHeap(z, y), NEW b
    PROVE  Inside(z, y, b) /\ \A a : Cell(y, a) = Cell(z, a)
BY DEF SameHeap, Inside, Cell

\* Flags, lock count and master pointer are inside the block.
LEMMA HeaderInside ==
    ASSUME NEW z \in Zones, NEW b \in Addr, b + 1 \in Addr
    PROVE  /\ \A fs \in SUBSET FlagNames :
                 LET y == SetFlags(z, b, fs) IN
                 /\ Inside(z, y, b) /\ Flags(y, b) = fs /\ LockCount(y, b) = LockCount(z, b)
                 /\ MasterPtr(y, b) = MasterPtr(z, b)
                 /\ \A a : a \notin {b, b + 1} => Cell(y, a) = Cell(z, a)
           /\ \A k \in Nat :
                 LET y == SetLockCount(z, b, k) IN
                 /\ Inside(z, y, b) /\ Flags(y, b) = Flags(z, b) /\ LockCount(y, b) = k
                 /\ MasterPtr(y, b) = MasterPtr(z, b)
                 /\ \A a : a \notin {b, b + 1} => Cell(y, a) = Cell(z, a)
           /\ \A i \in Masters \cup {Null} :
                 LET y == SetMaster(z, b, i) IN
                 /\ Inside(z, y, b) /\ Flags(y, b) = Flags(z, b) /\ LockCount(y, b) = LockCount(z, b)
                 /\ MasterPtr(y, b) = i
                 /\ \A a : a \notin {b, b + 1} => Cell(y, a) = Cell(z, a)
<1>0. b \in Nat /\ b # b + 1
  BY ConstantsType
<1>1. ASSUME NEW fs \in SUBSET FlagNames
      PROVE  LET y == SetFlags(z, b, fs) IN
             /\ Inside(z, y, b) /\ Flags(y, b) = fs /\ LockCount(y, b) = LockCount(z, b)
             /\ MasterPtr(y, b) = MasterPtr(z, b)
             /\ \A a : a \notin {b, b + 1} => Cell(y, a) = Cell(z, a)
  <2> DEFINE w == <<"flags", fs, LockCount(z, b)>>
             y == PutHi(z, b, w)
  <2>1. y = SetFlags(z, b, fs) /\ y \in Zones
    BY SetType, RewritesCompose DEF SetFlags
  <2>2. /\ \A x : x # b => Cell(y, x) = Cell(z, x)
        /\ Cell(y, b).hi = w /\ Cell(y, b).lo = Cell(z, b).lo
        /\ y.freelists = z.freelists
    BY PutHiCells
  <2> HIDE DEF y
  <2>3. Inside(z, y, b)
    BY <2>1, <2>2 DEF Inside
  <2> QED
    BY <1>0, <2>1, <2>2, <2>3 DEF Flags, LockCount, MasterPtr, AsFlags, AsLockCount
<1>2. ASSUME NEW k \in Nat
      PROVE  LET y == SetLockCount(z, b, k) IN
             /\ Inside(z, y, b) /\ Flags(y, b) = Flags(z, b) /\ LockCount(y, b) = k
             /\ MasterPtr(y, b) = MasterPtr(z, b)
             /\ \A a : a \notin {b, b + 1} => Cell(y, a) = Cell(z, a)
  <2> DEFINE w == <<"flags", Flags(z, b), k>>
             y == PutHi(z, b, w)
  <2>1. y = SetLockCount(z, b, k) /\ y \in Zones
    BY SetType, RewritesCompose DEF SetLockCount
  <2>2. /\ \A x : x # b => Cell(y, x) = Cell(z, x)
        /\ Cell(y, b).hi = w /\ Cell(y, b).lo = Cell(z, b).lo
        /\ y.freelists = z.freelists
    BY PutHiCells
  <2> HIDE DEF y
  <2>3. Inside(z, y, b)
    BY <2>1, <2>2 DEF Inside
  <2>4. Flags(y, b) = Flags(z, b) /\ LockCount(y, b) = k
    <3>1. AsFlags(Cell(y, b).hi) = w[2] /\ AsLockCount(Cell(y, b).hi) = w[3]
      BY <2>2 DEF AsFlags, AsLockCount
    <3> QED
      BY <3>1 DEF Flags, LockCount
  <2> QED
    BY <1>0, <2>1, <2>2, <2>3, <2>4 DEF MasterPtr
<1>3. ASSUME NEW i \in Masters \cup {Null}
      PROVE  LET y == SetMaster(z, b, i) IN
             /\ Inside(z, y, b) /\ Flags(y, b) = Flags(z, b) /\ LockCount(y, b) = LockCount(z, b)
             /\ MasterPtr(y, b) = i
             /\ \A a : a \notin {b, b + 1} => Cell(y, a) = Cell(z, a)
  <2> DEFINE w == IF i \in Masters THEN <<"master", i>> ELSE Zero
             y == PutHi(z, b + 1, w)
  <2>1. y = SetMaster(z, b, i) /\ y \in Zones
    BY SetType, RewritesCompose DEF SetMaster
  <2>2. /\ \A x : x # b + 1 => Cell(y, x) = Cell(z, x)
        /\ Cell(y, b + 1).hi = w /\ Cell(y, b + 1).lo = Cell(z, b + 1).lo
        /\ y.freelists = z.freelists
    BY PutHiCells
  <2> HIDE DEF y
  <2>3. Inside(z, y, b)
    BY <2>1, <2>2 DEF Inside
  <2>4. MasterPtr(y, b) = i
    BY <2>2, ConstantsType DEF MasterPtr, Zero
  <2> QED
    BY <1>0, <2>1, <2>2, <2>3, <2>4 DEF Flags, LockCount
<1> QED
  BY <1>1, <1>2, <1>3

HoldsIn(z, b, n, w) == \A a \in b .. b + n - 1 : Cell(z, a) = [lo |-> w, hi |-> w]

\* Filling a block's data is a write inside it.
LEMMA FillInside ==
    ASSUME NEW z \in Zones, NEW b \in Nat, b + Size(z, b) <= ZoneSize,
           NEW from \in Nat, NEW n \in Nat, NEW w \in Word,
           from >= b + 2, from + n <= b + Size(z, b)
    PROVE  LET y == Fill(z, from, n, w) IN
           /\ Inside(z, y, b) /\ HoldsIn(y, from, n, w)
           /\ \A a : a \notin from .. from + n - 1 => Cell(y, a) = Cell(z, a)
<1> DEFINE y == Fill(z, from, n, w)
<1>0. Size(z, b) \in Nat /\ ZoneSize \in Nat
  BY Reads, ConstantsType
<1>1. /\ y \in Zones /\ y.freelists = z.freelists
      /\ y.mem = [a \in Addr |-> IF a \in from .. from + n - 1 THEN [lo |-> w, hi |-> w]
                                 ELSE z.mem[a]]
  <2>1. y \in Zones
    BY FillType, RewritesCompose
  <2> QED
    BY <2>1 DEF Fill, Zones
<1> HIDE DEF y
<1>2. \A a \in from .. from + n - 1 : a \in Addr /\ a \in b + 2 .. b + Size(z, b) - 1
  BY <1>0 DEF Addr
<1>3. HoldsIn(y, from, n, w)
  BY <1>1, <1>2 DEF HoldsIn, Cell
<1>4. \A a : a \notin from .. from + n - 1 => Cell(y, a) = Cell(z, a)
  BY <1>1 DEF Cell
<1>5. Inside(z, y, b)
  BY <1>1, <1>2, <1>4 DEF Inside
<1> QED
  BY <1>3, <1>4, <1>5 DEF y

\* Copying into a block's data is a write inside it.
LEMMA CopiedInside ==
    ASSUME NEW z \in Zones, NEW b \in Nat, b + Size(z, b) <= ZoneSize,
           NEW to \in Nat, NEW from \in Nat, NEW n \in Nat,
           to >= b + 2, to + n <= b + Size(z, b)
    PROVE  LET y == Copied(z, to, from, n) IN
           /\ Inside(z, y, b)
           /\ \A a \in to .. to + n - 1 : Cell(y, a) = Cell(z, from + (a - to))
           /\ \A a : a \notin to .. to + n - 1 => Cell(y, a) = Cell(z, a)
<1> DEFINE y == Copied(z, to, from, n)
<1>0. Size(z, b) \in Nat /\ ZoneSize \in Nat
  BY Reads, ConstantsType
<1>1. /\ y \in Zones /\ y.freelists = z.freelists
      /\ y.mem = [a \in Addr |-> IF a \in to .. to + n - 1 THEN Cell(z, from + (a - to))
                                 ELSE z.mem[a]]
  <2>1. y \in Zones
    BY CopiedType, RewritesCompose
  <2> QED
    BY <2>1 DEF Copied, Zones
<1> HIDE DEF y
<1>2. \A a \in to .. to + n - 1 : a \in Addr /\ a \in b + 2 .. b + Size(z, b) - 1
  BY <1>0 DEF Addr
<1>3. \A a \in to .. to + n - 1 : Cell(y, a) = Cell(z, from + (a - to))
  <2>1. \A a \in Addr : Cell(y, a) = y.mem[a]
    BY DEF Cell
  <2> QED
    BY <1>1, <1>2, <2>1
<1>4. \A a : a \notin to .. to + n - 1 => Cell(y, a) = Cell(z, a)
  <2> SUFFICES ASSUME NEW a, a \notin to .. to + n - 1 PROVE Cell(y, a) = Cell(z, a)
    OBVIOUS
  <2>1. a \in Addr => y.mem[a] = z.mem[a]
    BY <1>1
  <2> QED
    BY <2>1 DEF Cell
<1>5. Inside(z, y, b)
  BY <1>1, <1>2, <1>4 DEF Inside
<1> QED
  BY <1>3, <1>4, <1>5 DEF y

-----------------------------------------------------------------------------
(* The room that blocks take.                                               *)

Space(z, U) == {a \in Addr : \E b \in U : a \in b .. b + Size(z, b) - 1}

\* The room blocks take depends on their sizes.
LEMMA SpaceSame ==
    ASSUME NEW z, NEW y, NEW U, \A d \in U : Size(y, d) = Size(z, d)
    PROVE  Space(y, U) = Space(z, U)
BY DEF Space

\* One block more takes its size more room.
LEMMA SpaceGrows ==
    ASSUME NEW z \in Zones, NEW B, Tiles(z, B), NEW U, U \subseteq B, NEW b \in B, b \notin U
    PROVE  /\ Cardinality(Space(z, U \cup {b})) = Cardinality(Space(z, U)) + Size(z, b)
           /\ Cardinality(Space(z, U)) \in Nat
<1> DEFINE I == b .. b + Size(z, b) - 1
<1>1. /\ \A d \in B : d \in Nat /\ Size(z, d) \in Nat /\ Size(z, d) >= 3
                      /\ d + Size(z, d) <= ZoneSize
      /\ \A d, e \in B : d # e => d + Size(z, d) <= e \/ e + Size(z, e) <= d
      /\ ZoneSize \in Nat
  BY TilesFit
<1>2. I \subseteq Addr
  BY <1>1 DEF Addr
<1>3. Space(z, U \cup {b}) = Space(z, U) \cup I
  BY <1>2 DEF Space
<1>4. Space(z, U) \cap I = {}
  <2> SUFFICES ASSUME NEW d \in U, NEW a \in d .. d + Size(z, d) - 1, a \in I PROVE FALSE
    BY DEF Space
  <2>1. /\ d \in Nat /\ b \in Nat /\ Size(z, d) \in Nat /\ Size(z, b) \in Nat
        /\ (d + Size(z, d) <= b \/ b + Size(z, b) <= d)
    BY <1>1
  <2> QED
    BY <2>1
<1>5. IsFiniteSet(I) /\ Cardinality(I) = Size(z, b)
  <2>1. b \in Int /\ b + Size(z, b) - 1 \in Int /\ b + Size(z, b) - 1 >= b /\ Size(z, b) \in Nat
    BY <1>1
  <2>2. IsFiniteSet(I) /\ Cardinality(I) = (b + Size(z, b) - 1) - b + 1
    BY <2>1, FS_Interval
  <2> QED
    BY <1>1, <2>2
<1>6. IsFiniteSet(Space(z, U)) /\ Cardinality(Space(z, U)) \in Nat
  <2>1. IsFiniteSet(Addr)
    BY <1>1, FS_Interval DEF Addr
  <2>2. IsFiniteSet(Space(z, U))
    BY <2>1, FS_Subset DEF Space
  <2> QED
    BY <2>2, FS_CardinalityType
<1>7. Cardinality(Space(z, U) \cup I)
        = Cardinality(Space(z, U)) + Cardinality(I) - Cardinality(Space(z, U) \cap I)
  BY <1>5, <1>6, FS_Union
<1>8. Cardinality(Space(z, U) \cap I) = 0
  BY <1>4, FS_EmptySet
<1>9. Cardinality(Space(z, U \cup {b})) = Cardinality(Space(z, U)) + Size(z, b) - 0
  BY <1>3, <1>5, <1>7, <1>8
<1>10. Size(z, b) \in Nat /\ Cardinality(Space(z, U)) \in Nat
  BY <1>1, <1>6
<1> QED
  BY ONLY <1>9, <1>10

\* The counter of a zone whose used blocks are U.
Counted(z, U) == z.bytesUsed = Cardinality(Space(z, U))

\* The count of a block that is handed out.
LEMMA CountedMore ==
    ASSUME NEW z \in Zones, NEW y \in Zones, NEW B, NEW U, Counted(z, U),
           Tiles(y, B), NEW b \in B, b \notin U, U \subseteq B,
           \A d \in U : Size(y, d) = Size(z, d), y.bytesUsed = z.bytesUsed + Size(y, b)
    PROVE  Counted(y, U \cup {b})
<1>1. Space(y, U) = Space(z, U)
  BY SpaceSame
<1>2. Cardinality(Space(y, U \cup {b})) = Cardinality(Space(y, U)) + Size(y, b)
  BY SpaceGrows
<1> QED
  BY <1>1, <1>2 DEF Counted

\* The count of a block that is given back.
LEMMA CountedLess ==
    ASSUME NEW z \in Zones, NEW y, NEW B, NEW U, Counted(z, U), Tiles(z, B),
           NEW b \in U, U \subseteq B,
           \A d \in U \ {b} : Size(y, d) = Size(z, d), y.bytesUsed = z.bytesUsed - Size(z, b)
    PROVE  Counted(y, U \ {b})
<1> DEFINE V == U \ {b}
<1>1. Space(y, V) = Space(z, V)
  BY SpaceSame
<1>2. V \cup {b} = U /\ V \subseteq B /\ b \in B /\ b \notin V
  OBVIOUS
<1> HIDE DEF V
<1>3. /\ Cardinality(Space(z, V \cup {b})) = Cardinality(Space(z, V)) + Size(z, b)
      /\ Cardinality(Space(z, V)) \in Nat
  BY <1>2, SpaceGrows
<1>4. Size(z, b) \in Nat
  BY Reads
<1>5. z.bytesUsed = Cardinality(Space(z, V)) + Size(z, b)
  BY <1>2, <1>3 DEF Counted
<1>6. y.bytesUsed = Cardinality(Space(z, V))
  BY <1>3, <1>4, <1>5
<1> QED
  BY <1>1, <1>6 DEF Counted, V

-----------------------------------------------------------------------------
(* A walk of the sizes from the base on finds the blocks.                   *)

Steps(z) ==
    LET at[i \in 0 .. WalkLimit] == IF i = 0 THEN 0 ELSE at[i - 1] + Size(z, at[i - 1])
    IN  at
Walked(z) == {Steps(z)[i] : i \in 0 .. WalkLimit} \cap Addr

\* The blocks met in going from one to the next.
LEMMA StepsAre ==
    ASSUME NEW z \in Zones
    PROVE  /\ WalkLimit \in Nat /\ Steps(z)[0] = 0
           /\ \A i \in 1 .. WalkLimit : Steps(z)[i] = Steps(z)[i - 1] + Size(z, Steps(z)[i - 1])
<1> DEFINE S == Nat
           base == 0
           g == [n \in S |-> n + Size(z, n)]
           at == Steps(z)
<1>1. WalkLimit \in Nat
  BY ZoneAssumption DEF WalkLimit, MinBlockSize
<1>2. g \in [S -> S]
  BY Reads
<1>3. PICK f \in [0 .. WalkLimit -> S] :
         f = [i \in 0 .. WalkLimit |-> IF i = 0 THEN base ELSE g[f[i - 1]]]
  <2>1. base \in S
    OBVIOUS
  <2> HIDE DEF g, S, base
  <2> QED
    <3>1. PICK f : Iterates(f, S, g, base, WalkLimit)
      BY <1>1, <1>2, <2>1, IterationExists
    <3> QED
      BY <3>1 DEF Iterates
<1>4. ASSUME NEW i \in 0 .. WalkLimit, i # 0 PROVE g[f[i - 1]] = f[i - 1] + Size(z, f[i - 1])
  <2>1. i - 1 \in 0 .. WalkLimit
    BY <1>1, <1>4
  <2>2. f[i - 1] \in S
    BY <1>3, <2>1
  <2> QED
    BY <2>2
<1>5. f = [i \in 0 .. WalkLimit |-> IF i = 0 THEN 0 ELSE f[i - 1] + Size(z, f[i - 1])]
  BY <1>3, <1>4
<1>6. at = CHOOSE h : h = [i \in 0 .. WalkLimit |-> IF i = 0 THEN 0 ELSE h[i - 1] + Size(z, h[i - 1])]
  BY DEF Steps
<1>7. at = [i \in 0 .. WalkLimit |-> IF i = 0 THEN 0 ELSE at[i - 1] + Size(z, at[i - 1])]
  BY <1>5, <1>6
<1> HIDE DEF at
<1> QED
  BY <1>1, <1>7 DEF at

\* A walk from the first block meets the blocks that tile the zone, and no other.
LEMMA WalkedAre ==
    ASSUME NEW z \in Zones, NEW B, Tiles(z, B)
    PROVE  Walked(z) = B
<1> DEFINE at == Steps(z)
           Good(i) == \/ at[i] \in B /\ 3 * i <= at[i]
                      \/ at[i] = ZoneSize
           Bad == {i \in 0 .. WalkLimit : ~Good(i)}
           Lost == {b \in B : \A i \in 0 .. WalkLimit : at[i] # b}
<1>1. /\ WalkLimit \in Nat /\ at[0] = 0
      /\ \A i \in 1 .. WalkLimit : at[i] = at[i - 1] + Size(z, at[i - 1])
  BY StepsAre
<1> HIDE DEF at
<1>2. /\ B \subseteq Addr /\ 0 \in B /\ ZoneSize \notin B /\ ZoneSize \in Nat
      /\ \A d \in B : /\ d \in Nat /\ Size(z, d) \in Nat /\ Size(z, d) >= 3
                      /\ d + Size(z, d) <= ZoneSize
                      /\ d + Size(z, d) \in B \cup {ZoneSize}
  BY TilesFit DEF Tiles
<1>3. Size(z, ZoneSize) = 0
  BY <1>2 DEF Size, Cell, Addr, AsNumber, Zero, IsZero
<1>4. \A i \in 0 .. WalkLimit : Good(i)
  <2>1. SUFFICES ASSUME Bad # {} PROVE FALSE
    OBVIOUS
  <2>2. Bad \in SUBSET Nat
    BY <1>1
  <2>3. PICK m \in Bad : \A k \in Bad : m <= k
    <3> HIDE DEF Bad
    <3> QED
      BY <2>1, <2>2, LeastOf
  <2>4. m # 0 /\ m \in 1 .. WalkLimit /\ m - 1 \in 0 .. WalkLimit /\ m - 1 \notin Bad
    BY <1>1, <1>2, <2>3
  <2>5. at[m] = at[m - 1] + Size(z, at[m - 1]) /\ Good(m - 1)
    BY <1>1, <2>4
  <2>6. CASE at[m - 1] = ZoneSize
    BY <1>2, <1>3, <2>3, <2>5, <2>6
  <2>7. CASE at[m - 1] \in B /\ 3 * (m - 1) <= at[m - 1]
    <3>1. /\ at[m] \in B \cup {ZoneSize} /\ m \in Nat
          /\ at[m - 1] \in Nat /\ Size(z, at[m - 1]) >= 3 /\ Size(z, at[m - 1]) \in Nat
      BY <1>2, <2>4, <2>5, <2>7
    <3>2. 3 * m <= at[m]
      BY <2>5, <2>7, <3>1
    <3> QED
      BY <2>3, <3>1, <3>2
  <2> QED
    BY <2>5, <2>6, <2>7
<1>5. Walked(z) \subseteq B
  <2>1. ZoneSize \notin Addr
    BY <1>2 DEF Addr
  <2> QED
    BY <1>4, <2>1 DEF Walked, at
<1>6. Lost = {}
  <2>1. SUFFICES ASSUME Lost # {} PROVE FALSE
    OBVIOUS
  <2>2. Lost \in SUBSET Nat
    BY <1>2
  <2>3. PICK b \in Lost : \A k \in Lost : b <= k
    <3> HIDE DEF Lost
    <3> QED
      BY <2>1, <2>2, LeastOf
  <2>4. b \in B /\ b # 0
    BY <1>1, <2>3
  <2>5. PICK d \in B : d < b /\ d + Size(z, d) = b
    BY <2>4, TilesBefore
  <2>6. d \notin Lost
    BY <1>2, <2>3, <2>4, <2>5
  <2>7. PICK k \in 0 .. WalkLimit : at[k] = d
    BY <2>6
  <2>8. 3 * k <= d /\ d \in Nat /\ k \in Nat
    BY <1>1, <1>2, <1>4, <2>7
  <2>9. k + 1 \in 1 .. WalkLimit
    <3>1. d + 3 <= ZoneSize
      BY <1>2
    <3>2. WalkLimit = 1 + ZoneSize \div 3 /\ ZoneSize \div 3 \in Nat /\ ZoneSize < 3 * (ZoneSize \div 3) + 3
      BY <1>2 DEF WalkLimit, MinBlockSize
    <3> HIDE DEF Lost
    <3> QED
      BY <1>2, <2>8, <3>1, <3>2
  <2>10. at[k + 1] = b
    <3>1. (k + 1) - 1 = k
      BY <2>8
    <3> QED
      BY <1>1, <2>5, <2>7, <2>9, <3>1
  <2> QED
    BY <1>1, <2>3, <2>9, <2>10
<1>7. B \subseteq Walked(z)
  BY <1>2, <1>6 DEF Walked, at
<1> QED
  BY <1>5, <1>7

=============================================================================
