------------------------ MODULE CoopSchedulerProofs ------------------------
(***************************************************************************)
(* Theorems about CoopScheduler, for every number of processes, every set  *)
(* of priorities and event kinds and every size of the Time Manager's      *)
(* table.                                                                  *)
(***************************************************************************)
EXTENDS CoopScheduler, SequenceTheorems, WellFoundedInduction, TLAPS

-----------------------------------------------------------------------------
(* Sequences in which nothing occurs twice: the ready ring and the stack.  *)

In(q, p) == \E i \in DOMAIN q : q[i] = p
Once(q) == \A i, j \in DOMAIN q : q[i] = q[j] => i = j

\* RemoveFirst finds the one place of p.
LEMMA FirstOf ==
    ASSUME NEW q \in Seq(Procs), NEW p \in Procs, NEW k \in 1 .. Len(q), q[k] = p,
           Once(q)
    PROVE  SelectInSeq(q, LAMBDA v : v = p) = k
<1> DEFINE I == {i \in 1 .. Len(q) : q[i] = p}
<1>1. I = {k}
  BY DEF Once
<1>2. Min(I) = k
  BY <1>1 DEF Min
<1> QED
  BY <1>1, <1>2 DEF SelectInSeq

\* The links close over p and leave the rest of the ring as it was.
LEMMA RemoveFirstProperties ==
    ASSUME NEW q \in Seq(Procs), NEW p \in Procs, Once(q)
    PROVE  /\ RemoveFirst(q, p) \in Seq(Procs)
           /\ (\A i \in DOMAIN q : q[i] # p) => RemoveFirst(q, p) = q
           /\ \A k \in DOMAIN q : q[k] = p =>
                 /\ Len(RemoveFirst(q, p)) = Len(q) - 1
                 /\ \A i \in 1 .. Len(q) - 1 : RemoveFirst(q, p)[i] = IF i < k THEN q[i] ELSE q[i + 1]
<1>1. CASE \A i \in DOMAIN q : q[i] # p
  <2>1. DOMAIN q = 1 .. Len(q)
    OBVIOUS
  <2> QED
    BY <1>1, <2>1 DEF RemoveFirst, SelectInSeq
<1>2. ASSUME NEW k \in DOMAIN q, q[k] = p
      PROVE  /\ RemoveFirst(q, p) \in Seq(Procs)
             /\ Len(RemoveFirst(q, p)) = Len(q) - 1
             /\ \A i \in 1 .. Len(q) - 1 : RemoveFirst(q, p)[i] = IF i < k THEN q[i] ELSE q[i + 1]
  <2>1. k \in 1 .. Len(q) /\ Len(q) \in Nat
    OBVIOUS
  <2>2. SelectInSeq(q, LAMBDA v : v = p) = k
    BY <1>2, <2>1, FirstOf
  <2>3. RemoveFirst(q, p) = SubSeq(q, 1, k - 1) \o SubSeq(q, k + 1, Len(q))
    BY <1>2, <2>1, <2>2 DEF RemoveFirst, RemoveAt
  <2> DEFINE a == SubSeq(q, 1, k - 1)
             b == SubSeq(q, k + 1, Len(q))
  <2>4. /\ a \in Seq(Procs) /\ Len(a) = k - 1
        /\ \A i \in 1 .. k - 1 : a[i] = q[i]
    BY <2>1
  <2>5. /\ b \in Seq(Procs) /\ Len(b) = Len(q) - k
        /\ \A i \in 1 .. Len(q) - k : b[i] = q[i + k]
    BY <2>1
  <2> HIDE DEF a, b
  <2>6. /\ a \o b \in Seq(Procs) /\ Len(a \o b) = Len(q) - 1
        /\ \A i \in 1 .. Len(q) - 1 : (a \o b)[i] = IF i < k THEN a[i] ELSE b[i - (k - 1)]
    <3>1. /\ a \o b \in Seq(Procs)
          /\ Len(a \o b) = Len(a) + Len(b)
          /\ \A i \in 1 .. Len(a) + Len(b) :
                (a \o b)[i] = IF i <= Len(a) THEN a[i] ELSE b[i - Len(a)]
      BY <2>4, <2>5, ConcatProperties
    <3>2. Len(a) + Len(b) = Len(q) - 1 /\ \A i \in Nat : i <= Len(a) <=> i < k
      BY <2>1, <2>4, <2>5
    <3> QED
      BY <2>4, <3>1, <3>2
  <2>7. \A i \in 1 .. Len(q) - 1 :
           /\ i < k => i \in 1 .. k - 1
           /\ ~(i < k) => i - (k - 1) \in 1 .. Len(q) - k /\ i - (k - 1) + k = i + 1
    BY <2>1
  <2>8. \A i \in 1 .. Len(q) - 1 : (a \o b)[i] = IF i < k THEN q[i] ELSE q[i + 1]
    BY <2>4, <2>5, <2>6, <2>7
  <2> QED
    BY <2>3, <2>6, <2>8 DEF a, b
<1> QED
  BY <1>1, <1>2

LEMMA RemovedOnce ==
    ASSUME NEW q \in Seq(Procs), NEW p \in Procs, Once(q)
    PROVE  /\ RemoveFirst(q, p) \in Seq(Procs)
           /\ Once(RemoveFirst(q, p))
           /\ \A r \in Procs : In(RemoveFirst(q, p), r) <=> In(q, r) /\ r # p
<1>1. CASE ~In(q, p)
  <2>1. RemoveFirst(q, p) = q
    BY <1>1, RemoveFirstProperties DEF In
  <2> QED
    BY <1>1, <2>1
<1>2. CASE In(q, p)
  <2> DEFINE u == RemoveFirst(q, p)
  <2>1. PICK k \in DOMAIN q : q[k] = p
    BY <1>2 DEF In
  <2>2. /\ u \in Seq(Procs) /\ Len(u) = Len(q) - 1
        /\ \A i \in 1 .. Len(q) - 1 : u[i] = IF i < k THEN q[i] ELSE q[i + 1]
    BY <2>1, RemoveFirstProperties
  <2> HIDE DEF u
  <2>3. /\ Len(q) \in Nat /\ k \in 1 .. Len(q)
        /\ DOMAIN q = 1 .. Len(q) /\ DOMAIN u = 1 .. Len(q) - 1
    BY <2>1, <2>2
  <2> DEFINE from(i) == IF i < k THEN i ELSE i + 1
  <2>4. \A i \in DOMAIN u : /\ from(i) \in DOMAIN q /\ from(i) # k
                            /\ u[i] = q[from(i)]
    BY <2>2, <2>3
  <2>5. \A i, j \in DOMAIN u : from(i) = from(j) => i = j
    BY <2>3
  <2>6. \A m \in DOMAIN q : m # k => \E i \in DOMAIN u : m = from(i)
    <3> SUFFICES ASSUME NEW m \in DOMAIN q, m # k
                 PROVE  \E i \in DOMAIN u : m = from(i)
      OBVIOUS
    <3>1. CASE m < k
      BY <2>3, <3>1
    <3>2. CASE m > k
      <4>1. m - 1 \in DOMAIN u /\ ~(m - 1 < k) /\ m = (m - 1) + 1
        BY <2>3, <3>2
      <4> QED
        BY <4>1
    <3> QED
      BY <2>3, <3>1, <3>2
  <2> HIDE DEF from
  <2>7. Once(u)
    BY <2>4, <2>5 DEF Once
  <2>8. \A r \in Procs : In(u, r) <=> In(q, r) /\ r # p
    <3> TAKE r \in Procs
    <3>1. ASSUME In(u, r)
          PROVE  In(q, r) /\ r # p
      BY <2>1, <2>4, <3>1 DEF In, Once
    <3>2. ASSUME In(q, r), r # p
          PROVE  In(u, r)
      BY <2>1, <2>4, <2>6, <3>2 DEF In
    <3> QED
      BY <3>1, <3>2
  <2> QED
    BY <2>2, <2>7, <2>8 DEF u
<1> QED
  BY <1>1, <1>2

\* One process that is not there is put behind the others: an entry function is
\* called on top of the stack, or a process is added to the ring.
LEMMA PushOnce ==
    ASSUME NEW s \in Seq(Procs), Once(s), NEW p \in Procs, ~In(s, p)
    PROVE  /\ Append(s, p) \in Seq(Procs)
           /\ Once(Append(s, p))
           /\ \A r \in Procs : In(Append(s, p), r) <=> In(s, r) \/ r = p
<1> DEFINE e == Append(s, p)
<1>1. /\ e \in Seq(Procs) /\ Len(s) \in Nat /\ Len(e) = Len(s) + 1
      /\ \A i \in 1 .. Len(s) : e[i] = s[i]
      /\ e[Len(s) + 1] = p
      /\ DOMAIN s = 1 .. Len(s) /\ DOMAIN e = 1 .. Len(s) + 1
  OBVIOUS
<1> HIDE DEF e
<1>2. \A i \in DOMAIN e : \/ i \in DOMAIN s /\ e[i] = s[i]
                          \/ i = Len(s) + 1 /\ e[i] = p
  BY <1>1
<1>3. Len(s) + 1 \in DOMAIN e /\ \A i \in DOMAIN s : i \in DOMAIN e /\ e[i] = s[i]
  BY <1>1
<1>4. Once(e)
  BY <1>2 DEF Once, In
<1>5. \A r \in Procs : In(e, r) <=> In(s, r) \/ r = p
  BY <1>1, <1>2, <1>3 DEF In
<1> QED
  BY <1>1, <1>4, <1>5 DEF e

\* ... and returns.
LEMMA PopOnce ==
    ASSUME NEW s \in Seq(Procs), Once(s), s # <<>>
    PROVE  /\ Last(s) \in Procs /\ In(s, Last(s))
           /\ Front(s) \in Seq(Procs)
           /\ Once(Front(s))
           /\ \A r \in Procs : In(Front(s), r) <=> In(s, r) /\ r # Last(s)
<1> DEFINE f == Front(s)
           n == Len(s)
<1>1. n \in Nat \ {0} /\ DOMAIN s = 1 .. n
  BY EmptySeq
<1>2. Last(s) = s[n] /\ n \in DOMAIN s
  BY <1>1 DEF Last
<1>3. /\ f \in Seq(Procs) /\ Len(f) = n - 1
      /\ \A i \in 1 .. n - 1 : f[i] = s[i]
  BY <1>1 DEF Front
<1> HIDE DEF f
<1>4. DOMAIN f = 1 .. n - 1
  BY <1>1, <1>3
<1>5. \A i \in DOMAIN f : i \in DOMAIN s /\ i # n /\ f[i] = s[i]
  BY <1>1, <1>3, <1>4
<1>6. \A i \in DOMAIN s : i = n \/ (i \in DOMAIN f /\ f[i] = s[i])
  BY <1>1, <1>3, <1>4
<1>7. Once(f)
  BY <1>5 DEF Once
<1>8. \A r \in Procs : In(f, r) <=> In(s, r) /\ r # Last(s)
  BY <1>2, <1>5, <1>6 DEF In, Once
<1>9. In(s, Last(s)) /\ Last(s) \in Procs
  BY <1>1, <1>2 DEF In
<1> QED
  BY <1>3, <1>7, <1>8, <1>9 DEF f

-----------------------------------------------------------------------------
(* The links.                                                               *)

\* The links nx and pv lead through q and back to its first process.
Chain(q, nx, pv) ==
    /\ \A i \in DOMAIN q : i > 1 => nx[q[i - 1]] = q[i] /\ pv[q[i]] = q[i - 1]
    /\ nx[q[Len(q)]] = q[1] /\ pv[q[1]] = q[Len(q)]

Links == [Procs -> Procs \cup {NoProc}]

LEMMA IdleType == Idle \in Procs /\ NoProc \notin Procs
BY SchedulerAssumption DEF Idle, NoProc, Procs

\* What is behind a process of the ring is in the ring.
LEMMA ChainNext ==
    ASSUME NEW q \in Seq(Procs), q # <<>>, NEW nx, NEW pv, Chain(q, nx, pv),
           NEW p, In(q, p)
    PROVE  In(q, nx[p])
<1>1. Len(q) \in Nat \ {0} /\ DOMAIN q = 1 .. Len(q)
  BY EmptySeq
<1>2. PICK i \in DOMAIN q : q[i] = p
  BY DEF In
<1>3. CASE i = Len(q)
  BY <1>1, <1>2, <1>3 DEF Chain, In
<1>4. CASE i # Len(q)
  <2>1. i + 1 \in DOMAIN q /\ i + 1 > 1 /\ (i + 1) - 1 = i
    BY <1>1, <1>4
  <2>2. nx[q[i]] = q[i + 1]
    BY <2>1 DEF Chain
  <2> QED
    BY <1>2, <2>1, <2>2 DEF In
<1> QED
  BY <1>3, <1>4

\* The three statements of AddToReadyQueue put p behind the others.
LEMMA ChainAdd ==
    ASSUME NEW q \in Seq(Procs), q # <<>>, Once(q), NEW nx \in Links, NEW pv \in Links,
           Chain(q, nx, pv), NEW p \in Procs, ~In(q, p), NEW nn \in Links, NEW pp \in Links,
           \A r \in Procs : nn[r] = IF r = q[Len(q)] THEN p ELSE IF r = p THEN q[1] ELSE nx[r],
           \A r \in Procs : pp[r] = IF r = q[1] THEN p ELSE IF r = p THEN q[Len(q)] ELSE pv[r]
    PROVE  Chain(Append(q, p), nn, pp)
<1> DEFINE e == Append(q, p)
<1>1. /\ Len(q) \in Nat \ {0} /\ DOMAIN q = 1 .. Len(q)
      /\ \A i \in DOMAIN q : q[i] \in Procs /\ q[i] # p
  BY EmptySeq DEF In
<1>2. /\ Len(e) = Len(q) + 1 /\ DOMAIN e = 1 .. Len(q) + 1
      /\ \A i \in 1 .. Len(q) : e[i] = q[i]
      /\ e[Len(q) + 1] = p
  OBVIOUS
<1> HIDE DEF e
<1>3. ASSUME NEW i \in DOMAIN e, i > 1
      PROVE  nn[e[i - 1]] = e[i] /\ pp[e[i]] = e[i - 1]
  <2>1. CASE i = Len(q) + 1
    <3>1. i - 1 = Len(q) /\ e[i - 1] = q[Len(q)] /\ e[i] = p
      BY <1>1, <1>2, <2>1
    <3> QED
      BY <1>1, <3>1
  <2>2. CASE i # Len(q) + 1
    <3>1. /\ i \in DOMAIN q /\ i - 1 \in DOMAIN q /\ e[i] = q[i] /\ e[i - 1] = q[i - 1]
          /\ 1 \in DOMAIN q /\ Len(q) \in DOMAIN q /\ i - 1 # Len(q)
      BY <1>1, <1>2, <1>3, <2>2
    <3>2. q[i - 1] # q[Len(q)] /\ q[i] # q[1]
      BY <1>3, <3>1 DEF Once
    <3>3. nx[q[i - 1]] = q[i] /\ pv[q[i]] = q[i - 1]
      BY <1>3, <3>1 DEF Chain
    <3> QED
      BY <1>1, <3>1, <3>2, <3>3
  <2> QED
    BY <2>1, <2>2
<1>4. nn[e[Len(e)]] = e[1] /\ pp[e[1]] = e[Len(e)]
  BY <1>1, <1>2
<1> QED
  BY <1>3, <1>4 DEF Chain, e

\* Closing the links over p, which is not the first, leaves the rest.
LEMMA ChainRemove ==
    ASSUME NEW q \in Seq(Procs), Once(q), NEW nx \in Links, NEW pv \in Links,
           Chain(q, nx, pv), NEW p \in Procs, In(q, p), p # q[1], NEW nn \in Links,
           NEW pp \in Links,
           \A r \in Procs : nn[r] = IF r = pv[p] THEN nx[p] ELSE nx[r],
           \A r \in Procs : pp[r] = IF r = nx[p] THEN pv[p] ELSE pv[r]
    PROVE  /\ Chain(RemoveFirst(q, p), nn, pp)
           /\ RemoveFirst(q, p)[1] = q[1] /\ RemoveFirst(q, p) # <<>>
<1> DEFINE u == RemoveFirst(q, p)
           n == Len(q)
<1>1. PICK k \in DOMAIN q : q[k] = p
  BY DEF In
<1>2. /\ u \in Seq(Procs) /\ Len(u) = n - 1
      /\ \A i \in 1 .. n - 1 : u[i] = IF i < k THEN q[i] ELSE q[i + 1]
  BY <1>1, RemoveFirstProperties
<1> HIDE DEF u
<1>3. /\ n \in Nat /\ DOMAIN q = 1 .. n /\ k \in 2 .. n /\ DOMAIN u = 1 .. n - 1
      /\ \A i \in DOMAIN q : q[i] \in Procs
  BY <1>1, <1>2
<1>4. pv[p] = q[k - 1] /\ nx[p] = IF k = n THEN q[1] ELSE q[k + 1]
  <2>1. pv[p] = q[k - 1]
    BY <1>1, <1>3 DEF Chain
  <2>2. CASE k = n
    BY <1>1, <1>3, <2>1, <2>2 DEF Chain
  <2>3. CASE k # n
    <3>1. k + 1 \in DOMAIN q /\ k + 1 > 1 /\ (k + 1) - 1 = k
      BY <1>3, <2>3
    <3>2. nx[q[k]] = q[k + 1]
      BY <3>1 DEF Chain
    <3> QED
      BY <1>1, <2>1, <2>3, <3>2
  <2> QED
    BY <2>2, <2>3
<1>5. u[1] = q[1] /\ u # <<>>
  BY <1>2, <1>3
<1>6. \A i, j \in DOMAIN q : q[i] = q[j] <=> i = j
  BY DEF Once
<1>7. ASSUME NEW i \in DOMAIN u, i > 1
      PROVE  nn[u[i - 1]] = u[i] /\ pp[u[i]] = u[i - 1]
  <2>1. CASE i < k
    <3>1. /\ u[i] = q[i] /\ u[i - 1] = q[i - 1] /\ i \in DOMAIN q /\ i - 1 \in DOMAIN q
          /\ i - 1 # k - 1 /\ k - 1 \in DOMAIN q /\ i # 1 /\ i # k + 1 /\ 1 \in DOMAIN q
      BY <1>2, <1>3, <1>7, <2>1
    <3>2. q[i - 1] # pv[p] /\ q[i] # nx[p]
      BY <1>3, <1>4, <1>6, <3>1
    <3>3. nx[q[i - 1]] = q[i] /\ pv[q[i]] = q[i - 1]
      BY <1>7, <3>1 DEF Chain
    <3> QED
      BY <1>3, <3>1, <3>2, <3>3
  <2>2. CASE i = k
    <3>1. /\ u[i] = q[k + 1] /\ u[i - 1] = q[k - 1] /\ k + 1 \in DOMAIN q /\ k # n
          /\ k - 1 \in DOMAIN q
      BY <1>2, <1>3, <2>2
    <3> QED
      BY <1>3, <1>4, <3>1
  <2>3. CASE i > k
    <3>1. /\ u[i] = q[i + 1] /\ u[i - 1] = q[i] /\ i \in DOMAIN q /\ i + 1 \in DOMAIN q
          /\ (i + 1) - 1 = i /\ i + 1 > 1 /\ i + 1 # 1 /\ i + 1 # k + 1 /\ i # k - 1
          /\ k - 1 \in DOMAIN q /\ 1 \in DOMAIN q /\ k # n
      BY <1>2, <1>3, <1>7, <2>3
    <3>2. q[i] # pv[p] /\ q[i + 1] # nx[p]
      <4>1. k + 1 \in DOMAIN q
        BY <1>3, <3>1
      <4> QED
        BY <1>4, <1>6, <3>1, <4>1
    <3>3. nx[q[i]] = q[i + 1] /\ pv[q[i + 1]] = q[i]
      BY <3>1 DEF Chain
    <3> QED
      BY <1>3, <3>1, <3>2, <3>3
  <2> QED
    BY <1>3, <2>1, <2>2, <2>3
<1>8. nn[u[Len(u)]] = u[1] /\ pp[u[1]] = u[Len(u)]
  <2>1. CASE k = n
    <3>1. Len(u) = k - 1 /\ u[Len(u)] = q[k - 1] /\ u[1] = q[1] /\ q[1] \in Procs
          /\ q[k - 1] \in Procs
      BY <1>2, <1>3, <2>1
    <3> QED
      BY <1>4, <2>1, <3>1
  <2>2. CASE k # n
    <3>1. /\ u[Len(u)] = q[n] /\ u[1] = q[1] /\ n \in DOMAIN q /\ 1 \in DOMAIN q
          /\ k - 1 \in DOMAIN q /\ k + 1 \in DOMAIN q /\ n # k - 1 /\ k + 1 # 1
      BY <1>2, <1>3, <2>2
    <3>2. q[n] # pv[p] /\ q[1] # nx[p]
      BY <1>4, <1>6, <2>2, <3>1
    <3> QED
      BY <1>3, <3>1, <3>2 DEF Chain
  <2> QED
    BY <2>1, <2>2
<1> QED
  BY <1>5, <1>7, <1>8 DEF Chain, u

-----------------------------------------------------------------------------
(* The invariant.  The first part holds whatever the handler does, the     *)
(* second until it has torn the ring.                                      *)

States == {"free", "ready", "running", "blocked", "sleeping"}
Stages == {"rest"} \cup Adding \cup Leaving \cup Yielding \cup Unblocking
Runs(s) == s \in {"ready", "running"}

Types ==
    /\ TypeOK
    /\ head = Idle
    /\ \A p \in Procs : state[p] = "running" =>
          p = current /\ doing.at \notin {"age", "select", "switch"}
    /\ doing.at \in Leaving => doing.p # Idle
    /\ doing.at = "switch" => doing.best \in Procs
    /\ doing.at \in Adding \cup Leaving \cup {"clear"} => doing.p \in Procs

\* The history lists the processes that are ready or running, but for the one
\* the call in progress adds or takes out.
Settled(p) == p # doing.p \/ doing.at \notin Adding \cup Leaving

Members ==
    /\ Once(order) /\ order # <<>> /\ order[1] = Idle
    /\ \A p \in Procs : Settled(p) => (In(order, p) <=> Runs(state[p]))
    /\ doing.at \in Adding =>
          doing.p \in Procs /\ state[doing.p] = "ready" /\ ~In(order, doing.p)
    /\ doing.at \in Leaving =>
          /\ doing.p \in Procs /\ doing.to # "ready"
          /\ IF doing.to = "free" THEN state[doing.p] = "free" ELSE Runs(state[doing.p])
          /\ doing.at = "move" => ~In(order, doing.p)
    /\ doing.at = "clear" => doing.p \in Procs /\ state[doing.p] = "blocked"

\* The forward links, with the one a call in progress has rewritten put back.
LastOf(q) == q[Len(q)]
Fore == IF doing.at = "close" THEN [next EXCEPT ![LastOf(order)] = Idle]
        ELSE IF doing.at = "relink" THEN [next EXCEPT ![prev[doing.p]] = doing.p]
        ELSE next

Linked ==
    /\ Chain(order, Fore, prev)
    /\ doing.at \in {"link", "close"} => next[doing.p] = Idle /\ prev[doing.p] = LastOf(order)
    /\ doing.at = "close" => next[LastOf(order)] = doing.p
    /\ doing.at = "relink" /\ In(order, doing.p) => next[prev[doing.p]] = next[doing.p]
    /\ \A p \in Procs : In(order, p) \/ (p = doing.p /\ doing.at \in {"link", "close", "move"})
          \/ (next[p] = NoProc /\ prev[p] = NoProc)

\* What a call in progress has found in the ring is in it.
Cursor ==
    /\ doing.at \in {"age", "select"} => In(order, doing.p)
    /\ doing.at = "select" => doing.best = NoProc \/ In(order, doing.best)
    /\ doing.at = "switch" => In(order, doing.best)
    /\ doing.at \in {"rest"} \cup Adding \cup Unblocking => In(order, current)

OnStack ==
    /\ Once(stack) /\ ~In(stack, Idle) /\ ~neverStarted[Idle]
    /\ \A p \in Procs \ {Idle} : In(stack, p) <=> state[p] # "free" /\ ~neverStarted[p]

\* A sleeper, or a process that is about to be one, has its entry primed; an entry
\* that is primed is the first of a sleeper, unless its process once returned
\* asleep.
Asleep(p) == state[p] = "sleeping" \/ (p = doing.p /\ doing.at \in Leaving /\ doing.to = "sleeping")

TimerInv ==
    /\ \A e \in primed : timerOf[e] \in Procs
    /\ \A p \in Procs : Asleep(p) => FoundAt(timerOf, p) \subseteq primed
    /\ \A p \in Procs \ orphaned : \A e \in primed :
          timerOf[e] = p => Asleep(p) /\ e \in FoundAt(timerOf, p)

Good == Members /\ Linked /\ Cursor /\ OnStack /\ TimerInv

SchedInv == Types /\ (~torn => Good)

LEMMA StageTypes ==
    /\ Adding = {"add", "link", "close"} /\ Leaving = {"unlink", "relink", "move"}
    /\ Yielding = {"yield", "age", "select", "switch"} /\ Unblocking = {"scan", "clear"}
    /\ \A at : \A p : /\ At(at, p).at = at /\ At(at, p).p = p /\ At(at, p).best = NoProc
                      /\ At(at, p).kinds = {} /\ At(at, p).to = "ready"
    /\ AtRest = At("rest", Idle)
    /\ \A at \in Stages : \A p \in Procs \cup {NoProc} :
          At(at, p) \in [at : Stages, p : Procs \cup {NoProc}, best : Procs \cup {NoProc},
                         kinds : SUBSET Kinds, to : {"ready", "sleeping", "blocked", "free"}]
BY DEF Adding, Leaving, Yielding, Unblocking, At, AtRest, Stages

LEMMA SchedInit == Init => SchedInv
<1> SUFFICES ASSUME Init PROVE SchedInv
  OBVIOUS
<1> USE IdleType
<1>1. doing = At("rest", Idle)
  BY StageTypes DEF Init
<1>2. order = <<Idle>> /\ stack = <<>> /\ head = Idle /\ current = Idle
  BY DEF Init
<1>3. /\ order \in Seq(Procs) /\ Once(order) /\ order # <<>> /\ order[1] = Idle
      /\ Len(order) = 1 /\ \A r : In(order, r) <=> r = Idle
  BY <1>2 DEF Once, In
<1>4. stack \in Seq(Procs) /\ Once(stack) /\ \A r : ~In(stack, r)
  BY <1>2 DEF Once, In
<1>5. "rest" \in Stages
  BY DEF Stages
<1>6. doing \in [at : Stages, p : Procs \cup {NoProc}, best : Procs \cup {NoProc},
                 kinds : SUBSET Kinds, to : {"ready", "sleeping", "blocked", "free"}]
  BY <1>1, <1>5, StageTypes
<1>7. TypeOK
  <2>1. /\ state \in [Procs -> States] /\ priority \in [Procs -> Nat]
        /\ aging \in [Procs -> 0 .. MaxAging] /\ neverStarted \in [Procs -> BOOLEAN]
        /\ eventMask \in [Procs -> SUBSET Kinds]
    BY SchedulerAssumption DEF Init, States
  <2>2. /\ next \in [Procs -> Procs \cup {NoProc}] /\ prev \in [Procs -> Procs \cup {NoProc}]
        /\ wheel \subseteq WheelKinds /\ timerOf \in [TimerEntries -> Procs \cup {NoProc}]
        /\ primed \subseteq TimerEntries /\ orphaned \subseteq Procs /\ torn \in BOOLEAN
    BY DEF Init
  <2> QED
    BY <1>2, <1>3, <1>4, <1>6, <2>1, <2>2 DEF TypeOK, Stages, States
<1>8. doing.at = "rest" /\ doing.p = Idle
  BY <1>1, StageTypes
<1>9. Types
  BY <1>2, <1>7, <1>8, StageTypes DEF Types, Init
<1>10. Members
  BY <1>3, <1>8, StageTypes DEF Members, Settled, Runs, Init
<1>11. Linked
  <2>1. Fore = next /\ next[Idle] = Idle /\ prev[Idle] = Idle /\ DOMAIN order = {1}
    BY <1>2, <1>8 DEF Fore, Init
  <2>2. Chain(order, Fore, prev)
    BY <1>3, <2>1 DEF Chain
  <2> QED
    BY <1>3, <1>8, <2>2 DEF Linked, Init
<1>12. Cursor
  BY <1>2, <1>3, <1>8 DEF Cursor
<1>13. OnStack
  BY <1>4 DEF OnStack, Init
<1>14. TimerInv
  BY <1>8, StageTypes DEF TimerInv, Init, Asleep
<1> QED
  BY <1>9, <1>10, <1>11, <1>12, <1>13, <1>14 DEF SchedInv, Good

-----------------------------------------------------------------------------
(* The statements of AddToReadyQueue and RemoveFromReadyQueue.             *)

\* The head is the idle process, and the end of the ring is the last one of the
\* history.
LEMMA Ends ==
    ASSUME Types, Good
    PROVE  /\ order \in Seq(Procs) /\ Len(order) \in Nat \ {0}
           /\ order[1] = Idle /\ head = Idle /\ In(order, Idle)
           /\ LastOf(order) \in Procs /\ In(order, LastOf(order)) /\ Hindmost = LastOf(order)
           /\ Fore \in Links /\ next \in Links /\ prev \in Links
<1>1. order \in Seq(Procs) /\ Len(order) \in Nat \ {0} /\ DOMAIN order = 1 .. Len(order)
  BY EmptySeq DEF Types, TypeOK, Good, Members
<1>2. next \in Links /\ prev \in Links
  BY DEF Types, TypeOK, Links
<1>3. Fore \in Links
  BY <1>2, IdleType DEF Fore, Links, Types, TypeOK
<1>4. order[1] = Idle /\ head = Idle /\ prev[order[1]] = LastOf(order)
  BY DEF Good, Members, Types, Linked, Chain, LastOf
<1>5. In(order, Idle) /\ In(order, LastOf(order)) /\ LastOf(order) \in Procs
  BY <1>1, <1>4 DEF In, LastOf
<1> QED
  BY <1>1, <1>2, <1>3, <1>4, <1>5 DEF Hindmost

LEMMA LinkNewKeeps ==
    ASSUME Types, Good, LinkNew
    PROVE  Good'
<1>1. /\ doing.at = "add" /\ doing' = [doing EXCEPT !.at = "link"]
      /\ next' = [next EXCEPT ![doing.p] = head]
      /\ prev' = [prev EXCEPT ![doing.p] = Hindmost]
      /\ state' = state /\ neverStarted' = neverStarted /\ order' = order
      /\ current' = current /\ stack' = stack /\ timerOf' = timerOf /\ primed' = primed
      /\ orphaned' = orphaned
  BY DEF LinkNew, Running, tableVars, timerVars
<1>2. /\ doing'.at = "link" /\ doing'.p = doing.p /\ doing'.best = doing.best
      /\ doing'.to = doing.to
  BY <1>1 DEF Types, TypeOK
<1>3. doing.p \in Procs /\ state[doing.p] = "ready" /\ ~In(order, doing.p)
  BY <1>1, StageTypes DEF Good, Members
<1>4. Members'
  BY <1>1, <1>2, <1>3, StageTypes DEF Good, Members, Settled
<1>5. Linked'
  <2>1. Fore = next /\ Fore' = next'
    BY <1>1, <1>2 DEF Fore
  <2>2. /\ \A r \in Procs : r # doing.p => next'[r] = next[r] /\ prev'[r] = prev[r]
        /\ next'[doing.p] = Idle /\ prev'[doing.p] = LastOf(order)
    BY <1>1, <1>3, Ends DEF Links
  <2>3. \A i \in DOMAIN order : order[i] \in Procs /\ order[i] # doing.p
    BY <1>3, Ends DEF In
  <2>4. Chain(order, next', prev')
    <3>1. \A i \in DOMAIN order : i > 1 => i - 1 \in DOMAIN order
      BY Ends
    <3>2. 1 \in DOMAIN order /\ Len(order) \in DOMAIN order
      BY Ends
    <3> QED
      BY <2>1, <2>2, <2>3, <3>1, <3>2 DEF Good, Linked, Chain
  <2> QED
    BY <1>1, <1>2, <1>3, <2>1, <2>2, <2>4 DEF Good, Linked
<1>6. Cursor'
  BY <1>1, <1>2, StageTypes DEF Good, Cursor
<1>7. OnStack'
  BY <1>1 DEF Good, OnStack
<1>8. TimerInv'
  BY <1>1, <1>2, StageTypes DEF Good, TimerInv, Asleep
<1> QED
  BY <1>4, <1>5, <1>6, <1>7, <1>8 DEF Good

LEMMA LinkLastKeeps ==
    ASSUME Types, Good, LinkLast
    PROVE  Good'
<1>1. /\ doing.at = "link" /\ doing' = [doing EXCEPT !.at = "close"]
      /\ next' = [next EXCEPT ![Hindmost] = doing.p]
      /\ prev' = prev
      /\ state' = state /\ neverStarted' = neverStarted /\ order' = order
      /\ current' = current /\ stack' = stack /\ timerOf' = timerOf /\ primed' = primed
      /\ orphaned' = orphaned
  BY DEF LinkLast, Running, tableVars, timerVars
<1>2. /\ doing'.at = "close" /\ doing'.p = doing.p /\ doing'.best = doing.best
      /\ doing'.to = doing.to
  BY <1>1 DEF Types, TypeOK
<1>3. doing.p \in Procs /\ state[doing.p] = "ready" /\ ~In(order, doing.p)
  BY <1>1, StageTypes DEF Good, Members
<1>4. Members'
  BY <1>1, <1>2, <1>3, StageTypes DEF Good, Members, Settled
<1>5. Linked'
  <2>1. Fore = next /\ Fore' = [next' EXCEPT ![LastOf(order)] = Idle]
    BY <1>1, <1>2 DEF Fore
  <2>2. next[LastOf(order)] = Idle
    BY <2>1, Ends DEF Good, Linked, Chain, LastOf
  <2>3. Fore' = next
    BY <1>1, <2>1, <2>2, Ends DEF Links
  <2>4. LastOf(order) # doing.p
    BY <1>3, Ends
  <2>5. /\ next'[doing.p] = next[doing.p] /\ next'[LastOf(order)] = doing.p
        /\ \A r \in Procs : r # LastOf(order) => next'[r] = next[r]
    BY <1>1, <1>3, <2>4, Ends DEF Links
  <2> QED
    BY <1>1, <1>2, <1>3, <2>1, <2>3, <2>5, Ends DEF Good, Linked
<1>6. Cursor'
  BY <1>1, <1>2, StageTypes DEF Good, Cursor
<1>7. OnStack'
  BY <1>1 DEF Good, OnStack
<1>8. TimerInv'
  BY <1>1, <1>2, StageTypes DEF Good, TimerInv, Asleep
<1> QED
  BY <1>4, <1>5, <1>6, <1>7, <1>8 DEF Good

LEMMA CloseRingKeeps ==
    ASSUME Types, Good, CloseRing
    PROVE  Good'
<1>1. /\ doing.at = "close"
      /\ doing' = IF doing.kinds = {} THEN AtRest ELSE [doing EXCEPT !.at = "scan"]
      /\ next' = next /\ prev' = [prev EXCEPT ![head] = doing.p]
      /\ order' = Append(order, doing.p)
      /\ state' = state /\ neverStarted' = neverStarted
      /\ current' = current /\ stack' = stack /\ timerOf' = timerOf /\ primed' = primed
      /\ orphaned' = orphaned
  BY DEF CloseRing, Running, tableVars, timerVars
<1>2. doing'.at \in {"rest", "scan"}
  BY <1>1, StageTypes DEF Types, TypeOK
<1>3. doing.p \in Procs /\ state[doing.p] = "ready" /\ ~In(order, doing.p)
  BY <1>1, StageTypes DEF Good, Members
<1>4. /\ order' \in Seq(Procs) /\ Once(order')
      /\ \A r \in Procs : In(order', r) <=> In(order, r) \/ r = doing.p
  BY <1>1, <1>3, PushOnce, Ends DEF Good, Members
<1>5. order' # <<>> /\ order'[1] = Idle
  BY <1>1, <1>3, Ends
<1>6. Members'
  BY <1>1, <1>2, <1>3, <1>4, <1>5, StageTypes DEF Good, Members, Settled, Runs
<1>7. Linked'
  <2>1. Fore = [next EXCEPT ![LastOf(order)] = Idle] /\ Fore' = next'
    BY <1>1, <1>2 DEF Fore
  <2>2. next[doing.p] = Idle /\ prev[doing.p] = LastOf(order) /\ next[LastOf(order)] = doing.p
    BY <1>1 DEF Good, Linked
  <2>3. LastOf(order) # doing.p /\ Idle # doing.p
    BY <1>3, Ends
  <2>4. \A r \in Procs : next'[r] = IF r = LastOf(order) THEN doing.p
                                    ELSE IF r = doing.p THEN Idle ELSE Fore[r]
    BY <1>1, <2>1, <2>2, <2>3, Ends DEF Links
  <2>5. \A r \in Procs : prev'[r] = IF r = Idle THEN doing.p
                                    ELSE IF r = doing.p THEN LastOf(order) ELSE prev[r]
    BY <1>1, <2>2, <2>3, Ends DEF Links
  <2>6. next' \in Links /\ prev' \in Links
    BY <1>1, <1>3, Ends DEF Links
  <2>7. Chain(order', next', prev')
    <3>1. order # <<>> /\ Once(order) /\ Chain(order, Fore, prev)
      BY DEF Good, Members, Linked
    <3>2. /\ \A r \in Procs : next'[r] = IF r = order[Len(order)] THEN doing.p
                                       ELSE IF r = doing.p THEN order[1] ELSE Fore[r]
          /\ \A r \in Procs : prev'[r] = IF r = order[1] THEN doing.p
                                       ELSE IF r = doing.p THEN order[Len(order)] ELSE prev[r]
      BY <2>4, <2>5, Ends DEF LastOf
    <3>3. order \in Seq(Procs) /\ Fore \in Links /\ prev \in Links
      BY Ends
    <3> HIDE DEF Fore
    <3>4. Chain(Append(order, doing.p), next', prev')
      BY <1>3, <2>6, <3>1, <3>2, <3>3, ChainAdd
    <3> QED
      BY <1>1, <3>4
  <2>8. \A r \in Procs : In(order', r) \/ (next'[r] = NoProc /\ prev'[r] = NoProc)
    BY <1>1, <1>3, <1>4, Ends DEF Good, Linked, Links
  <2> QED
    BY <1>2, <2>1, <2>7, <2>8 DEF Linked
<1>8. Cursor'
  BY <1>1, <1>2, <1>4, StageTypes DEF Good, Cursor, Types, TypeOK
<1>9. OnStack'
  BY <1>1 DEF Good, OnStack
<1>10. TimerInv'
  BY <1>1, <1>2, StageTypes DEF Good, TimerInv, Asleep
<1> QED
  BY <1>6, <1>7, <1>8, <1>9, <1>10 DEF Good

LEMMA UnlinkKeeps ==
    ASSUME Types, Good, Unlink
    PROVE  Good'
<1>1. /\ doing.at = "unlink" /\ doing' = [doing EXCEPT !.at = "relink"]
      /\ next' = Written(next, prev[doing.p], next[doing.p])
      /\ prev' = prev
      /\ state' = state /\ neverStarted' = neverStarted /\ order' = order
      /\ current' = current /\ stack' = stack /\ timerOf' = timerOf /\ primed' = primed
      /\ orphaned' = orphaned
  BY DEF Unlink, Running, tableVars, timerVars
<1>2. /\ doing'.at = "relink" /\ doing'.p = doing.p /\ doing'.best = doing.best
      /\ doing'.to = doing.to
  BY <1>1 DEF Types, TypeOK
<1>3. doing.p \in Procs
  BY <1>1, StageTypes DEF Good, Members
<1>4. Members'
  BY <1>1, <1>2, <1>3, StageTypes DEF Good, Members, Settled
<1>5. Linked'
  <2>1. Fore = next /\ Fore' = [next' EXCEPT ![prev[doing.p]] = doing.p]
    BY <1>1, <1>2 DEF Fore
  <2>2. /\ next' \in Links
        /\ \A r \in Procs : next'[r] = IF r = prev[doing.p] THEN next[doing.p] ELSE next[r]
    BY <1>1, <1>3, Ends DEF Written, Links
  <2>3. CASE In(order, doing.p)
    <3>1. prev[doing.p] \in Procs /\ next[prev[doing.p]] = doing.p /\ doing.p # prev[doing.p]
      <4>1. PICK i \in DOMAIN order : order[i] = doing.p
        BY <2>3 DEF In
      <4>2. i # 1 /\ i > 1 /\ i - 1 \in DOMAIN order
        BY <1>1, <4>1, Ends, StageTypes DEF Types
      <4>3. prev[doing.p] = order[i - 1] /\ next[order[i - 1]] = doing.p
        BY <2>1, <4>1, <4>2 DEF Good, Linked, Chain
      <4>4. order[i - 1] # doing.p /\ order[i - 1] \in Procs
        BY <4>1, <4>2, Ends DEF Good, Members, Once
      <4> QED
        BY <4>3, <4>4
    <3>2. Fore' = next
      BY <2>1, <2>2, <3>1, Ends DEF Links
    <3>3. \A p \in Procs : In(order, p) \/ (next'[p] = NoProc /\ prev'[p] = NoProc)
      <4>1. In(order, prev[doing.p])
        <5>1. PICK i \in DOMAIN order : order[i] = doing.p
          BY <2>3 DEF In
        <5>2. i # 1 /\ i > 1 /\ i - 1 \in DOMAIN order
          BY <1>1, <5>1, Ends, StageTypes DEF Types
        <5> QED
          BY <2>1, <5>1, <5>2 DEF Good, Linked, Chain, In
      <4> QED
        BY <1>1, <2>2, <4>1 DEF Good, Linked
    <3>4. next'[doing.p] = next[doing.p] /\ next'[prev[doing.p]] = next[doing.p]
      BY <1>3, <2>2, <3>1
    <3> HIDE DEF Fore
    <3>5. Chain(order, Fore, prev)
      BY DEF Good, Linked
    <3> QED
      BY <1>1, <1>2, <2>1, <3>2, <3>3, <3>4, <3>5 DEF Linked
  <2>4. CASE ~In(order, doing.p)
    <3>1. prev[doing.p] = NoProc
      BY <1>1, <1>3, <2>4 DEF Good, Linked
    <3>2. next' = next
      BY <2>2, <3>1, IdleType, Ends DEF Links
    <3>3. Fore' = next
      BY <2>1, <3>1, <3>2, IdleType, Ends DEF Links
    <3> QED
      BY <1>1, <1>2, <2>1, <2>4, <3>2, <3>3 DEF Good, Linked
  <2> QED
    BY <2>3, <2>4
<1>6. Cursor'
  BY <1>1, <1>2, StageTypes DEF Good, Cursor
<1>7. OnStack'
  BY <1>1 DEF Good, OnStack
<1>8. TimerInv'
  BY <1>1, <1>2, StageTypes DEF Good, TimerInv, Asleep
<1> QED
  BY <1>4, <1>5, <1>6, <1>7, <1>8 DEF Good

LEMMA RelinkKeeps ==
    ASSUME Types, Good, Relink
    PROVE  Good'
<1>1. /\ doing.at = "relink" /\ doing' = [doing EXCEPT !.at = "move"]
      /\ next' = next /\ prev' = Written(prev, next[doing.p], prev[doing.p])
      /\ order' = RemoveFirst(order, doing.p)
      /\ state' = state /\ neverStarted' = neverStarted
      /\ current' = current /\ stack' = stack /\ timerOf' = timerOf /\ primed' = primed
      /\ orphaned' = orphaned
  BY DEF Relink, Running, tableVars, timerVars
<1>2. /\ doing'.at = "move" /\ doing'.p = doing.p /\ doing'.best = doing.best
      /\ doing'.to = doing.to
  BY <1>1 DEF Types, TypeOK
<1>3. doing.p \in Procs /\ doing.p # Idle
  BY <1>1, StageTypes DEF Good, Members, Types
<1>4. /\ order' \in Seq(Procs) /\ Once(order')
      /\ \A r \in Procs : In(order', r) <=> In(order, r) /\ r # doing.p
  BY <1>1, <1>3, RemovedOnce, Ends DEF Good, Members
<1>5. Fore = [next EXCEPT ![prev[doing.p]] = doing.p] /\ Fore' = next
  BY <1>1, <1>2 DEF Fore
<1>6. /\ prev' \in Links
      /\ \A r \in Procs : prev'[r] = IF r = next[doing.p] THEN prev[doing.p] ELSE prev[r]
  BY <1>1, <1>3, Ends DEF Written, Links
<1>7. /\ Chain(order', next', prev') /\ order'[1] = Idle /\ order' # <<>>
      /\ \A p \in Procs : In(order', p) \/ p = doing.p \/ (next'[p] = NoProc /\ prev'[p] = NoProc)
  <2>1. CASE In(order, doing.p)
    <3>1. next[prev[doing.p]] = next[doing.p]
      BY <1>1, <2>1 DEF Good, Linked
    <3>2. PICK i \in DOMAIN order : order[i] = doing.p
      BY <2>1 DEF In
    <3>3. i # 1 /\ i > 1 /\ i - 1 \in DOMAIN order
      BY <1>3, <3>2, Ends
    <3>4. prev[doing.p] = order[i - 1]
      BY <3>2, <3>3 DEF Good, Linked, Chain
    <3>5. prev[doing.p] \in Procs /\ prev[doing.p] # doing.p /\ In(order, prev[doing.p])
      BY <3>2, <3>3, <3>4, Ends DEF Good, Members, Once, In
    <3>6. /\ Fore[doing.p] = next[doing.p]
          /\ \A r \in Procs : next'[r] = IF r = prev[doing.p] THEN Fore[doing.p] ELSE Fore[r]
      BY <1>1, <1>3, <1>5, <3>1, <3>5, Ends DEF Links
    <3>7. \A r \in Procs : prev'[r] = IF r = Fore[doing.p] THEN prev[doing.p] ELSE prev[r]
      BY <1>6, <3>6
    <3>8. doing.p # order[1] /\ next' \in Links
      BY <1>1, <1>3, Ends
    <3>9. /\ order \in Seq(Procs) /\ Once(order) /\ Fore \in Links /\ prev \in Links
          /\ Chain(order, Fore, prev)
      BY Ends DEF Good, Members, Linked
    <3> HIDE DEF Fore
    <3>10. /\ Chain(RemoveFirst(order, doing.p), next', prev')
           /\ RemoveFirst(order, doing.p)[1] = order[1] /\ RemoveFirst(order, doing.p) # <<>>
      BY <1>3, <1>6, <2>1, <3>6, <3>7, <3>8, <3>9, ChainRemove
    <3>11. In(order, Fore[doing.p])
      BY <2>1, <3>9, Ends, ChainNext
    <3>12. \A p \in Procs : In(order', p) \/ p = doing.p \/ (next'[p] = NoProc /\ prev'[p] = NoProc)
      BY <1>1, <1>4, <1>6, <3>6, <3>11 DEF Good, Linked
    <3> QED
      BY <1>1, <3>10, <3>12, Ends
  <2>2. CASE ~In(order, doing.p)
    <3>1. prev[doing.p] = NoProc /\ next[doing.p] = NoProc
      BY <1>1, <1>3, <2>2 DEF Good, Linked
    <3>2. prev' = prev /\ Fore = next
      BY <1>5, <1>6, <3>1, IdleType, Ends DEF Links
    <3>3. order' = order
      BY <1>1, <1>3, <2>2, RemoveFirstProperties, Ends DEF In, Good, Members
    <3> QED
      BY <1>1, <3>2, <3>3, Ends DEF Good, Linked
  <2> QED
    BY <2>1, <2>2
<1>8. Members'
  BY <1>1, <1>2, <1>3, <1>4, <1>7, StageTypes DEF Good, Members, Settled
<1>9. Linked'
  BY <1>1, <1>2, <1>5, <1>7 DEF Linked
<1>10. Cursor'
  BY <1>1, <1>2, StageTypes DEF Cursor
<1>11. OnStack'
  BY <1>1 DEF Good, OnStack
<1>12. TimerInv'
  BY <1>1, <1>2, StageTypes DEF Good, TimerInv, Asleep
<1> QED
  BY <1>8, <1>9, <1>10, <1>11, <1>12 DEF Good

LEMMA MoveHeadKeeps ==
    ASSUME Types, Good, MoveHead
    PROVE  Good'
<1>1. /\ doing.at = "move" /\ doing' = At("yield", NoProc)
      /\ next' = [next EXCEPT ![doing.p] = NoProc]
      /\ prev' = [prev EXCEPT ![doing.p] = NoProc]
      /\ state' = [state EXCEPT ![doing.p] = doing.to]
      /\ neverStarted' = neverStarted /\ order' = order
      /\ current' = current /\ stack' = stack /\ timerOf' = timerOf /\ primed' = primed
      /\ orphaned' = orphaned
  BY DEF MoveHead, Running, timerVars
<1>2. doing'.at = "yield" /\ doing'.p = NoProc
  BY <1>1, StageTypes
<1>3. doing.p \in Procs /\ doing.p # Idle /\ ~In(order, doing.p) /\ doing.to \in {"sleeping", "blocked", "free"}
  BY <1>1, StageTypes DEF Good, Members, Types, TypeOK
<1>4. \A p \in Procs : state'[p] = IF p = doing.p THEN doing.to ELSE state[p]
  BY <1>1 DEF Types, TypeOK
<1>5. Members'
  BY <1>1, <1>2, <1>3, <1>4, IdleType, StageTypes DEF Good, Members, Settled, Runs
<1>6. Linked'
  <2>1. Fore = next /\ Fore' = next'
    BY <1>1, <1>2 DEF Fore
  <2>2. /\ \A r \in Procs : r # doing.p => next'[r] = next[r] /\ prev'[r] = prev[r]
        /\ next'[doing.p] = NoProc /\ prev'[doing.p] = NoProc
    BY <1>1, <1>3, Ends DEF Links
  <2>3. \A i \in DOMAIN order : order[i] \in Procs /\ order[i] # doing.p
    BY <1>3, Ends DEF In
  <2>4. Chain(order, next', prev')
    <3>1. \A i \in DOMAIN order : i > 1 => i - 1 \in DOMAIN order
      BY Ends
    <3>2. 1 \in DOMAIN order /\ Len(order) \in DOMAIN order
      BY Ends
    <3> QED
      BY <2>1, <2>2, <2>3, <3>1, <3>2 DEF Good, Linked, Chain
  <2> QED
    BY <1>1, <1>2, <1>3, <2>1, <2>2, <2>4 DEF Good, Linked
<1>7. Cursor'
  BY <1>1, <1>2, StageTypes DEF Cursor
<1>8. OnStack'
  BY <1>1, <1>3, <1>4, StageTypes DEF Good, OnStack, Members, Runs
<1>9. TimerInv'
  <2>1. \A p \in Procs : Asleep(p)' <=> Asleep(p)
    BY <1>1, <1>2, <1>3, <1>4, StageTypes DEF Good, Members, Asleep, Runs
  <2> QED
    BY <1>1, <2>1 DEF Good, TimerInv
<1> QED
  BY <1>5, <1>6, <1>7, <1>8, <1>9 DEF Good

-----------------------------------------------------------------------------
(* Proc_Yield.                                                              *)

\* A step that leaves the ring and the timers alone, outside the statements that
\* rewrite links, keeps what is said of them.
LEMMA RingUntouched ==
    ASSUME Types, Good, next' = next, prev' = prev, order' = order,
           doing.at \notin {"link", "close", "relink", "move"},
           doing'.at \notin {"link", "close", "relink", "move"}
    PROVE  Linked'
<1>1. Fore = next /\ Fore' = next'
  BY DEF Fore
<1> QED
  BY <1>1 DEF Good, Linked

LEMMA YieldKeeps ==
    ASSUME Types, Good, ProcYield
    PROVE  Good'
<1>1. /\ doing.at \in {"rest", "yield"}
      /\ \/ /\ state[current] = "running" /\ state' = [state EXCEPT ![current] = "ready"]
            /\ doing' = At("age", head)
         \/ state' = state /\ doing' = At("select", head)
      /\ next' = next /\ prev' = prev /\ order' = order
      /\ neverStarted' = neverStarted /\ current' = current /\ stack' = stack
      /\ timerOf' = timerOf /\ primed' = primed /\ orphaned' = orphaned
  BY DEF ProcYield, Quiet, Running, ringVars, timerVars, Stopped
<1>2. doing'.at \in {"age", "select"} /\ doing'.p = Idle /\ doing'.best = NoProc
  BY <1>1, Ends, StageTypes
<1>3. \A p \in Procs : state'[p] = state[p] \/ (state[p] = "running" /\ state'[p] = "ready")
  BY <1>1 DEF Types, TypeOK
<1>4. Members'
  BY <1>1, <1>2, <1>3, StageTypes DEF Good, Members, Settled, Runs
<1>5. Linked'
  BY <1>1, <1>2, RingUntouched
<1>6. Cursor'
  BY <1>1, <1>2, Ends, StageTypes DEF Cursor
<1>7. OnStack'
  BY <1>1, <1>3 DEF Good, OnStack
<1>8. TimerInv'
  <2>1. \A p \in Procs : Asleep(p)' <=> Asleep(p)
    BY <1>1, <1>2, <1>3, StageTypes DEF Asleep
  <2> QED
    BY <1>1, <2>1 DEF Good, TimerInv
<1> QED
  BY <1>4, <1>5, <1>6, <1>7, <1>8 DEF Good

LEMMA WalkKeeps ==
    ASSUME Types, Good, AgeNext \/ SelectNext
    PROVE  Good'
<1>1. /\ doing.at \in {"age", "select"} /\ doing'.at \in {"age", "select", "switch"}
      /\ state' = state /\ next' = next /\ prev' = prev /\ order' = order /\ head' = head
      /\ neverStarted' = neverStarted /\ current' = current /\ stack' = stack
      /\ timerOf' = timerOf /\ primed' = primed /\ orphaned' = orphaned
  <2>1. CASE AgeNext
    <3>1. [doing EXCEPT !.p = next[doing.p]].at = doing.at
      BY DEF Types, TypeOK
    <3> QED
      BY <2>1, <3>1, StageTypes DEF AgeNext, Running, ringVars, timerVars
  <2>2. CASE SelectNext
    <3>1. \A a, q, b : [doing EXCEPT !.at = a, !.p = q, !.best = b].at = a
      BY DEF Types, TypeOK
    <3> QED
      BY <2>2, <3>1 DEF SelectNext, Running, ringVars, timerVars, tableVars
  <2> QED
    BY <2>1, <2>2
<1>2. In(order, doing.p) /\ In(order, next[doing.p]) /\ doing.p \in Procs
  <2>1. In(order, doing.p) /\ order # <<>> /\ Fore = next /\ Chain(order, Fore, prev)
    BY <1>1 DEF Good, Cursor, Members, Linked, Fore
  <2>2. In(order, next[doing.p])
    BY <2>1, Ends, ChainNext
  <2> QED
    BY <2>1, <2>2, Ends DEF In
<1>3. Members'
  BY <1>1, StageTypes DEF Good, Members, Settled
<1>4. Linked'
  BY <1>1, RingUntouched
<1>5. Cursor'
  <2>1. CASE AgeNext
    <3>1. LET d == [doing EXCEPT !.p = next[doing.p]] IN d.at = doing.at /\ d.p = next[doing.p]
      BY DEF Types, TypeOK
    <3>2. doing' = At("select", Idle) \/ doing' = [doing EXCEPT !.p = next[doing.p]]
      BY <2>1, Ends DEF AgeNext
    <3>3. /\ At("select", Idle).at = "select" /\ At("select", Idle).p = Idle
          /\ At("select", Idle).best = NoProc /\ doing.at = "age"
      BY <2>1, StageTypes DEF AgeNext, Running
    <3>4. \/ doing'.at = "select" /\ doing'.p = Idle /\ doing'.best = NoProc
          \/ doing'.at = "age" /\ doing'.p = next[doing.p]
      BY <3>1, <3>2, <3>3
    <3> QED
      BY <1>1, <1>2, <3>4, Ends, StageTypes DEF Cursor
  <2>2. CASE SelectNext
    <3> DEFINE a == IF next[doing.p] = head THEN "switch" ELSE "select"
               b == IF doing.best = NoProc \/ Score(doing.p) > Score(doing.best)
                    THEN doing.p ELSE doing.best
    <3>1. doing' = [doing EXCEPT !.at = a, !.p = next[doing.p], !.best = b]
      BY <2>2 DEF SelectNext
    <3>2. doing'.at = a /\ doing'.p = next[doing.p] /\ doing'.best = b
      <4> HIDE DEF a, b
      <4> QED
        BY <3>1 DEF Types, TypeOK
    <3>3. /\ doing.at = "select" /\ a \in {"select", "switch"}
          /\ b = doing.p \/ (doing.best # NoProc /\ b = doing.best)
      BY <2>2 DEF SelectNext, Running
    <3> HIDE DEF a, b
    <3>4. In(order, doing'.best)
      BY <1>2, <3>2, <3>3 DEF Good, Cursor
    <3> QED
      BY <1>1, <1>2, <3>2, <3>3, <3>4, StageTypes DEF Cursor
  <2> QED
    BY <2>1, <2>2
<1>6. OnStack'
  BY <1>1 DEF Good, OnStack
<1>7. TimerInv'
  BY <1>1, StageTypes DEF Good, TimerInv, Asleep
<1> QED
  BY <1>3, <1>4, <1>5, <1>6, <1>7 DEF Good

LEMMA SwitchKeeps ==
    ASSUME Types, Good, Switch
    PROVE  Good'
<1> DEFINE p == doing.best
<1>1. /\ doing.at = "switch" /\ doing' = AtRest /\ current' = p
      /\ next' = next /\ prev' = prev /\ order' = order
      /\ timerOf' = timerOf /\ primed' = primed /\ orphaned' = orphaned
      /\ \/ state' = state /\ neverStarted' = neverStarted /\ stack' = stack
         \/ /\ state' = [state EXCEPT ![p] = "running"]
            /\ neverStarted' = [neverStarted EXCEPT ![p] = FALSE]
            /\ stack' = IF neverStarted[p] THEN Append(stack, p) ELSE stack
  BY DEF Switch, Running, ringVars, timerVars
<1>2. doing'.at = "rest" /\ doing'.p = Idle
  BY <1>1, StageTypes
<1>3. p \in Procs /\ In(order, p) /\ Runs(state[p])
  BY <1>1, StageTypes DEF Types, Good, Cursor, Members, Settled
<1> HIDE DEF p
<1>4. \A r \in Procs : state'[r] = state[r] \/ (r = p /\ state'[r] = "running")
  BY <1>1, <1>3 DEF Types, TypeOK
<1>5. Members'
  BY <1>1, <1>2, <1>3, <1>4, StageTypes DEF Good, Members, Settled, Runs
<1>6. Linked'
  BY <1>1, <1>2, RingUntouched
<1>7. Cursor'
  BY <1>1, <1>2, <1>3, StageTypes DEF Cursor
<1>8. OnStack'
  <2>1. CASE state' = state /\ neverStarted' = neverStarted /\ stack' = stack
    BY <2>1 DEF Good, OnStack
  <2>2. CASE /\ state' = [state EXCEPT ![p] = "running"]
             /\ neverStarted' = [neverStarted EXCEPT ![p] = FALSE]
             /\ stack' = IF neverStarted[p] THEN Append(stack, p) ELSE stack
    <3>1. /\ \A r \in Procs : state'[r] = IF r = p THEN "running" ELSE state[r]
          /\ \A r \in Procs : neverStarted'[r] = IF r = p THEN FALSE ELSE neverStarted[r]
      BY <1>3, <2>2 DEF Types, TypeOK
    <3>2. CASE neverStarted[p]
      <4>1. p # Idle /\ ~In(stack, p)
        BY <1>3, <3>2 DEF Good, OnStack
      <4>2. /\ Once(stack') /\ \A r \in Procs : In(stack', r) <=> In(stack, r) \/ r = p
        BY <1>3, <2>2, <3>2, <4>1, PushOnce DEF Good, OnStack, Types, TypeOK
      <4> QED
        BY <1>3, <3>1, <4>1, <4>2, IdleType DEF Good, OnStack
    <3>3. CASE ~neverStarted[p]
      BY <1>3, <2>2, <3>1, <3>3, IdleType DEF Good, OnStack, Runs
    <3> QED
      BY <3>2, <3>3
  <2> QED
    BY <1>1, <2>1, <2>2
<1>9. TimerInv'
  <2>1. \A r \in Procs : Asleep(r)' <=> Asleep(r)
    BY <1>1, <1>2, <1>3, <1>4, StageTypes DEF Asleep, Runs
  <2> QED
    BY <1>1, <2>1 DEF Good, TimerInv
<1> QED
  BY <1>5, <1>6, <1>7, <1>8, <1>9 DEF Good

-----------------------------------------------------------------------------
(* One lemma for each call.                                                 *)

\* The first entry of p is one entry.
LEMMA FoundOne ==
    \A table, p : \A e, r \in FoundAt(table, p) : e = r
BY DEF FoundAt, TimerEntries

\* What a new call finds.
LEMMA AtStart ==
    ASSUME Types, Good, Quiet
    PROVE  /\ doing.at = "rest" /\ current \in Procs
           /\ Runs(state[current])
           /\ \A p \in Procs : In(order, p) <=> Runs(state[p])
           /\ \A p \in Procs : Asleep(p) <=> state[p] = "sleeping"
BY StageTypes DEF Quiet, Running, Types, TypeOK, Good, Cursor, Members, Settled, Asleep

\* A process that was not in the ring and is ready will be added.
LEMMA AddBegins ==
    ASSUME Types, Good, Quiet, NEW p \in Procs, ~Runs(state[p]),
           state' = [state EXCEPT ![p] = "ready"], doing' = At("add", p),
           next' = next, prev' = prev, order' = order, current' = current
    PROVE  Members' /\ Linked' /\ Cursor'
<1>1. doing.at = "rest" /\ doing'.at = "add" /\ doing'.p = p
  BY AtStart, StageTypes
<1>2. \A r \in Procs : state'[r] = IF r = p THEN "ready" ELSE state[r]
  BY DEF Types, TypeOK
<1>3. Members'
  BY <1>1, <1>2, AtStart, StageTypes DEF Good, Members, Settled, Runs
<1>4. Linked'
  BY <1>1, RingUntouched
<1>5. Cursor'
  BY <1>1, StageTypes DEF Good, Cursor
<1> QED
  BY <1>3, <1>4, <1>5

LEMMA NewKeeps ==
    ASSUME Types, Good, NEW p \in Procs, NEW prio \in Priorities, ProcNew(p, prio)
    PROVE  Good'
<1>1. /\ Quiet /\ p # Idle /\ state[p] = "free"
      /\ state' = [state EXCEPT ![p] = "ready"]
      /\ neverStarted' = [neverStarted EXCEPT ![p] = TRUE]
      /\ doing' = At("add", p)
      /\ next' = next /\ prev' = prev /\ order' = order
      /\ current' = current /\ stack' = stack
      /\ timerOf' = timerOf /\ primed' = primed /\ orphaned' = orphaned
  BY DEF ProcNew, FreeSlot, timerVars, ringVars
<1>2. ~Runs(state[p])
  BY <1>1 DEF Runs
<1>3. Members' /\ Linked' /\ Cursor'
  BY <1>1, <1>2, AddBegins
<1>4. OnStack'
  BY <1>1, IdleType DEF Good, OnStack, Types, TypeOK
<1>5. TimerInv'
  <2>1. \A r \in Procs : Asleep(r)' <=> Asleep(r)
    BY <1>1, AtStart, StageTypes DEF Asleep, Types, TypeOK
  <2> QED
    BY <1>1, <2>1 DEF Good, TimerInv
<1> QED
  BY <1>3, <1>4, <1>5 DEF Good

\* The current process begins to leave the ring.
LEMMA LeaveBegins ==
    ASSUME Types, Good, Quiet, current # Idle, NEW s \in {"blocked", "sleeping"}, Leave(s),
           state' = state, next' = next, prev' = prev, order' = order, current' = current
    PROVE  /\ Members' /\ Linked' /\ Cursor'
           /\ doing'.at = "unlink" /\ doing'.p = current /\ doing'.to = s
<1>1. /\ doing.at = "rest" /\ doing'.at = "unlink" /\ doing'.p = current /\ doing'.to = s
  BY AtStart, StageTypes DEF Leave, At
<1>2. Members'
  BY <1>1, AtStart, StageTypes DEF Good, Members, Settled, Runs
<1>3. Linked'
  BY <1>1, RingUntouched
<1>4. Cursor'
  BY <1>1, StageTypes DEF Cursor
<1> QED
  BY <1>1, <1>2, <1>3, <1>4

LEMMA SleepKeeps ==
    ASSUME Types, Good, ProcSleep
    PROVE  Good'
<1>1. /\ Quiet /\ current # Idle
      /\ timerOf' = [e \in TimerEntries |->
                        IF e \in FoundAt(timerOf, NoProc) THEN current ELSE timerOf[e]]
      /\ primed' = primed \cup FoundAt(timerOf', current)
      /\ Leave("sleeping")
      /\ state' = state /\ neverStarted' = neverStarted
      /\ next' = next /\ prev' = prev /\ order' = order
      /\ current' = current /\ stack' = stack /\ orphaned' = orphaned
  BY DEF ProcSleep, tableVars, ringVars
<1>2. /\ Members' /\ Linked' /\ Cursor'
      /\ doing'.at = "unlink" /\ doing'.p = current /\ doing'.to = "sleeping"
  BY <1>1, LeaveBegins
<1>3. OnStack'
  BY <1>1 DEF Good, OnStack
<1>4. /\ current \in Procs /\ primed \subseteq TimerEntries
      /\ timerOf \in [TimerEntries -> Procs \cup {NoProc}]
  BY DEF Types, TypeOK
<1>5. \A p \in Procs : Asleep(p)' <=> p = current \/ Asleep(p)
  BY <1>1, <1>2, AtStart, StageTypes DEF Asleep
<1>6. ~Asleep(current)
  BY <1>1, AtStart DEF Runs
<1>7. \A e \in TimerEntries : \A p \in Procs \ {current} : timerOf'[e] = p <=> timerOf[e] = p
  BY <1>1, IdleType DEF FoundAt
<1>8. \A p \in Procs \ {current} : FoundAt(timerOf', p) = FoundAt(timerOf, p)
  BY <1>7 DEF FoundAt
<1>9. \A e \in FoundAt(timerOf', current) : timerOf'[e] = current
  BY DEF FoundAt
<1>10. \A e \in primed : timerOf'[e] = timerOf[e]
  BY <1>1, <1>4, IdleType DEF Good, TimerInv, FoundAt
<1>11. TimerInv'
  <2>1. \A e \in primed' : timerOf'[e] \in Procs
    BY <1>1, <1>4, <1>9, <1>10 DEF Good, TimerInv
  <2>2. ASSUME NEW p \in Procs, Asleep(p)'
        PROVE  FoundAt(timerOf', p) \subseteq primed'
    BY <1>1, <1>5, <1>8, <2>2 DEF Good, TimerInv
  <2>3. ASSUME NEW p \in Procs \ orphaned, NEW e \in primed', timerOf'[e] = p
        PROVE  Asleep(p)' /\ e \in FoundAt(timerOf', p)
    <3>1. CASE p = current
      <4>1. e \notin primed
        BY <1>6, <1>10, <2>3, <3>1 DEF Good, TimerInv
      <4> QED
        BY <1>1, <1>5, <3>1, <4>1
    <3>2. CASE p # current
      <4>1. e \in primed
        BY <1>1, <1>9, <2>3, <3>2
      <4> QED
        BY <1>5, <1>8, <1>10, <2>3, <3>2, <4>1 DEF Good, TimerInv
    <3> QED
      BY <3>1, <3>2
  <2> QED
    BY <1>1, <2>1, <2>2, <2>3 DEF TimerInv
<1> QED
  BY <1>2, <1>3, <1>11 DEF Good

LEMMA BlockKeeps ==
    ASSUME Types, Good, NEW mask \in SUBSET Kinds, ProcBlockOnEvent(mask)
    PROVE  Good'
<1>1. /\ Quiet /\ current # Idle /\ Leave("blocked")
      /\ state' = state /\ neverStarted' = neverStarted
      /\ next' = next /\ prev' = prev /\ order' = order
      /\ current' = current /\ stack' = stack /\ orphaned' = orphaned
      /\ timerOf' = timerOf /\ primed' = primed
  BY DEF ProcBlockOnEvent, timerVars, ringVars
<1>2. /\ Members' /\ Linked' /\ Cursor'
      /\ doing'.at = "unlink" /\ doing'.p = current /\ doing'.to = "blocked"
  BY <1>1, LeaveBegins
<1>3. OnStack'
  BY <1>1 DEF Good, OnStack
<1>4. \A p \in Procs : Asleep(p)' <=> Asleep(p)
  BY <1>1, <1>2, AtStart DEF Asleep
<1>5. TimerInv'
  BY <1>1, <1>4 DEF Good, TimerInv
<1> QED
  BY <1>2, <1>3, <1>5 DEF Good

LEMMA WakeSleeperKeeps ==
    ASSUME Types, Good, NEW p \in Procs, ProcWakeSleeper(p)
    PROVE  Good'
<1>1. /\ Quiet /\ state[p] = "sleeping"
      /\ timerOf' = [e \in TimerEntries |->
                        IF e \in FoundAt(timerOf, p) THEN NoProc ELSE timerOf[e]]
      /\ primed' = primed \ FoundAt(timerOf, p)
      /\ state' = [state EXCEPT ![p] = "ready"]
      /\ doing' = At("add", p)
      /\ next' = next /\ prev' = prev /\ order' = order /\ neverStarted' = neverStarted
      /\ current' = current /\ stack' = stack /\ orphaned' = orphaned
  BY DEF ProcWakeSleeper, TimerRemoved, ringVars
<1>2. ~Runs(state[p])
  BY <1>1 DEF Runs
<1>3. Members' /\ Linked' /\ Cursor'
  BY <1>1, <1>2, AddBegins
<1>4. OnStack'
  BY <1>1 DEF Good, OnStack, Types, TypeOK
<1>5. /\ primed \subseteq TimerEntries
      /\ timerOf \in [TimerEntries -> Procs \cup {NoProc}]
      /\ \A r \in Procs : Asleep(r)' <=> r # p /\ Asleep(r)
  BY <1>1, AtStart, StageTypes DEF Asleep, Types, TypeOK
<1>6. \A e \in TimerEntries : \A r \in Procs \ {p} : timerOf'[e] = r <=> timerOf[e] = r
  BY <1>1, IdleType DEF FoundAt
<1>7. \A r \in Procs \ {p} : FoundAt(timerOf', r) = FoundAt(timerOf, r)
  BY <1>6 DEF FoundAt
<1>8. \A r \in Procs \ {p} : \A e \in FoundAt(timerOf, r) : e \notin FoundAt(timerOf, p)
  BY DEF FoundAt
<1>9. \A e \in primed' : e \in primed /\ e \in TimerEntries /\ timerOf'[e] = timerOf[e]
  BY <1>1, <1>5
<1>10. TimerInv'
  <2>1. \A e \in primed' : timerOf'[e] \in Procs
    BY <1>9 DEF Good, TimerInv
  <2>2. ASSUME NEW r \in Procs, Asleep(r)'
        PROVE  FoundAt(timerOf', r) \subseteq primed'
    BY <1>1, <1>5, <1>7, <1>8, <2>2 DEF Good, TimerInv
  <2>3. ASSUME NEW r \in Procs \ orphaned, NEW e \in primed', timerOf'[e] = r
        PROVE  Asleep(r)' /\ e \in FoundAt(timerOf', r)
    <3>1. r # p
      BY <1>1, <1>9, <2>3 DEF Good, TimerInv
    <3> QED
      BY <1>5, <1>7, <1>9, <2>3, <3>1 DEF Good, TimerInv
  <2> QED
    BY <1>1, <2>1, <2>2, <2>3 DEF TimerInv
<1> QED
  BY <1>3, <1>4, <1>10 DEF Good

\* Proc_Wake of a process that waits, and Proc_UnblockEvent up to the statement
\* that clears its mask.
LEMMA FoundKeeps ==
    ASSUME Types, Good,
           \/ \E p \in Procs : ProcWakeBlocked(p)
           \/ \E k \in Kinds : ProcUnblockEvent(k) \/ NoneWaiting(k)
           \/ \E k \in Kinds, p \in Procs : FindWaiting(k, p)
    PROVE  Good'
<1>1. /\ next' = next /\ prev' = prev /\ order' = order /\ state' = state
      /\ neverStarted' = neverStarted /\ current' = current /\ stack' = stack
      /\ orphaned' = orphaned /\ timerOf' = timerOf /\ primed' = primed
  BY DEF ProcWakeBlocked, ProcUnblockEvent, NoneWaiting, FindWaiting, tableVars, ringVars,
         timerVars
<1> DEFINE Found == /\ doing.at \in {"rest", "scan"} /\ doing'.at \in {"rest", "scan", "clear"}
                    /\ doing'.at = "clear" => doing'.p \in Procs /\ state[doing'.p] = "blocked"
<1>2. Found
  <2>1. ASSUME NEW p \in Procs, ProcWakeBlocked(p) PROVE Found
    BY <2>1, AtStart, StageTypes DEF ProcWakeBlocked
  <2>2. ASSUME NEW k \in Kinds, ProcUnblockEvent(k) PROVE Found
    BY <2>2, AtStart, StageTypes DEF ProcUnblockEvent, At
  <2>3. ASSUME NEW k \in Kinds, NoneWaiting(k) PROVE Found
    BY <2>3, StageTypes DEF NoneWaiting, Running
  <2>4. ASSUME NEW k \in Kinds, NEW p \in Procs, FindWaiting(k, p) PROVE Found
    <3>1. LET d == [doing EXCEPT !.at = "clear", !.p = p] IN d.at = "clear" /\ d.p = p
      BY DEF Types, TypeOK
    <3> QED
      BY <2>4, <3>1 DEF FindWaiting, Running, WaitingFor
  <2> QED
    BY <2>1, <2>2, <2>3, <2>4
<1>3. Members'
  BY <1>1, <1>2, StageTypes DEF Good, Members, Settled
<1>4. Linked'
  BY <1>1, <1>2, RingUntouched
<1>5. Cursor'
  BY <1>1, <1>2, StageTypes DEF Good, Cursor
<1>6. OnStack'
  BY <1>1 DEF Good, OnStack
<1>7. TimerInv'
  <2>1. \A p \in Procs : Asleep(p)' <=> Asleep(p)
    BY <1>1, <1>2, StageTypes DEF Asleep
  <2> QED
    BY <1>1, <2>1 DEF Good, TimerInv
<1> QED
  BY <1>3, <1>4, <1>5, <1>6, <1>7 DEF Good

LEMMA ClearKeeps ==
    ASSUME Types, Good, ClearWaiting
    PROVE  Good'
<1>1. /\ doing.at = "clear"
      /\ doing' = [doing EXCEPT !.at = "add"]
      /\ state' = [state EXCEPT ![doing.p] = "ready"]
      /\ next' = next /\ prev' = prev /\ order' = order /\ neverStarted' = neverStarted
      /\ current' = current /\ stack' = stack /\ orphaned' = orphaned
      /\ timerOf' = timerOf /\ primed' = primed
  BY DEF ClearWaiting, Running, ringVars, timerVars
<1>2. doing'.at = "add" /\ doing'.p = doing.p
  BY <1>1 DEF Types, TypeOK
<1>3. doing.p \in Procs /\ state[doing.p] = "blocked"
  BY <1>1 DEF Good, Members
<1>4. \A r \in Procs : state'[r] = IF r = doing.p THEN "ready" ELSE state[r]
  BY <1>1 DEF Types, TypeOK
<1>5. Members'
  BY <1>1, <1>2, <1>3, <1>4, StageTypes DEF Good, Members, Settled, Runs
<1>6. Linked'
  BY <1>1, <1>2, RingUntouched
<1>7. Cursor'
  BY <1>1, <1>2, StageTypes DEF Good, Cursor
<1>8. OnStack'
  BY <1>1, <1>3, <1>4 DEF Good, OnStack
<1>9. TimerInv'
  <2>1. \A p \in Procs : Asleep(p)' <=> Asleep(p)
    BY <1>1, <1>2, <1>3, <1>4, StageTypes DEF Asleep
  <2> QED
    BY <1>1, <2>1 DEF Good, TimerInv
<1> QED
  BY <1>5, <1>6, <1>7, <1>8, <1>9 DEF Good

LEMMA FiresKeeps ==
    ASSUME Types, Good, NEW e \in TimerEntries, TimerFires(e)
    PROVE  Good'
<1> DEFINE p == timerOf[e]
<1>1. /\ Quiet /\ e \in primed
      /\ primed' = primed \ {e}
      /\ \/ /\ state[p] = "sleeping"
            /\ state' = [state EXCEPT ![p] = "ready"]
            /\ doing' = At("add", p)
         \/ state[p] # "sleeping" /\ state' = state /\ doing' = doing
      /\ next' = next /\ prev' = prev /\ order' = order /\ neverStarted' = neverStarted
      /\ current' = current /\ stack' = stack /\ timerOf' = timerOf /\ orphaned' = orphaned
  BY DEF TimerFires, ringVars
<1>2. p \in Procs
  BY <1>1 DEF Good, TimerInv
<1>3. \A r \in Procs : Asleep(r) <=> state[r] = "sleeping"
  BY <1>1, AtStart
<1>4. CASE state[p] # "sleeping" /\ state' = state /\ doing' = doing
  <2>1. Members' /\ Linked' /\ Cursor' /\ OnStack'
    BY <1>1, <1>4 DEF Good, Members, Settled, Linked, Fore, Cursor, OnStack
  <2>2. \A r \in Procs : Asleep(r)' <=> state[r] = "sleeping"
    BY <1>3, <1>4 DEF Asleep
  <2>3. \A r \in Procs : state[r] = "sleeping" => e \notin FoundAt(timerOf, r)
    BY <1>4 DEF FoundAt
  <2>4. TimerInv'
    BY <1>1, <1>3, <2>2, <2>3 DEF Good, TimerInv
  <2> QED
    BY <2>1, <2>4 DEF Good
<1>5. CASE state[p] = "sleeping" /\ state' = [state EXCEPT ![p] = "ready"] /\ doing' = At("add", p)
  <2>1. Members' /\ Linked' /\ Cursor'
    BY <1>1, <1>2, <1>5, AddBegins DEF Runs
  <2>2. \A r \in Procs : state'[r] = IF r = p THEN "ready" ELSE state[r]
    BY <1>5 DEF Types, TypeOK
  <2>3. OnStack'
    BY <1>1, <1>5, <2>2 DEF Good, OnStack
  <2>4. \A r \in Procs : Asleep(r)' <=> r # p /\ Asleep(r)
    BY <1>3, <1>5, <2>2, StageTypes DEF Asleep
  <2>5. \A r \in Procs : r = p \/ e \notin FoundAt(timerOf, r)
    BY DEF FoundAt
  <2> HIDE DEF p
  <2>6. TimerInv'
    <3>1. \A f \in primed' : timerOf'[f] \in Procs
      BY <1>1 DEF Good, TimerInv
    <3>2. \A r \in Procs : Asleep(r)' => FoundAt(timerOf', r) \subseteq primed'
      BY <1>1, <2>4, <2>5 DEF Good, TimerInv
    <3>3. ASSUME NEW r \in Procs \ orphaned, NEW f \in primed', timerOf[f] = r
          PROVE  Asleep(r)' /\ f \in FoundAt(timerOf, r)
      <4>1. f \in primed /\ f # e /\ f \in FoundAt(timerOf, r) /\ Asleep(r)
        BY <1>1, <3>3 DEF Good, TimerInv
      <4>2. r # p
        BY <1>1, <3>3, <4>1, FoundOne DEF Good, TimerInv, p
      <4> QED
        BY <2>4, <4>1, <4>2
    <3> QED
      BY <1>1, <3>1, <3>2, <3>3 DEF TimerInv
  <2> QED
    BY <2>1, <2>3, <2>6 DEF Good
<1> QED
  BY <1>1, <1>4, <1>5

LEMMA ReturnKeeps ==
    ASSUME Types, Good, EntryReturns
    PROVE  Good'
<1> DEFINE p == Last(stack)
<1>1. /\ Quiet /\ stack # <<>>
      /\ state' = [state EXCEPT ![p] = "free"]
      /\ stack' = Front(stack)
      /\ doing' = [At("unlink", p) EXCEPT !.to = "free"]
      /\ orphaned' = IF state[p] = "sleeping" THEN orphaned \cup {p} ELSE orphaned
      /\ next' = next /\ prev' = prev /\ order' = order /\ neverStarted' = neverStarted
      /\ current' = current /\ timerOf' = timerOf /\ primed' = primed
  BY DEF EntryReturns, timerVars, ringVars
<1>2. /\ p \in Procs /\ In(stack, p)
      /\ Once(stack') /\ \A r \in Procs : In(stack', r) <=> In(stack, r) /\ r # p
  BY <1>1, PopOnce DEF Types, TypeOK, Good, OnStack
<1> HIDE DEF p
<1>3. doing.at = "rest" /\ doing'.at = "unlink" /\ doing'.p = p /\ doing'.to = "free"
  BY <1>1, AtStart DEF At
<1>4. \A r \in Procs : state'[r] = IF r = p THEN "free" ELSE state[r]
  BY <1>1 DEF Types, TypeOK
<1>5. Members'
  BY <1>1, <1>2, <1>3, <1>4, AtStart, StageTypes DEF Good, Members, Settled, Runs
<1>6. Linked'
  BY <1>1, <1>3, RingUntouched
<1>7. Cursor'
  BY <1>3, StageTypes DEF Cursor
<1>8. OnStack'
  BY <1>1, <1>2, <1>4, IdleType DEF Good, OnStack
<1>9. \A r \in Procs : Asleep(r)' <=> r # p /\ Asleep(r)
  BY <1>1, <1>3, <1>4, AtStart DEF Asleep
<1>10. TimerInv'
  BY <1>1, <1>2, <1>9, AtStart DEF Good, TimerInv
<1> QED
  BY <1>5, <1>6, <1>7, <1>8, <1>10 DEF Good

-----------------------------------------------------------------------------
(* The interrupt handler, where it does not tear the ring.                 *)

LEMMA WheelKeeps ==
    ASSUME Types, Good, NEW k \in WheelKinds, NEW p \in Procs, WheelUnblocks(k, p), ~torn'
    PROVE  Good'
<1>1. /\ state[p] = "blocked" /\ p # Idle
      /\ doing.at \notin {"link", "close"} /\ ~(doing.at = "relink" /\ doing.p = Hindmost)
      /\ ~(doing.at = "clear" /\ doing.p = p)
      /\ state' = [state EXCEPT ![p] = "ready"]
      /\ next' = [next EXCEPT ![p] = head, ![Hindmost] = p]
      /\ prev' = [prev EXCEPT ![p] = Hindmost, ![head] = p]
      /\ order' = Append(order, p)
      /\ doing' = doing /\ neverStarted' = neverStarted
      /\ current' = current /\ stack' = stack /\ orphaned' = orphaned
      /\ timerOf' = timerOf /\ primed' = primed
  BY DEF WheelUnblocks, WaitingFor, EndsInUse, timerVars
<1>2. ~(p = doing.p /\ doing.at \in Adding \cup Leaving) /\ Settled(p)
  BY <1>1, StageTypes DEF Good, Members, Settled, Runs
<1>3. ~In(order, p)
  BY <1>1, <1>2 DEF Good, Members, Runs
<1>4. /\ order' \in Seq(Procs) /\ Once(order')
      /\ \A r \in Procs : In(order', r) <=> In(order, r) \/ r = p
  BY <1>1, <1>3, PushOnce, Ends DEF Good, Members
<1>5. order' # <<>> /\ order'[1] = Idle
  BY <1>1, Ends
<1>6. \A r \in Procs : state'[r] = IF r = p THEN "ready" ELSE state[r]
  BY <1>1 DEF Types, TypeOK
<1>7. Members'
  BY <1>1, <1>2, <1>3, <1>4, <1>5, <1>6, StageTypes DEF Good, Members, Settled, Runs
<1>8. p # LastOf(order)
  BY <1>3, Ends
<1>9. /\ next' \in Links /\ prev' \in Links
      /\ \A r \in Procs : next'[r] = IF r = LastOf(order) THEN p ELSE IF r = p THEN Idle ELSE next[r]
      /\ \A r \in Procs : prev'[r] = IF r = Idle THEN p ELSE IF r = p THEN LastOf(order) ELSE prev[r]
  BY <1>1, <1>8, Ends DEF Links
<1>10. Fore' \in Links
       /\ \A r \in Procs : Fore'[r] = IF r = LastOf(order) THEN p ELSE IF r = p THEN Idle ELSE Fore[r]
  <2>1. CASE doing.at = "relink" /\ In(order, doing.p)
    <3>1. doing.p \in Procs /\ doing.p # Idle /\ doing.p # p
      BY <1>2, <2>1, StageTypes DEF Good, Members, Types
    <3>2. prev'[doing.p] = prev[doing.p]
      BY <1>9, <3>1
    <3>3. /\ Fore = [next EXCEPT ![prev[doing.p]] = doing.p]
          /\ Fore' = [next' EXCEPT ![prev[doing.p]] = doing.p]
      BY <1>1, <2>1, <3>2 DEF Fore
    <3>4. prev[doing.p] # LastOf(order) /\ prev[doing.p] # p
      <4>1. PICK i \in DOMAIN order : order[i] = doing.p
        BY <2>1 DEF In
      <4>2. i # 1 /\ i > 1 /\ i - 1 \in DOMAIN order /\ Len(order) \in DOMAIN order /\ i \in 1 .. Len(order)
        BY <3>1, <4>1, Ends
      <4>3. prev[doing.p] = order[i - 1]
        BY <4>1, <4>2 DEF Good, Linked, Chain
      <4>4. i - 1 # Len(order)
        BY <4>2
      <4> QED
        BY <1>3, <4>2, <4>3, <4>4 DEF Good, Members, Once, LastOf, In
    <3> QED
      BY <1>9, <3>1, <3>3, <3>4, Ends DEF Links
  <2>2. CASE doing.at = "relink" /\ ~In(order, doing.p)
    <3>1. doing.p \in Procs /\ doing.p # Idle /\ doing.p # p
      BY <1>2, <2>2, StageTypes DEF Good, Members, Types
    <3>2. prev[doing.p] = NoProc /\ prev'[doing.p] = NoProc
      BY <1>9, <2>2, <3>1 DEF Good, Linked
    <3>3. Fore = next /\ Fore' = next'
      BY <1>1, <1>9, <2>2, <3>2, IdleType, Ends DEF Fore, Links
    <3> QED
      BY <1>9, <3>3
  <2>3. CASE doing.at # "relink"
    BY <1>1, <1>9, <2>3 DEF Fore
  <2> QED
    BY <2>1, <2>2, <2>3
<1>11. Chain(order', Fore', prev')
  <2>1. /\ order \in Seq(Procs) /\ order # <<>> /\ Once(order) /\ Fore \in Links /\ prev \in Links
        /\ Chain(order, Fore, prev)
    BY Ends DEF Good, Members, Linked
  <2>2. /\ \A r \in Procs : Fore'[r] = IF r = order[Len(order)] THEN p
                                       ELSE IF r = p THEN order[1] ELSE Fore[r]
        /\ \A r \in Procs : prev'[r] = IF r = order[1] THEN p
                                       ELSE IF r = p THEN order[Len(order)] ELSE prev[r]
    BY <1>9, <1>10, Ends DEF LastOf
  <2>3. Fore' \in Links /\ prev' \in Links
    BY <1>9, <1>10
  <2> DEFINE nn == Fore'
  <2>4. nn \in Links /\ \A r \in Procs : nn[r] = IF r = order[Len(order)] THEN p
                                       ELSE IF r = p THEN order[1] ELSE Fore[r]
    BY <2>2, <2>3
  <2> HIDE DEF Fore, nn
  <2>5. Chain(Append(order, p), nn, prev')
    BY <1>3, <2>1, <2>2, <2>3, <2>4, ChainAdd
  <2> QED
    BY <1>1, <2>5 DEF nn
<1>12. Linked'
  <2>1. doing.at = "relink" /\ In(order', doing.p) => next'[prev'[doing.p]] = next'[doing.p]
    <3> SUFFICES ASSUME doing.at = "relink", In(order', doing.p)
                 PROVE  next'[prev'[doing.p]] = next'[doing.p]
      OBVIOUS
    <3>1. doing.p \in Procs /\ doing.p # Idle /\ doing.p # p /\ doing.p # LastOf(order)
      BY <1>1, <1>2, Ends, StageTypes DEF Good, Members, Types
    <3>2. In(order, doing.p)
      BY <1>4, <3>1
    <3>3. PICK i \in DOMAIN order : order[i] = doing.p
      BY <3>2 DEF In
    <3>4. i # 1 /\ i > 1 /\ i - 1 \in DOMAIN order /\ Len(order) \in DOMAIN order /\ i \in 1 .. Len(order)
      BY <3>1, <3>3, Ends
    <3>5. prev[doing.p] = order[i - 1]
      BY <3>3, <3>4 DEF Good, Linked, Chain
    <3>6. i - 1 # Len(order)
      BY <3>4
    <3>7. prev[doing.p] # LastOf(order) /\ prev[doing.p] # p /\ prev[doing.p] \in Procs
      BY <1>3, <3>4, <3>5, <3>6, Ends DEF Good, Members, Once, LastOf, In
    <3>8. next[prev[doing.p]] = next[doing.p]
      BY <3>2 DEF Good, Linked
    <3> QED
      BY <1>9, <3>1, <3>7, <3>8
  <2>2. \A r \in Procs : In(order', r) \/ (r = doing.p /\ doing.at \in {"link", "close", "move"})
          \/ (next'[r] = NoProc /\ prev'[r] = NoProc)
    BY <1>4, <1>9, Ends DEF Good, Linked
  <2> QED
    BY <1>1, <1>11, <2>1, <2>2 DEF Linked
<1>13. Cursor'
  <2>1. \A r : In(order, r) => In(order', r)
    BY <1>1, Ends DEF In
  <2> QED
    BY <1>1, <2>1 DEF Good, Cursor
<1>14. OnStack'
  BY <1>1, <1>6 DEF Good, OnStack
<1>15. TimerInv'
  <2>1. \A r \in Procs : Asleep(r)' <=> Asleep(r)
    BY <1>1, <1>2, <1>6 DEF Asleep
  <2> QED
    BY <1>1, <2>1 DEF Good, TimerInv
<1> QED
  BY <1>7, <1>12, <1>13, <1>14, <1>15 DEF Good

-----------------------------------------------------------------------------
(* What the handler cannot break.                                          *)

DoingType == [at : Stages, p : Procs \cup {NoProc}, best : Procs \cup {NoProc},
              kinds : SUBSET Kinds, to : {"ready", "sleeping", "blocked", "free"}]

TableTypes ==
    /\ state \in [Procs -> States] /\ priority \in [Procs -> Nat]
    /\ aging \in [Procs -> 0 .. MaxAging] /\ neverStarted \in [Procs -> BOOLEAN]
    /\ eventMask \in [Procs -> SUBSET Kinds]

RestTypes ==
    /\ next \in Links /\ prev \in Links /\ current \in Procs /\ head = Idle
    /\ stack \in Seq(Procs) /\ order \in Seq(Procs)
    /\ wheel \subseteq WheelKinds /\ timerOf \in [TimerEntries -> Procs \cup {NoProc}]
    /\ primed \subseteq TimerEntries /\ orphaned \subseteq Procs /\ torn \in BOOLEAN

DoingTypes ==
    /\ doing \in DoingType
    /\ doing.at \in Leaving => doing.p # Idle
    /\ doing.at = "switch" => doing.best \in Procs
    /\ doing.at \in Adding \cup Leaving \cup {"clear"} => doing.p \in Procs

RunningTypes ==
    \A p \in Procs : state[p] = "running" =>
        p = current /\ doing.at \notin {"age", "select", "switch"}

LEMMA TypeParts == Types <=> TableTypes /\ RestTypes /\ DoingTypes /\ RunningTypes
<1>1. TypeOK /\ head = Idle <=> TableTypes /\ RestTypes /\ doing \in DoingType
  BY IdleType DEF TypeOK, TableTypes, RestTypes, DoingType, Stages, Links, States
<1> QED
  BY <1>1 DEF Types, DoingTypes, RunningTypes

LEMMA TypePartsThen == TableTypes' /\ RestTypes' /\ DoingTypes' /\ RunningTypes' => Types'
<1>1. TableTypes' /\ RestTypes' /\ DoingTypes' => TypeOK' /\ head' = Idle
  BY IdleType DEF TypeOK, TableTypes, RestTypes, DoingTypes, DoingType, Stages, Links, States
<1> QED
  BY <1>1 DEF Types, DoingTypes, RunningTypes

\* The call goes on to another of its statements.
LEMMA GoesTo ==
    ASSUME DoingTypes, NEW at \in Stages, doing' = [doing EXCEPT !.at = at],
           at \in Adding \cup Leaving \cup {"clear"} => doing.at \in Adding \cup Leaving \cup {"clear"},
           at \in Leaving => doing.at \in Leaving,
           at # "switch"
    PROVE  DoingTypes' /\ doing'.at = at
<1>1. doing' \in DoingType /\ doing'.at = at /\ doing'.p = doing.p
  BY DEF DoingTypes, DoingType
<1> QED
  BY <1>1 DEF DoingTypes

LEMMA AllStages ==
    Stages = {"rest", "add", "link", "close", "unlink", "relink", "move",
              "yield", "age", "select", "switch", "scan", "clear"}
BY StageTypes DEF Stages

LEMMA AtFields ==
    ASSUME NEW at \in Stages, NEW q \in Procs \cup {NoProc}
    PROVE  At(at, q) \in DoingType /\ At(at, q).at = at /\ At(at, q).p = q
BY StageTypes DEF DoingType

\* A call begins, or is over.
LEMMA Begins ==
    ASSUME NEW at \in Stages, NEW q \in Procs \cup {NoProc}, doing' = At(at, q),
           at \in Adding \cup {"clear"} => q \in Procs, at \notin Leaving, at # "switch"
    PROVE  DoingTypes' /\ doing'.at = at
<1>1. At(at, q) \in DoingType /\ At(at, q).at = at /\ At(at, q).p = q
  BY AtFields
<1> QED
  BY <1>1 DEF DoingTypes

\* RemoveFirst keeps to the processes, whatever else is in the sequence.
LEMMA RemoveFirstType ==
    ASSUME NEW q \in Seq(Procs), NEW p
    PROVE  RemoveFirst(q, p) \in Seq(Procs)
<1> DEFINE I == {i \in 1 .. Len(q) : q[i] = p}
<1>1. CASE I = {}
  <2> QED
    BY <1>1 DEF RemoveFirst
<1>2. CASE I # {}
  <2>1. I \subseteq Nat
    OBVIOUS
  <2>2. PICK k \in I : \A j \in I : ~(<<j, k>> \in OpToRel(<, Nat))
    BY <1>2, <2>1, NatLessThanWellFounded, WFMin
  <2>3. \A j \in I : k <= j
    <3>1. OpToRel(<, Nat) = {ss \in Nat \X Nat : ss[1] < ss[2]}
      BY DEF OpToRel
    <3>2. ASSUME NEW j \in I PROVE ~(j < k)
      BY <2>1, <2>2, <3>1
    <3> QED
      BY <2>1, <3>2
  <2>4. Min(I) \in I
    BY <2>3 DEF Min
  <2>5. SelectInSeq(q, LAMBDA v : v = p) = Min(I)
    BY <1>2 DEF SelectInSeq
  <2> DEFINE m == Min(I)
  <2>6. m \in 1 .. Len(q) /\ SelectInSeq(q, LAMBDA v : v = p) = m
    BY <2>4, <2>5
  <2>7a. \E i \in 1 .. Len(q) : q[i] = p
    BY <2>4
  <2> HIDE DEF m, I
  <2>7. RemoveFirst(q, p) = SubSeq(q, 1, m - 1) \o SubSeq(q, m + 1, Len(q))
    BY <2>6, <2>7a DEF RemoveFirst, RemoveAt
  <2>8. SubSeq(q, 1, m - 1) \in Seq(Procs) /\ SubSeq(q, m + 1, Len(q)) \in Seq(Procs)
    BY <2>6
  <2> QED
    BY <2>7, <2>8
<1> QED
  BY <1>1, <1>2

\* The statements that touch the links.
LEMMA LinksTyped ==
    ASSUME Types, LinkNew \/ LinkLast \/ CloseRing \/ Unlink \/ Relink \/ MoveHead
    PROVE  Types'
<1>1. TableTypes /\ RestTypes /\ DoingTypes /\ RunningTypes
  BY TypeParts
<1>2. /\ doing.p \in Procs /\ doing \in DoingType /\ doing.at \in Adding \cup Leaving
      /\ doing.to \in States \ {"running"}
  BY <1>1, StageTypes
     DEF DoingTypes, DoingType, States, LinkNew, LinkLast, CloseRing, Unlink, Relink, MoveHead, Running
<1>3. Hindmost \in Procs \cup {NoProc} /\ head \in Procs
      /\ next[doing.p] \in Procs \cup {NoProc} /\ prev[doing.p] \in Procs \cup {NoProc}
      /\ next \in Links /\ prev \in Links
  BY <1>1, <1>2, IdleType DEF Hindmost, RestTypes, Links
<1>4. \A f \in Links : \A q \in Procs : \A r \in Procs \cup {NoProc} : [f EXCEPT ![q] = r] \in Links
  BY DEF Links
<1>4a. \A f \in Links : \A q \in Procs : \A r \in Procs \cup {NoProc} : [f EXCEPT ![r] = q] \in Links
  BY DEF Links
<1>5. \A f \in Links : \A r, q \in Procs \cup {NoProc} : Written(f, r, q) \in Links
  BY DEF Links, Written
<1>6. CASE LinkNew
  <2>1. DoingTypes' /\ doing'.at = "link"
    BY <1>1, <1>2, <1>6, GoesTo, AllStages, StageTypes DEF Running, LinkNew
  <2> QED
    BY <1>1, <1>2, <1>3, <1>4, <1>6, <2>1, TypePartsThen
       DEF LinkNew, TableTypes, RestTypes, RunningTypes, tableVars, timerVars
<1>7. CASE LinkLast
  <2>1. DoingTypes' /\ doing'.at = "close"
    BY <1>1, <1>2, <1>7, GoesTo, AllStages, StageTypes DEF Running, LinkLast
  <2> QED
    BY <1>1, <1>2, <1>3, <1>4a, <1>7, <2>1, TypePartsThen
       DEF LinkLast, TableTypes, RestTypes, RunningTypes, tableVars, timerVars
<1>8. CASE CloseRing
  <2>1. doing' = AtRest \/ doing' = [doing EXCEPT !.at = "scan"]
    BY <1>8 DEF CloseRing
  <2>2. DoingTypes' /\ doing'.at \in {"rest", "scan"}
    <3>1. CASE doing' = AtRest
      BY <3>1, IdleType, StageTypes, AllStages, Begins
    <3>2. CASE doing' = [doing EXCEPT !.at = "scan"]
      BY <1>1, <1>2, <3>2, GoesTo, AllStages, StageTypes
    <3> QED
      BY <2>1, <3>1, <3>2
  <2>3. Append(order, doing.p) \in Seq(Procs)
    BY <1>1, <1>2 DEF RestTypes
  <2> QED
    BY <1>1, <1>2, <1>3, <1>4, <1>8, <2>2, <2>3, TypePartsThen
       DEF CloseRing, TableTypes, RestTypes, RunningTypes, tableVars, timerVars
<1>9. CASE Unlink
  <2>1. DoingTypes' /\ doing'.at = "relink"
    BY <1>1, <1>2, <1>9, GoesTo, AllStages, StageTypes DEF Running, Unlink
  <2> QED
    BY <1>1, <1>2, <1>3, <1>5, <1>9, <2>1, TypePartsThen
       DEF Unlink, TableTypes, RestTypes, RunningTypes, tableVars, timerVars
<1>10. CASE Relink
  <2>1. DoingTypes' /\ doing'.at = "move"
    BY <1>1, <1>2, <1>10, GoesTo, AllStages, StageTypes
       DEF Relink, Running
  <2>2. RemoveFirst(order, doing.p) \in Seq(Procs)
    BY <1>1, <1>2, RemoveFirstType DEF RestTypes
  <2>3. /\ next' = next /\ prev' = Written(prev, next[doing.p], prev[doing.p])
        /\ order' = RemoveFirst(order, doing.p)
    BY <1>10 DEF Relink
  <2>4. prev' \in Links
    BY <1>3, <1>5, <2>3
  <2> QED
    BY <1>1, <1>10, <2>1, <2>2, <2>4, TypePartsThen
       DEF Relink, TableTypes, RestTypes, RunningTypes, tableVars, timerVars
<1>11. CASE MoveHead
  <2>1. DoingTypes' /\ doing'.at = "yield"
    BY <1>11, AtFields, StageTypes DEF MoveHead, Stages, DoingTypes
  <2>2. head' = Idle
    BY <1>1, <1>11, StageTypes DEF MoveHead, Running, DoingTypes, RestTypes
  <2>3. state' \in [Procs -> States] /\ \A p \in Procs : state'[p] = "running" => state[p] = "running"
    BY <1>1, <1>2, <1>11 DEF MoveHead, TableTypes
  <2> QED
    BY <1>1, <1>2, <1>3, <1>4, <1>11, <2>1, <2>2, <2>3, TypePartsThen
       DEF MoveHead, TableTypes, RestTypes, RunningTypes, timerVars
<1> QED
  BY <1>6, <1>7, <1>8, <1>9, <1>10, <1>11

\* The statements of Proc_Yield.
LEMMA YieldTyped ==
    ASSUME Types, ProcYield \/ AgeNext \/ SelectNext \/ Switch
    PROVE  Types'
<1>1. TableTypes /\ RestTypes /\ DoingTypes /\ RunningTypes
  BY TypeParts
<1>2. /\ doing.p \in Procs \cup {NoProc} /\ doing.best \in Procs \cup {NoProc}
      /\ doing \in DoingType /\ head \in Procs
  BY <1>1, IdleType DEF DoingTypes, DoingType, RestTypes
<1>3. CASE ProcYield
  <2>1. doing' = At("age", head) \/ doing' = At("select", head)
    BY <1>3 DEF ProcYield
  <2>2. DoingTypes' /\ doing'.at \in {"age", "select"}
    BY <1>2, <2>1, Begins, AllStages, StageTypes
  <2>3. state' \in [Procs -> States] /\ \A p \in Procs : state'[p] # "running"
    BY <1>1, <1>3 DEF ProcYield, Stopped, TableTypes, RunningTypes, States
  <2> QED
    BY <1>1, <1>3, <2>2, <2>3, TypePartsThen
       DEF ProcYield, TableTypes, RestTypes, RunningTypes, ringVars, timerVars
<1>4. CASE AgeNext
  <2>1. doing.p \in Procs /\ next[doing.p] \in Procs \cup {NoProc} /\ doing.at = "age"
    BY <1>1, <1>2, <1>4 DEF AgeNext, Running, RestTypes, Links
  <2>2. DoingTypes' /\ doing'.at \in {"age", "select"}
    <3>1. CASE doing' = At("select", head)
      BY <1>2, <3>1, Begins, AllStages, StageTypes
    <3>2. CASE doing' = [doing EXCEPT !.p = next[doing.p]]
      <4>1. doing' \in DoingType /\ doing'.at = "age"
        BY <1>2, <2>1, <3>2 DEF DoingType
      <4> QED
        BY <4>1, StageTypes DEF DoingTypes
    <3> QED
      BY <1>4, <3>1, <3>2 DEF AgeNext
  <2>3. aging' \in [Procs -> 0 .. MaxAging]
    BY <1>1, <1>4, <2>1, SchedulerAssumption DEF AgeNext, TableTypes, MayAge
  <2> QED
    BY <1>1, <1>4, <2>1, <2>2, <2>3, TypePartsThen
       DEF AgeNext, TableTypes, RestTypes, RunningTypes, ringVars, timerVars
<1>5. CASE SelectNext
  <2>1. doing.p \in Procs /\ next[doing.p] \in Procs \cup {NoProc} /\ doing.at = "select"
    BY <1>1, <1>2, <1>5 DEF SelectNext, Running, RestTypes, Links
  <2> DEFINE a == IF next[doing.p] = head THEN "switch" ELSE "select"
             b == IF doing.best = NoProc \/ Score(doing.p) > Score(doing.best)
                  THEN doing.p ELSE doing.best
  <2>2. doing' = [doing EXCEPT !.at = a, !.p = next[doing.p], !.best = b]
    BY <1>5 DEF SelectNext
  <2>3. a \in {"switch", "select"} /\ b \in Procs
    BY <1>2, <2>1
  <2>4. DoingTypes' /\ doing'.at \in {"switch", "select"}
    <3> HIDE DEF a, b
    <3>1. doing' \in DoingType /\ doing'.at = a /\ doing'.best = b
      BY <1>2, <2>1, <2>2, <2>3, AllStages DEF DoingType
    <3> QED
      BY <2>3, <3>1, StageTypes DEF DoingTypes
  <2> HIDE DEF a, b
  <2> QED
    BY <1>1, <1>5, <2>1, <2>4, TypePartsThen
       DEF SelectNext, TableTypes, RestTypes, RunningTypes, ringVars, timerVars, tableVars
<1>6. CASE Switch
  <2>1. doing.best \in Procs /\ doing.at = "switch"
    BY <1>1, <1>6 DEF Switch, Running, DoingTypes
  <2>2. DoingTypes' /\ doing'.at = "rest"
    BY <1>6, IdleType, Begins, AllStages, StageTypes DEF Switch
  <2>3. /\ state' = state \/ state' = [state EXCEPT ![doing.best] = "running"]
        /\ aging' = aging \/ aging' = [aging EXCEPT ![doing.best] = 0]
        /\ neverStarted' = neverStarted \/ neverStarted' = [neverStarted EXCEPT ![doing.best] = FALSE]
        /\ stack' = stack \/ stack' = Append(stack, doing.best)
        /\ priority' = priority /\ eventMask' = eventMask
    BY <1>6 DEF Switch
  <2>3a. TableTypes'
    <3>1. state' \in [Procs -> States]
      BY <1>1, <2>1, <2>3 DEF TableTypes, States
    <3>2. 0 \in 0 .. MaxAging
      BY SchedulerAssumption
    <3>3. aging' \in [Procs -> 0 .. MaxAging]
      BY <1>1, <2>1, <2>3, <3>2 DEF TableTypes
    <3>4. neverStarted' \in [Procs -> BOOLEAN]
      BY <1>1, <2>1, <2>3 DEF TableTypes
    <3> QED
      BY <1>1, <2>3, <3>1, <3>3, <3>4 DEF TableTypes
  <2>4. stack' \in Seq(Procs)
    BY <1>1, <2>1, <2>3 DEF RestTypes
  <2>5. RunningTypes'
    BY <1>1, <1>6, <2>1, <2>2 DEF Switch, RunningTypes, TableTypes
  <2> QED
    BY <1>1, <1>6, <2>1, <2>2, <2>3a, <2>4, <2>5, TypePartsThen
       DEF Switch, RestTypes, ringVars, timerVars
<1> QED
  BY <1>3, <1>4, <1>5, <1>6

\* A process leaves the ring.
LEMMA LeavingTyped ==
    ASSUME NEW q \in Procs \ {Idle}, NEW s \in {"sleeping", "blocked", "free"},
           doing' = [At("unlink", q) EXCEPT !.to = s]
    PROVE  DoingTypes' /\ doing'.at = "unlink"
<1>1. At("unlink", q) \in DoingType /\ At("unlink", q).at = "unlink" /\ At("unlink", q).p = q
  BY AtFields, AllStages
<1>2. doing' \in DoingType /\ doing'.at = "unlink" /\ doing'.p = q
  BY <1>1 DEF DoingType
<1> QED
  BY <1>2, StageTypes DEF DoingTypes

\* The other calls, and the loop of Proc_UnblockEvent.
LEMMA CallsTyped ==
    ASSUME SchedInv, Begin \/ ClearWaiting
                     \/ \E k \in Kinds : NoneWaiting(k) \/ \E p \in Procs : FindWaiting(k, p)
    PROVE  Types'
<1>1. /\ Types /\ TableTypes /\ RestTypes /\ DoingTypes /\ RunningTypes
  BY TypeParts DEF SchedInv
<1>2. /\ doing.p \in Procs \cup {NoProc} /\ doing \in DoingType /\ current \in Procs
      /\ state \in [Procs -> States]
  BY <1>1 DEF DoingTypes, DoingType, RestTypes, TableTypes
<1>3. ASSUME Quiet PROVE doing.at = "rest" /\ Good
  BY <1>3 DEF Quiet, Running, SchedInv
<1>4. ASSUME NEW p \in Procs, NEW prio \in Priorities, ProcNew(p, prio) PROVE Types'
  <2>1. DoingTypes' /\ doing'.at = "add"
    BY <1>4, Begins, AllStages, StageTypes DEF ProcNew
  <2>2. prio % 16 \in Nat
    BY SchedulerAssumption
  <2>3. 0 \in 0 .. MaxAging
    BY SchedulerAssumption
  <2>4. /\ state' = [state EXCEPT ![p] = "ready"] /\ priority' = [priority EXCEPT ![p] = prio % 16]
        /\ aging' = [aging EXCEPT ![p] = 0] /\ neverStarted' = [neverStarted EXCEPT ![p] = TRUE]
        /\ eventMask' = [eventMask EXCEPT ![p] = {}]
    BY <1>4 DEF ProcNew
  <2>5. TableTypes' /\ RunningTypes'
    BY <1>1, <2>1, <2>2, <2>3, <2>4, <1>4 DEF TableTypes, RunningTypes, States, ProcNew
  <2> QED
    BY <1>1, <1>4, <2>1, <2>5, TypePartsThen DEF ProcNew, RestTypes, ringVars, timerVars
<1>5. CASE ProcSleep
  <2>1. Leave("sleeping") /\ current \in Procs \ {Idle}
    BY <1>2, <1>5 DEF ProcSleep
  <2>2. DoingTypes' /\ doing'.at = "unlink"
    BY <2>1, LeavingTyped DEF Leave
  <2>3. timerOf' \in [TimerEntries -> Procs \cup {NoProc}]
    BY <1>1, <1>2, <1>5 DEF ProcSleep, RestTypes
  <2>4. primed' \subseteq TimerEntries
    BY <1>1, <1>5 DEF ProcSleep, RestTypes, FoundAt
  <2> QED
    BY <1>1, <1>5, <2>2, <2>3, <2>4, TypePartsThen
       DEF ProcSleep, TableTypes, RestTypes, RunningTypes, ringVars, tableVars
<1>6. ASSUME NEW mask \in SUBSET Kinds, ProcBlockOnEvent(mask) PROVE Types'
  <2>1. Leave("blocked") /\ current \in Procs \ {Idle}
    BY <1>2, <1>6 DEF ProcBlockOnEvent
  <2>2. DoingTypes' /\ doing'.at = "unlink"
    BY <2>1, LeavingTyped DEF Leave
  <2>3. TableTypes'
    BY <1>1, <1>6 DEF TableTypes, ProcBlockOnEvent
  <2> QED
    BY <1>1, <1>6, <2>2, <2>3, TypePartsThen
       DEF ProcBlockOnEvent, RestTypes, RunningTypes, ringVars, timerVars
<1>7. ASSUME NEW p \in Procs, ProcWakeSleeper(p) PROVE Types'
  <2>1. DoingTypes' /\ doing'.at = "add"
    BY <1>7, Begins, AllStages, StageTypes DEF ProcWakeSleeper
  <2>2. TableTypes' /\ RunningTypes'
    BY <1>1, <1>7, <2>1 DEF TableTypes, RunningTypes, States, ProcWakeSleeper
  <2>3. /\ timerOf' \in [TimerEntries -> Procs \cup {NoProc}] /\ primed' \subseteq TimerEntries
    BY <1>1, <1>7 DEF ProcWakeSleeper, TimerRemoved, RestTypes
  <2> QED
    BY <1>1, <1>7, <2>1, <2>2, <2>3, TypePartsThen DEF ProcWakeSleeper, RestTypes, ringVars
<1>8. ASSUME NEW p \in Procs, ProcWakeBlocked(p) PROVE Types'
  <2>1. DoingTypes' /\ doing'.at = "clear"
    BY <1>8, Begins, AllStages, StageTypes DEF ProcWakeBlocked
  <2> QED
    BY <1>1, <1>8, <2>1, TypePartsThen
       DEF ProcWakeBlocked, TableTypes, RestTypes, RunningTypes, ringVars, timerVars, tableVars
<1>9. ASSUME NEW e \in TimerEntries, TimerFires(e) PROVE Types'
  <2>1. Quiet /\ e \in primed
    BY <1>9 DEF TimerFires
  <2>2. timerOf[e] \in Procs
    BY <1>3, <2>1 DEF Good, TimerInv
  <2>3. CASE state' = state /\ doing' = doing
    BY <1>1, <1>9, <2>3, TypePartsThen
       DEF TimerFires, TableTypes, RestTypes, RunningTypes, DoingTypes, ringVars
  <2>4. CASE state' = [state EXCEPT ![timerOf[e]] = "ready"] /\ doing' = At("add", timerOf[e])
    <3>1. DoingTypes' /\ doing'.at = "add"
      BY <2>2, <2>4, Begins, AllStages, StageTypes
    <3>2. TableTypes' /\ RunningTypes'
      BY <1>1, <1>9, <2>2, <2>4, <3>1 DEF TableTypes, RunningTypes, States, TimerFires
    <3> QED
      BY <1>1, <1>9, <3>1, <3>2, TypePartsThen DEF TimerFires, RestTypes, ringVars
  <2> QED
    BY <1>9, <2>3, <2>4 DEF TimerFires
<1>10. ASSUME NEW k \in Kinds, ProcUnblockEvent(k) PROVE Types'
  <2>1. doing' = [At("scan", Idle) EXCEPT !.kinds = {k}]
    BY <1>10 DEF ProcUnblockEvent
  <2>2. At("scan", Idle) \in DoingType /\ At("scan", Idle).at = "scan"
    BY IdleType, AtFields, AllStages
  <2>3. doing' \in DoingType /\ doing'.at = "scan"
    BY <2>1, <2>2 DEF DoingType
  <2>4. DoingTypes'
    BY <2>3, StageTypes DEF DoingTypes
  <2> QED
    BY <1>1, <1>10, <2>3, <2>4, TypePartsThen
       DEF ProcUnblockEvent, TableTypes, RestTypes, RunningTypes, ringVars, timerVars, tableVars
<1>11. CASE EntryReturns
  <2>1. Quiet /\ stack # <<>>
    BY <1>11 DEF EntryReturns
  <2>2. stack \in Seq(Procs) /\ Last(stack) \in Procs /\ Front(stack) \in Seq(Procs)
    <3>1. stack \in Seq(Procs) /\ Len(stack) \in Nat /\ Len(stack) # 0
      BY <1>1, <2>1, EmptySeq DEF RestTypes
    <3> QED
      BY <3>1 DEF Last, Front
  <2>3. Last(stack) # Idle
    <3>1. Len(stack) \in DOMAIN stack
      BY <2>1, <2>2, EmptySeq
    <3> QED
      BY <1>3, <2>1, <3>1 DEF Good, OnStack, In, Last
  <2>4. DoingTypes' /\ doing'.at = "unlink"
    BY <1>11, <2>2, <2>3, LeavingTyped DEF EntryReturns
  <2>5. TableTypes' /\ RunningTypes'
    BY <1>1, <1>11, <2>2, <2>4 DEF TableTypes, RunningTypes, States, EntryReturns
  <2>6. stack' \in Seq(Procs) /\ orphaned' \subseteq Procs
    BY <1>1, <1>11, <2>2 DEF EntryReturns, RestTypes
  <2> QED
    BY <1>1, <1>11, <2>4, <2>5, <2>6, TypePartsThen
       DEF EntryReturns, RestTypes, ringVars, timerVars
<1>12. CASE ClearWaiting
  <2>1. doing.p \in Procs /\ doing.at = "clear"
    BY <1>1, <1>12, StageTypes DEF ClearWaiting, Running, DoingTypes
  <2>2. DoingTypes' /\ doing'.at = "add"
    BY <1>1, <1>12, <2>1, GoesTo, AllStages, StageTypes DEF ClearWaiting
  <2>3. TableTypes' /\ RunningTypes'
    BY <1>1, <1>12, <2>1, <2>2 DEF TableTypes, RunningTypes, States, ClearWaiting
  <2> QED
    BY <1>1, <1>12, <2>2, <2>3, TypePartsThen DEF ClearWaiting, RestTypes, ringVars, timerVars
<1>13. ASSUME NEW k \in Kinds, NoneWaiting(k) PROVE Types'
  <2>1. DoingTypes' /\ doing'.at = "rest"
    BY <1>13, IdleType, StageTypes, AllStages, Begins DEF NoneWaiting
  <2> QED
    BY <1>1, <1>13, <2>1, TypePartsThen
       DEF NoneWaiting, TableTypes, RestTypes, RunningTypes, ringVars, timerVars, tableVars
<1>14. ASSUME NEW k \in Kinds, NEW p \in Procs, FindWaiting(k, p) PROVE Types'
  <2>1. doing' = [doing EXCEPT !.at = "clear", !.p = p]
    BY <1>14 DEF FindWaiting
  <2>2. doing' \in DoingType /\ doing'.at = "clear" /\ doing'.p = p
    BY <1>2, <2>1, AllStages DEF DoingType
  <2>3. DoingTypes'
    BY <2>2, StageTypes DEF DoingTypes
  <2> QED
    BY <1>1, <1>14, <2>2, <2>3, TypePartsThen
       DEF FindWaiting, TableTypes, RestTypes, RunningTypes, ringVars, timerVars, tableVars
<1> QED
  BY <1>4, <1>5, <1>6, <1>7, <1>8, <1>9, <1>10, <1>11, <1>12, <1>13, <1>14 DEF Begin

\* The handler.
LEMMA WheelTyped ==
    ASSUME Types, NEW k \in WheelKinds, NEW p \in Procs, WheelUnblocks(k, p)
    PROVE  Types'
<1>1. TableTypes /\ RestTypes /\ DoingTypes /\ RunningTypes
  BY TypeParts
<1>2. /\ Hindmost \in Procs \cup {NoProc} /\ head \in Procs /\ next \in Links /\ prev \in Links
      /\ WheelKinds \subseteq Kinds
  BY <1>1, IdleType, SchedulerAssumption DEF Hindmost, RestTypes, Links
<1>3. [next EXCEPT ![p] = head, ![Hindmost] = p] \in Links
  BY <1>2 DEF Links
<1>4. [prev EXCEPT ![p] = Hindmost, ![head] = p] \in Links
  BY <1>2 DEF Links
<1>5. TableTypes' /\ RunningTypes'
  BY <1>1 DEF TableTypes, RunningTypes, States, WheelUnblocks
<1>6. order' \in Seq(Procs) /\ torn' \in BOOLEAN /\ wheel' \subseteq WheelKinds
  BY <1>1 DEF WheelUnblocks, RestTypes, EndsInUse
<1> QED
  BY <1>1, <1>3, <1>4, <1>5, <1>6, TypePartsThen
     DEF WheelUnblocks, RestTypes, DoingTypes, timerVars

-----------------------------------------------------------------------------
(* The invariant holds.                                                    *)

\* One case for each action: what the handler cannot break, and the rest, if the
\* ring is whole after the step.
LEMMA SchedStep == SchedInv /\ [Next]_vars => SchedInv'
<1> SUFFICES ASSUME SchedInv, [Next]_vars PROVE SchedInv'
  OBVIOUS
<1>1. Types /\ (~torn => Good)
  BY DEF SchedInv
<1>2. CASE LinkNew \/ LinkLast \/ CloseRing \/ Unlink \/ Relink \/ MoveHead
  <2>1. Types' /\ torn' = torn
    BY <1>1, <1>2, LinksTyped DEF LinkNew, LinkLast, CloseRing, Unlink, Relink, MoveHead
  <2>2. ASSUME Good PROVE Good'
    BY <1>1, <1>2, <2>2, LinkNewKeeps, LinkLastKeeps, CloseRingKeeps, UnlinkKeeps, RelinkKeeps,
       MoveHeadKeeps
  <2> QED
    BY <1>1, <2>1, <2>2 DEF SchedInv
<1>3. CASE ProcYield \/ AgeNext \/ SelectNext \/ Switch
  <2>1. Types' /\ torn' = torn
    BY <1>1, <1>3, YieldTyped DEF ProcYield, AgeNext, SelectNext, Switch
  <2>2. ASSUME Good PROVE Good'
    BY <1>1, <1>3, <2>2, YieldKeeps, WalkKeeps, SwitchKeeps
  <2> QED
    BY <1>1, <2>1, <2>2 DEF SchedInv
<1>4. CASE \/ ClearWaiting
           \/ \E k \in Kinds : NoneWaiting(k) \/ \E p \in Procs : FindWaiting(k, p)
  <2>1. Types' /\ torn' = torn
    BY <1>4, CallsTyped DEF ClearWaiting, NoneWaiting, FindWaiting
  <2>2. ASSUME Good PROVE Good'
    BY <1>1, <1>4, <2>2, ClearKeeps, FoundKeeps
  <2> QED
    BY <1>1, <2>1, <2>2 DEF SchedInv
<1>5. CASE Begin
  <2>1. Types' /\ ~torn /\ Good
    BY <1>1, <1>5, CallsTyped
       DEF Begin, Quiet, ProcNew, ProcSleep, ProcBlockOnEvent, ProcWakeSleeper, ProcWakeBlocked,
           TimerFires, ProcUnblockEvent, EntryReturns
  <2>2. Good'
    <3>1. ASSUME NEW p \in Procs, NEW prio \in Priorities, ProcNew(p, prio) PROVE Good'
      BY <1>1, <2>1, <3>1, NewKeeps
    <3>2. CASE ProcSleep
      BY <1>1, <2>1, <3>2, SleepKeeps
    <3>3. ASSUME NEW mask \in SUBSET Kinds, ProcBlockOnEvent(mask) PROVE Good'
      BY <1>1, <2>1, <3>3, BlockKeeps
    <3>4. ASSUME NEW p \in Procs, ProcWakeSleeper(p) PROVE Good'
      BY <1>1, <2>1, <3>4, WakeSleeperKeeps
    <3>5. ASSUME NEW p \in Procs, ProcWakeBlocked(p) PROVE Good'
      BY <1>1, <2>1, <3>5, FoundKeeps
    <3>6. ASSUME NEW e \in TimerEntries, TimerFires(e) PROVE Good'
      BY <1>1, <2>1, <3>6, FiresKeeps
    <3>7. ASSUME NEW k \in Kinds, ProcUnblockEvent(k) PROVE Good'
      BY <1>1, <2>1, <3>7, FoundKeeps
    <3>8. CASE EntryReturns
      BY <1>1, <2>1, <3>8, ReturnKeeps
    <3> QED
      BY <1>5, <3>1, <3>2, <3>3, <3>4, <3>5, <3>6, <3>7, <3>8 DEF Begin
  <2> QED
    BY <2>1, <2>2 DEF SchedInv
<1>6. ASSUME NEW k \in WheelKinds, NEW p \in Procs, WheelUnblocks(k, p) PROVE SchedInv'
  <2>1. Types' /\ (torn => torn')
    BY <1>1, <1>6, WheelTyped DEF WheelUnblocks
  <2>2. ASSUME ~torn' PROVE Good'
    BY <1>1, <1>6, <2>1, <2>2, WheelKeeps
  <2> QED
    BY <2>1, <2>2 DEF SchedInv
<1>7. CASE UNCHANGED vars
  <2>1. /\ UNCHANGED <<state, priority, aging, neverStarted, eventMask, next, prev, head, current>>
        /\ UNCHANGED <<stack, doing, wheel, timerOf, primed, orphaned, order, torn>>
    BY <1>7 DEF vars, tableVars, ringVars, timerVars
  <2>2. Types'
    BY <1>1, <2>1, TypeParts, TypePartsThen
       DEF TableTypes, RestTypes, DoingTypes, RunningTypes
  <2>3. ASSUME Good PROVE Good'
    BY <2>1, <2>3 DEF Good, Members, Settled, Linked, Fore, Chain, Cursor, OnStack, TimerInv, Asleep
  <2> QED
    BY <1>1, <2>1, <2>2, <2>3 DEF SchedInv
<1> QED
  BY <1>2, <1>3, <1>4, <1>5, <1>6, <1>7 DEF Next, GoOn, Wheel

LEMMA SchedInvariant == Spec => []SchedInv
BY SchedInit, SchedStep, PTL DEF Spec

-----------------------------------------------------------------------------
(* The theorems.                                                           *)

\* Every field of the process table, the links, the stack, the call in progress
\* and the table of wake timers stays within its range, on a torn ring too.
THEOREM SchedTypeCorrect == Spec => []TypeOK
<1>1. SchedInv => TypeOK
  BY DEF SchedInv, Types
<1> QED
  BY <1>1, SchedInvariant, PTL

\* Whatever calls were made, one statement after another, and wherever the
\* handler of the wheel came between two of them but where `torn` says it tore the
\* ring: when the call is over, the links lead through the processes that were
\* added and not removed, in that order, and these are the ready and running ones.
THEOREM RingCorrect == Spec => []RingMatchesStates
<1>1. SchedInv => RingMatchesStates
  <2> SUFFICES ASSUME SchedInv, Quiet
               PROVE  IsRing(order)
                      /\ \A p \in Procs : InRing(p) <=> state[p] \in {"ready", "running"}
    BY DEF RingMatchesStates
  <2>1. Types /\ Good /\ doing.at = "rest"
    BY DEF SchedInv, Quiet, Running
  <2>2. Fore = next
    BY <2>1 DEF Fore
  <2>3. Chain(order, next, prev)
    BY <2>1, <2>2 DEF Good, Linked
  <2>4. Once(order) /\ order # <<>> /\ head = order[1]
    BY <2>1 DEF Good, Members, Types
  <2>5. IsRing(order)
    BY <2>3, <2>4 DEF IsRing, Chain, Once, Last
  <2>6. \A p \in Procs : InRing(p) <=> state[p] \in {"ready", "running"}
    BY <2>1, AtStart DEF InRing, In, Runs
  <2> QED
    BY <2>5, <2>6
<1> QED
  BY <1>1, SchedInvariant, PTL

\* No process but gCurrentProcess is marked running, on a torn ring too, and
\* until then gCurrentProcess is linked whenever a call begins, so what Proc_Sleep
\* and Proc_BlockOnEvent unlink is there.
THEOREM CurrentCorrect == Spec => []OnlyCurrentRuns
<1>1. SchedInv => OnlyCurrentRuns
  <2> SUFFICES ASSUME SchedInv PROVE OnlyCurrentRuns
    OBVIOUS
  <2>1. ASSUME Quiet PROVE InRing(current)
    BY <2>1, AtStart DEF SchedInv, Quiet, InRing, In
  <2> QED
    BY <2>1 DEF SchedInv, Types, OnlyCurrentRuns
<1> QED
  BY <1>1, SchedInvariant, PTL

\* Whenever a call begins, until the ring is torn, the entry functions that have
\* not returned are those of the processes that have started and are not free, one
\* each: Proc_New never hands out the slot of one of them.
THEOREM StackCorrect == Spec => []StartedIsOnStack
<1>1. SchedInv => StartedIsOnStack
  BY DEF SchedInv, Good, Quiet, OnStack, StartedIsOnStack, In, Once
<1> QED
  BY <1>1, SchedInvariant, PTL

\* Whenever a call begins, until the ring is torn, the entry a sleeper has in the
\* Time Manager's table is primed, and nobody else's is, unless an entry function
\* returned asleep in that slot.
THEOREM WakeTimersCorrect == Spec => []TimersAreSleepers
<1>1. SchedInv => TimersAreSleepers
  <2> SUFFICES ASSUME SchedInv, Quiet
               PROVE  \A p \in Procs :
                        /\ state[p] = "sleeping" => FoundAt(timerOf, p) \subseteq primed
                        /\ p \notin orphaned =>
                              \A e \in primed : timerOf[e] = p => state[p] = "sleeping"
    BY DEF TimersAreSleepers
  <2>1. Good /\ \A p \in Procs : Asleep(p) <=> state[p] = "sleeping"
    BY AtStart DEF SchedInv, Quiet
  <2> QED
    BY <2>1 DEF Good, TimerInv
<1> QED
  BY <1>1, SchedInvariant, PTL
=============================================================================
