----------------------------- MODULE EventStore -----------------------------
(***************************************************************************)
(* What the event queue promises its callers: it holds a bounded set of    *)
(* events; PostEvent adds one, GetNextEvent takes one whose kind is in its *)
(* mask and comes back without one only if there is none, FlushEvents      *)
(* takes those of the kinds in its mask, one after another, and comes back *)
(* when none is left. No order is promised: a call with a selective mask   *)
(* changes it.                                                             *)
(***************************************************************************)
EXTENDS Naturals, FiniteSets

CONSTANTS Kinds, Masks, Flushes, Capacity, MaxPosts

VARIABLES
    store,   \* the events that wait
    asked,   \* the mask of the GetNextEvent that is running: <<mask>> or <<>>
    flushing \* the mask of the FlushEvents that is running: <<mask>> or <<>>

Post(k) ==
    /\ Cardinality(store) < Capacity
    /\ \E t \in 1 .. MaxPosts :
          /\ \A e \in store : e.when # t
          /\ store' = store \cup {[what |-> k, when |-> t]}
    /\ UNCHANGED <<asked, flushing>>

Ask(mask) == asked = <<>> /\ asked' = <<mask>> /\ UNCHANGED <<store, flushing>>

Asked == {e \in store : e.what \in asked[1]}

Answer ==
    /\ asked # <<>>
    /\ \E e \in Asked : store' = store \ {e}
    /\ asked' = <<>>
    /\ UNCHANGED flushing

AnswerNone ==
    /\ asked # <<>>
    /\ Asked = {}
    /\ asked' = <<>>
    /\ UNCHANGED <<store, flushing>>

Flush(mask) == flushing = <<>> /\ flushing' = <<mask>> /\ UNCHANGED <<store, asked>>

Flushed == {e \in store : e.what \in flushing[1]}

Discard ==
    /\ flushing # <<>>
    /\ \E e \in Flushed : store' = store \ {e}
    /\ UNCHANGED <<asked, flushing>>

FlushDone ==
    /\ flushing # <<>>
    /\ Flushed = {}
    /\ flushing' = <<>>
    /\ UNCHANGED <<store, asked>>

Init == store = {} /\ asked = <<>> /\ flushing = <<>>

Next ==
    \/ \E k \in Kinds : Post(k)
    \/ \E mask \in Masks : Ask(mask)
    \/ Answer
    \/ AnswerNone
    \/ \E f \in Flushes : Flush(f[1])
    \/ Discard
    \/ FlushDone

Spec == Init /\ [][Next]_<<store, asked, flushing>>
=============================================================================
