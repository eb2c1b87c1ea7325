-------------------------- MODULE MCCoopScheduler --------------------------
(* Instances of CoopScheduler for TLC. *)
EXTENDS CoopScheduler

\* What the code can still read of a slot that is free: nothing but its links.
LiveView ==
    LET used == {p \in Procs : state[p] # "free"} IN
    <<state, [p \in used |-> <<priority[p], aging[p], neverStarted[p], eventMask[p]>>],
      ringVars, current, stack, doing, wheel, timerVars, orphaned, torn>>
=============================================================================
