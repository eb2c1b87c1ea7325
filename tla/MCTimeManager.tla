--------------------------- MODULE MCTimeManager ---------------------------
(* Instances of TimeManager for TLC. *)
EXTENDS TimeManager, TLC

\* The records of the one-shot clients are interchangeable.
OneShotSymmetry == Permutations(Tasks \ Periodic)

\* What the code can still read: not the ring outside tail..head, not the fields
\* of a free entry, not the deadline of a disarmed interrupt.
LiveView ==
    LET used == {s \in Slots : eTask[s] # NoTask} IN
    <<now, initialized, eTask, [s \in used |-> <<eDeadline[s], ePeriod[s], eGen[s]>>],
      pending, genCounter, armed, IF armed THEN nextDeadline ELSE 0,
      [i \in Queued |-> ring[i]], head, tail, loopVars, ghostVars>>
=============================================================================
