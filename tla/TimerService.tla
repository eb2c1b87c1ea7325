---------------------------- MODULE TimerService ----------------------------
(***************************************************************************)
(* What the Time Manager promises to the owner of a one-shot task: a task  *)
(* that was primed is called once, not before its time, and not at all     *)
(* when it is primed again, cancelled or removed first.  One callback runs *)
(* at a time; it may use every operation.                                  *)
(***************************************************************************)
EXTENDS Naturals

CONSTANTS Tasks, NoTask

VARIABLES
    now,       \* the time of day
    state,     \* absent, idle, armed (primed) or owed (due, to be called)
    due,       \* when an armed or owed task may be called, 0 for the others
    running    \* the task whose callback is running

vars == <<now, state, due, running>>

Insert(t) ==
    /\ state[t] = "absent"
    /\ state' = [state EXCEPT ![t] = "idle"]
    /\ UNCHANGED <<now, due, running>>

\* Prime again, cancel and remove withdraw what was owed.
Prime(t, d) ==
    /\ state[t] # "absent"
    /\ d >= now
    /\ state' = [state EXCEPT ![t] = "armed"]
    /\ due' = [due EXCEPT ![t] = d]
    /\ UNCHANGED <<now, running>>

Withdraw(t, st) ==
    /\ state[t] # "absent"
    /\ st \in {"idle", "absent"}
    /\ state' = [state EXCEPT ![t] = st]
    /\ due' = [due EXCEPT ![t] = 0]
    /\ UNCHANGED <<now, running>>

Expire(t) ==
    /\ state[t] = "armed"
    /\ due[t] <= now
    /\ state' = [state EXCEPT ![t] = "owed"]
    /\ UNCHANGED <<now, due, running>>

Call(t) ==
    /\ state[t] = "owed"
    /\ running = NoTask
    /\ running' = t
    /\ state' = [state EXCEPT ![t] = "idle"]
    /\ due' = [due EXCEPT ![t] = 0]
    /\ UNCHANGED now

Return ==
    /\ running # NoTask
    /\ running' = NoTask
    /\ UNCHANGED <<now, state, due>>

\* The service stops: nobody is waiting for anything.
Stop ==
    /\ state' = [t \in Tasks |-> "absent"]
    /\ due' = [t \in Tasks |-> 0]
    /\ UNCHANGED <<now, running>>

TimePasses == now' > now /\ UNCHANGED <<state, due, running>>

Next ==
    \/ Stop
    \/ TimePasses
    \/ Return
    \/ \E t \in Tasks :
          \/ Insert(t) \/ Expire(t) \/ Call(t)
          \/ Withdraw(t, "idle") \/ Withdraw(t, "absent")
          \/ Prime(t, due'[t])

Init ==
    /\ now = 1
    /\ state = [t \in Tasks |-> "absent"]
    /\ due = [t \in Tasks |-> 0]
    /\ running = NoTask

Spec == Init /\ [][Next]_vars
=============================================================================
