---------------------------- MODULE MCEventQueue ----------------------------
(* Instances of EventQueue for TLC. *)
EXTENDS EventQueue

AllKinds == {"key", "mUp", "update"}
EveryEvent == {AllKinds}
SelectiveMasks == {AllKinds, {"mUp"}, {"key", "update"}}

\* finder_main.c:152 and EventDispatcher.c:98: no caller gives a stopMask.
FlushAllOrMouse == {<<AllKinds, {}>>, <<{"mUp"}, {}>>}
=============================================================================
