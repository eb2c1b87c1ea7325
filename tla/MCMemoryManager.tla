-------------------------- MODULE MCMemoryManager --------------------------
(* Instances of MemoryManager for TLC. *)
EXTENDS MemoryManager

Limits35 == <<3, 5>>
============================================================================
