------------------------------ MODULE MCXhci ------------------------------
(* Instances of Xhci for TLC: each device in a slot of its own, or a keyboard *)
(* and a mouse in one (a composite device).                                   *)
EXTENDS Xhci

OwnSlots == [h \in Hids |-> h]
OneSlot == [h \in Hids |-> "composite"]
============================================================================
