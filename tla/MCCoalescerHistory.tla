-------------------------- MODULE MCCoalescerHistory --------------------------
(* Values of the constants of CoalescerHistory that a .cfg cannot write. *)
EXTENDS CoalescerHistory

CONSTANTS a, b

OwnUrl == [n \in Ids |-> n]
=============================================================================
