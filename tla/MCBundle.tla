------------------------------ MODULE MCBundle ------------------------------
(* Instances of Bundle for TLC. *)
EXTENDS Bundle

CONSTANTS a, b, c, b1

OwnUrl == [n \in Ids |-> n]
=============================================================================
