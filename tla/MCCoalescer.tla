----------------------------- MODULE MCCoalescer -----------------------------
(* Values of the constants of Coalescer that a .cfg cannot write. *)
EXTENDS Coalescer

CONSTANTS a, b

\* Every id is a backend of its own.
OwnUrl == [n \in Ids |-> n]
=============================================================================
