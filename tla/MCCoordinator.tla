--------------------------- MODULE MCCoordinator ---------------------------
(* Instances of Coordinator for TLC. *)
EXTENDS Coordinator, TLC

\* Clients that send a client id are interchangeable.
Symmetry == Permutations(Clients \ (Anonymous \cup Returning))

=============================================================================
