-------------------------- MODULE MCManagedSession --------------------------
(* Instances of ManagedSession for TLC. *)
EXTENDS ManagedSession
=============================================================================
