-------------------------- MODULE DatastoreSession --------------------------
(***************************************************************************)
(* What the coordinator relies on of the session below it: a session is    *)
(* opened or dropped as a whole, and each new one has the next generation. *)
(***************************************************************************)
EXTENDS Naturals

VARIABLES session,    \* whether a session is open
          generation  \* session_generation

Init == session = FALSE /\ generation = 0

Open ==
  /\ ~session
  /\ session' = TRUE
  /\ generation' = generation + 1

Drop ==
  /\ session
  /\ session' = FALSE
  /\ UNCHANGED generation

Next == Open \/ Drop

Spec == Init /\ [][Next]_<<session, generation>>

=============================================================================
