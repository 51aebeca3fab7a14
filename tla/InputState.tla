---------------------------- MODULE InputState ----------------------------
(* The input the algorithms without state are tried on.                     *)

VARIABLES kind,  \* which input this is
          input

=============================================================================
