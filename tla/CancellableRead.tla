-------------------------- MODULE CancellableRead --------------------------
(***************************************************************************)
(* What the coordinator relies on of a CancellableBulkRead                 *)
(* (motu_proxy/datastore.py): a read that may be cancelled at any time,    *)
(* hands over data only if it was not, and ends once it is.                *)
(***************************************************************************)
VARIABLES cancelled,  \* cancel() has been called
          result      \* how read() ended, "none" before it has

Results == {"data", "empty", "interrupted", "error"}

Init == cancelled = FALSE /\ result = "none"

Cancel ==
  /\ cancelled' = TRUE
  /\ UNCHANGED result

Return ==
  /\ result = "none"
  /\ result' \in {r \in Results : r = "data" => ~cancelled}
  /\ UNCHANGED cancelled

Next == Cancel \/ Return

\* A cancelled read ends, whatever the device does.
Spec == /\ Init /\ [][Next]_<<cancelled, result>>
        /\ WF_<<cancelled, result>>(cancelled /\ Return)

=============================================================================
