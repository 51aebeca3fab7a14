-------------------------- MODULE TransportProofs --------------------------
(***************************************************************************)
(* The USB transport: what UsbRead promises for any number of threads that *)
(* cancel a read, what the size checks of protocol.py guarantee for paths, *)
(* bodies and client numbers of every length, and that parser.py reads     *)
(* every response envelope as it was written.                              *)
(***************************************************************************)
EXTENDS UsbRead, Frames, EnvelopeInputs, SequenceTheorems, WellFoundedInduction, TLAPS

\* A leaf of these proofs takes the SMT solver a second or less, on a busy machine
\* more; the leaves that need Zenon say so.
USE SMTT(30)

-----------------------------------------------------------------------------
(* The cancellable read.  The invariant says, for every place of the       *)
(* reader, what is known of the URB and of the flags the cancelling        *)
(* threads set one by one.                                                 *)

Discarding == {"ioctl", "mark", "fail", "errno"}

\* The reader has not opened the wake-up pipe, or has closed it again.
PipeClosed ==
  \/ pc[Reader] \in {"start", "submit", "submitted", "recheck", "open", "result", "done"}
  \/ pc[Reader] \in CancelPcs \cup {"cancel"} /\ after = "open"

\* A discard has been tried and has failed.
Failing == discardFailed \/ \E t \in Threads : pc[t] \in {"fail", "errno"}

\* A discard has succeeded.
Discarded == discardSubmitted \/ \E t \in Threads : pc[t] = "mark"

UrbInv ==
  /\ pc[Reader] \in {"start", "submit"} => urb = "none"
  /\ pc[Reader] \in {"start", "submit", "submitted"} => ~submitted
  /\ pc[Reader] \notin {"start", "submit", "submitted", "done"} => submitted
  /\ ~submitted /\ pc[Reader] = "done" => urb = "none"
  /\ ~submitted => /\ ~discardFailed /\ ~discardSubmitted /\ ~reaped
                   /\ \A t \in Threads : pc[t] \notin Discarding
  /\ Failing \/ Discarded \/ reaped => gone \/ urb # "pending"
  /\ pc[Reader] = "race" => discardFailed
  /\ pc[Reader] \in {"close", "result", "done"} /\ ~gone /\ urb = "pending" =>
       outcome \in {"nopipe", "stray"}

\* A cancel() finds the URB, or the reader finds out about the cancel().
CancelInv ==
  cancelRequested /\ submitted /\ ~gone /\ urb = "pending" =>
    \/ \E t \in Threads : pc[t] \in {"discard", "ioctl"}
    \/ pc[Reader] \in {"recheck", "cancel"}

ErrnoInv ==
  /\ discardFailed => failureErrno # "none" \/ \E t \in Threads : pc[t] = "errno"
  /\ failureErrno = "ENODEV" => gone
  /\ \A t \in Threads : pc[t] \in {"fail", "errno"} =>
       errno[t] # "none" /\ (errno[t] = "ENODEV" => gone)

ResultInv ==
  /\ PipeClosed => wakeup = "closed"
  /\ pc[Reader] \notin {"close", "done"} => outcome = "none"
  /\ pc[Reader] = "close" => outcome \in {"none", "error", "stray"}

Inv == TypeOK /\ UrbInv /\ CancelInv /\ ErrnoInv /\ ResultInv

LEMMA InitInv == Init => Inv
BY ThreadsAssumption, Zenon
DEF Init, Inv, TypeOK, ValuesOK, FlagsOK, PlacesOK, UrbInv, CancelInv, ErrnoInv, ResultInv, Failing, Discarded,
    PipeClosed, Discarding, Threads, CancelPcs, ReaderPcs

LEMMA ReaderStepKeepsInv ==
  ASSUME Inv,
         \/ ReadStarts \/ SubmitUrb \/ MarkSubmitted \/ RecheckCancel
         \/ OpenWakeup \/ TryReap \/ CheckCancel \/ PollReturns
         \/ FinishReap \/ ReapBlocking \/ ReapRace \/ CloseWakeup
         \/ ReadReturns
  PROVE  Inv'
<1>0. /\ Reader \in Threads /\ Cancellers = Threads \ {Reader}
      /\ PlacesOK /\ ValuesOK /\ FlagsOK /\ UrbInv /\ CancelInv /\ ErrnoInv /\ ResultInv
  BY ThreadsAssumption DEF Threads, Inv, TypeOK
<1> USE DEF Goto, kernel, flags, own
<1>1. CASE ReadStarts
  <2>1. PlacesOK'   BY <1>0, <1>1 DEF ReadStarts, PlacesOK, CancelPcs, ReaderPcs
  <2>2. ValuesOK'   BY <1>0, <1>1 DEF ReadStarts, ValuesOK
  <2>3. FlagsOK'    BY <1>0, <1>1, Zenon DEF ReadStarts, FlagsOK
  <2>4. UrbInv'     BY <1>0, <1>1 DEF ReadStarts, UrbInv, PlacesOK, Failing, Discarded, Discarding
  <2>5. ErrnoInv'   BY <1>0, <1>1 DEF ReadStarts, ErrnoInv, PlacesOK
  <2>6. ResultInv'  BY <1>0, <1>1 DEF ReadStarts, ResultInv, PlacesOK, PipeClosed, CancelPcs
  <2>7. CancelInv'  BY <1>0, <1>1 DEF ReadStarts, CancelInv, UrbInv, PlacesOK, Failing, Discarded, Discarding
  <2> QED  BY <2>1, <2>2, <2>3, <2>4, <2>5, <2>6, <2>7, Zenon DEF Inv, TypeOK
<1>2. CASE SubmitUrb
  <2>1. PlacesOK'   BY <1>0, <1>2 DEF SubmitUrb, PlacesOK, CancelPcs, ReaderPcs
  <2>2. ValuesOK'   BY <1>0, <1>2 DEF SubmitUrb, ValuesOK
  <2>3. FlagsOK'    BY <1>0, <1>2, Zenon DEF SubmitUrb, FlagsOK
  <2>4. UrbInv'     BY <1>0, <1>2 DEF SubmitUrb, UrbInv, PlacesOK, Failing, Discarded, Discarding
  <2>5. ErrnoInv'   BY <1>0, <1>2 DEF SubmitUrb, ErrnoInv, PlacesOK
  <2>6. ResultInv'  BY <1>0, <1>2 DEF SubmitUrb, ResultInv, PlacesOK, PipeClosed, CancelPcs
  <2>7. CancelInv'  BY <1>0, <1>2 DEF SubmitUrb, CancelInv, UrbInv, PlacesOK, Failing, Discarded, Discarding
  <2> QED  BY <2>1, <2>2, <2>3, <2>4, <2>5, <2>6, <2>7, Zenon DEF Inv, TypeOK
<1>3. CASE MarkSubmitted
  <2>1. PlacesOK'   BY <1>0, <1>3 DEF MarkSubmitted, PlacesOK, CancelPcs, ReaderPcs
  <2>2. ValuesOK'   BY <1>0, <1>3 DEF MarkSubmitted, ValuesOK
  <2>3. FlagsOK'    BY <1>0, <1>3, Zenon DEF MarkSubmitted, FlagsOK
  <2>4. UrbInv'     BY <1>0, <1>3 DEF MarkSubmitted, UrbInv, PlacesOK, Failing, Discarded, Discarding
  <2>5. ErrnoInv'   BY <1>0, <1>3 DEF MarkSubmitted, ErrnoInv, PlacesOK
  <2>6. ResultInv'  BY <1>0, <1>3 DEF MarkSubmitted, ResultInv, PlacesOK, PipeClosed, CancelPcs
  <2>7. CancelInv'  BY <1>0, <1>3 DEF MarkSubmitted, CancelInv, UrbInv, PlacesOK, Failing, Discarded, Discarding
  <2> QED  BY <2>1, <2>2, <2>3, <2>4, <2>5, <2>6, <2>7, Zenon DEF Inv, TypeOK
<1>4. CASE RecheckCancel
  <2>1. PlacesOK'   BY <1>0, <1>4 DEF RecheckCancel, CancelAgain, PlacesOK, CancelPcs, ReaderPcs
  <2>2. ValuesOK'   BY <1>0, <1>4 DEF RecheckCancel, CancelAgain, ValuesOK
  <2>3. FlagsOK'    BY <1>0, <1>4, Zenon DEF RecheckCancel, CancelAgain, FlagsOK
  <2>4. UrbInv'     BY <1>0, <1>4 DEF RecheckCancel, CancelAgain, UrbInv, PlacesOK, Failing, Discarded, Discarding
  <2>5. ErrnoInv'   BY <1>0, <1>4 DEF RecheckCancel, CancelAgain, ErrnoInv, PlacesOK
  <2>6. ResultInv'  BY <1>0, <1>4 DEF RecheckCancel, CancelAgain, ResultInv, PlacesOK, PipeClosed, CancelPcs
  <2>7. CancelInv'  BY <1>0, <1>4 DEF RecheckCancel, CancelAgain, CancelInv, UrbInv, PlacesOK, Failing, Discarded, Discarding
  <2> QED  BY <2>1, <2>2, <2>3, <2>4, <2>5, <2>6, <2>7, Zenon DEF Inv, TypeOK
<1>5. CASE OpenWakeup
  <2>1. PlacesOK'   BY <1>0, <1>5 DEF OpenWakeup, PlacesOK, CancelPcs, ReaderPcs
  <2>2. ValuesOK'   BY <1>0, <1>5 DEF OpenWakeup, ValuesOK
  <2>3. FlagsOK'    BY <1>0, <1>5, Zenon DEF OpenWakeup, FlagsOK
  <2>4. UrbInv'     BY <1>0, <1>5 DEF OpenWakeup, UrbInv, PlacesOK, Failing, Discarded, Discarding
  <2>5. ErrnoInv'   BY <1>0, <1>5 DEF OpenWakeup, ErrnoInv, PlacesOK
  <2>6. ResultInv'  BY <1>0, <1>5 DEF OpenWakeup, ResultInv, PlacesOK, PipeClosed, CancelPcs
  <2>7. CancelInv'  BY <1>0, <1>5 DEF OpenWakeup, CancelInv, UrbInv, PlacesOK, Failing, Discarded, Discarding
  <2> QED  BY <2>1, <2>2, <2>3, <2>4, <2>5, <2>6, <2>7, Zenon DEF Inv, TypeOK
<1>6. CASE TryReap
  <2>1. PlacesOK'   BY <1>0, <1>6 DEF TryReap, TakeUrb, ReapFails, Reapable, PlacesOK, CancelPcs, ReaderPcs
  <2>2. ValuesOK'   BY <1>0, <1>6 DEF TryReap, TakeUrb, ReapFails, Reapable, ValuesOK
  <2>3. FlagsOK'    BY <1>0, <1>6, Zenon DEF TryReap, TakeUrb, ReapFails, Reapable, FlagsOK
  <2>4. UrbInv'     BY <1>0, <1>6 DEF TryReap, TakeUrb, ReapFails, Reapable, UrbInv, PlacesOK, Failing, Discarded, Discarding
  <2>5. ErrnoInv'   BY <1>0, <1>6 DEF TryReap, TakeUrb, ReapFails, Reapable, ErrnoInv, PlacesOK
  <2>6. ResultInv'  BY <1>0, <1>6 DEF TryReap, TakeUrb, ReapFails, Reapable, ResultInv, PlacesOK, PipeClosed, CancelPcs
  <2>7. CancelInv'  BY <1>0, <1>6 DEF TryReap, TakeUrb, ReapFails, Reapable, CancelInv, UrbInv, PlacesOK, Failing, Discarded, Discarding
  <2> QED  BY <2>1, <2>2, <2>3, <2>4, <2>5, <2>6, <2>7, Zenon DEF Inv, TypeOK
<1>7. CASE CheckCancel
  <2>1. PlacesOK'   BY <1>0, <1>7 DEF CheckCancel, PlacesOK, CancelPcs, ReaderPcs
  <2>2. ValuesOK'   BY <1>0, <1>7 DEF CheckCancel, ValuesOK
  <2>3. FlagsOK'    BY <1>0, <1>7, Zenon DEF CheckCancel, FlagsOK
  <2>4. UrbInv'     BY <1>0, <1>7 DEF CheckCancel, UrbInv, PlacesOK, Failing, Discarded, Discarding
  <2>5. ErrnoInv'   BY <1>0, <1>7 DEF CheckCancel, ErrnoInv, PlacesOK
  <2>6. ResultInv'  BY <1>0, <1>7 DEF CheckCancel, ResultInv, PlacesOK, PipeClosed, CancelPcs
  <2>7. CancelInv'  BY <1>0, <1>7 DEF CheckCancel, CancelInv, UrbInv, PlacesOK, Failing, Discarded, Discarding
  <2> QED  BY <2>1, <2>2, <2>3, <2>4, <2>5, <2>6, <2>7, Zenon DEF Inv, TypeOK
<1>8. CASE PollReturns
  <2>1. PlacesOK'   BY <1>0, <1>8 DEF PollReturns, PlacesOK, CancelPcs, ReaderPcs
  <2>2. ValuesOK'   BY <1>0, <1>8 DEF PollReturns, ValuesOK
  <2>3. FlagsOK'    BY <1>0, <1>8, Zenon DEF PollReturns, FlagsOK
  <2>4. UrbInv'     BY <1>0, <1>8 DEF PollReturns, UrbInv, PlacesOK, Failing, Discarded, Discarding
  <2>5. ErrnoInv'   BY <1>0, <1>8 DEF PollReturns, ErrnoInv, PlacesOK
  <2>6. ResultInv'  BY <1>0, <1>8 DEF PollReturns, ResultInv, PlacesOK, PipeClosed, CancelPcs
  <2>7. CancelInv'  BY <1>0, <1>8 DEF PollReturns, CancelInv, UrbInv, PlacesOK, Failing, Discarded, Discarding
  <2> QED  BY <2>1, <2>2, <2>3, <2>4, <2>5, <2>6, <2>7, Zenon DEF Inv, TypeOK
<1>9. CASE FinishReap
  <2>1. PlacesOK'   BY <1>0, <1>9 DEF FinishReap, PlacesOK, CancelPcs, ReaderPcs
  <2>2. ValuesOK'   BY <1>0, <1>9 DEF FinishReap, ValuesOK
  <2>3. FlagsOK'    BY <1>0, <1>9, Zenon DEF FinishReap, FlagsOK
  <2>4. UrbInv'     BY <1>0, <1>9 DEF FinishReap, UrbInv, PlacesOK, Failing, Discarded, Discarding
  <2>5. ErrnoInv'   BY <1>0, <1>9 DEF FinishReap, ErrnoInv, PlacesOK
  <2>6. ResultInv'  BY <1>0, <1>9 DEF FinishReap, ResultInv, PlacesOK, PipeClosed, CancelPcs
  <2>7. CancelInv'  BY <1>0, <1>9 DEF FinishReap, CancelInv, UrbInv, PlacesOK, Failing, Discarded, Discarding
  <2> QED  BY <2>1, <2>2, <2>3, <2>4, <2>5, <2>6, <2>7, Zenon DEF Inv, TypeOK
<1>10. CASE ReapBlocking
  <2>1. PlacesOK'   BY <1>0, <1>10 DEF ReapBlocking, TakeUrb, ReapFails, Reapable, PlacesOK, CancelPcs, ReaderPcs
  <2>2. ValuesOK'   BY <1>0, <1>10 DEF ReapBlocking, TakeUrb, ReapFails, Reapable, ValuesOK
  <2>3. FlagsOK'    BY <1>0, <1>10, Zenon DEF ReapBlocking, TakeUrb, ReapFails, Reapable, FlagsOK
  <2>4. UrbInv'     BY <1>0, <1>10 DEF ReapBlocking, TakeUrb, ReapFails, Reapable, UrbInv, PlacesOK, Failing, Discarded, Discarding
  <2>5. ErrnoInv'   BY <1>0, <1>10 DEF ReapBlocking, TakeUrb, ReapFails, Reapable, ErrnoInv, PlacesOK
  <2>6. ResultInv'  BY <1>0, <1>10 DEF ReapBlocking, TakeUrb, ReapFails, Reapable, ResultInv, PlacesOK, PipeClosed, CancelPcs
  <2>7. CancelInv'  BY <1>0, <1>10 DEF ReapBlocking, TakeUrb, ReapFails, Reapable, CancelInv, UrbInv, PlacesOK, Failing, Discarded, Discarding
  <2> QED  BY <2>1, <2>2, <2>3, <2>4, <2>5, <2>6, <2>7, Zenon DEF Inv, TypeOK
<1>11. CASE ReapRace
  <2>1. PlacesOK'   BY <1>0, <1>11 DEF ReapRace, TakeUrb, ReapFails, Reapable, PlacesOK, CancelPcs, ReaderPcs
  <2>2. ValuesOK'   BY <1>0, <1>11 DEF ReapRace, TakeUrb, ReapFails, Reapable, ValuesOK
  <2>3. FlagsOK'    BY <1>0, <1>11, Zenon DEF ReapRace, TakeUrb, ReapFails, Reapable, FlagsOK
  <2>4. UrbInv'     BY <1>0, <1>11 DEF ReapRace, TakeUrb, ReapFails, Reapable, UrbInv, PlacesOK, Failing, Discarded, Discarding
  <2>5. ErrnoInv'   BY <1>0, <1>11 DEF ReapRace, TakeUrb, ReapFails, Reapable, ErrnoInv, PlacesOK
  <2>6. ResultInv'  BY <1>0, <1>11 DEF ReapRace, TakeUrb, ReapFails, Reapable, ResultInv, PlacesOK, PipeClosed, CancelPcs
  <2>7. CancelInv'  BY <1>0, <1>11 DEF ReapRace, TakeUrb, ReapFails, Reapable, CancelInv, UrbInv, PlacesOK, Failing, Discarded, Discarding
  <2> QED  BY <2>1, <2>2, <2>3, <2>4, <2>5, <2>6, <2>7, Zenon DEF Inv, TypeOK
<1>12. CASE CloseWakeup
  <2>1. PlacesOK'   BY <1>0, <1>12 DEF CloseWakeup, PlacesOK, CancelPcs, ReaderPcs
  <2>2. ValuesOK'   BY <1>0, <1>12 DEF CloseWakeup, ValuesOK
  <2>3. FlagsOK'    BY <1>0, <1>12, Zenon DEF CloseWakeup, FlagsOK
  <2>4. UrbInv'     BY <1>0, <1>12 DEF CloseWakeup, UrbInv, PlacesOK, Failing, Discarded, Discarding
  <2>5. ErrnoInv'   BY <1>0, <1>12 DEF CloseWakeup, ErrnoInv, PlacesOK
  <2>6. ResultInv'  BY <1>0, <1>12 DEF CloseWakeup, ResultInv, PlacesOK, PipeClosed, CancelPcs
  <2>7. CancelInv'  BY <1>0, <1>12 DEF CloseWakeup, CancelInv, UrbInv, PlacesOK, Failing, Discarded, Discarding
  <2> QED  BY <2>1, <2>2, <2>3, <2>4, <2>5, <2>6, <2>7, Zenon DEF Inv, TypeOK
<1>13. CASE ReadReturns
  <2>1. PlacesOK'   BY <1>0, <1>13 DEF ReadReturns, Result, PlacesOK, CancelPcs, ReaderPcs
  <2>2. ValuesOK'   BY <1>0, <1>13 DEF ReadReturns, Result, ValuesOK
  <2>3. FlagsOK'    BY <1>0, <1>13, Zenon DEF ReadReturns, Result, FlagsOK
  <2>4. UrbInv'     BY <1>0, <1>13 DEF ReadReturns, ResultInv, UrbInv, PlacesOK, Failing, Discarded, Discarding
  <2>5. ErrnoInv'   BY <1>0, <1>13 DEF ReadReturns, Result, ErrnoInv, PlacesOK
  <2>6. ResultInv'  BY <1>0, <1>13 DEF ReadReturns, Result, ResultInv, PlacesOK, PipeClosed, CancelPcs
  <2>7. CancelInv'  BY <1>0, <1>13 DEF ReadReturns, Result, CancelInv, UrbInv, PlacesOK, Failing, Discarded, Discarding
  <2> QED  BY <2>1, <2>2, <2>3, <2>4, <2>5, <2>6, <2>7, Zenon DEF Inv, TypeOK
<1> QED  BY <1>1, <1>2, <1>3, <1>4, <1>5, <1>6, <1>7, <1>8, <1>9, <1>10, <1>11, <1>12, <1>13, Zenon

LEMMA CancelKeepsInv ==
  ASSUME Inv, NEW t \in Threads, CancelStarts(t) \/ CancelStep(t)
  PROVE  Inv'
<1>0. /\ Reader \in Threads /\ Cancellers = Threads \ {Reader}
      /\ PlacesOK /\ ValuesOK /\ FlagsOK /\ UrbInv /\ CancelInv /\ ErrnoInv /\ ResultInv
  BY ThreadsAssumption DEF Threads, Inv, TypeOK
<1> USE DEF Goto, kernel, flags, own
<1>1. CASE CancelStarts(t)
  <2>1. PlacesOK'   BY <1>0, <1>1 DEF CancelStarts, PlacesOK, CancelPcs, ReaderPcs
  <2>2. ValuesOK'   BY <1>0, <1>1 DEF CancelStarts, ValuesOK
  <2>3. FlagsOK'    BY <1>0, <1>1, Zenon DEF CancelStarts, FlagsOK
  <2>4. UrbInv'     BY <1>0, <1>1 DEF CancelStarts, UrbInv, PlacesOK, Failing, Discarded, Discarding
  <2>5. ErrnoInv'   BY <1>0, <1>1 DEF CancelStarts, ErrnoInv, PlacesOK
  <2>6. ResultInv'  BY <1>0, <1>1 DEF CancelStarts, ResultInv, PlacesOK, PipeClosed, CancelPcs
  <2>7. CancelInv'  BY <1>0, <1>1 DEF CancelStarts, CancelInv, UrbInv, PlacesOK, Failing, Discarded, Discarding
  <2> QED  BY <2>1, <2>2, <2>3, <2>4, <2>5, <2>6, <2>7, Zenon DEF Inv, TypeOK
<1>2. CASE CancelChecks(t)
  <2>1. PlacesOK'   BY <1>0, <1>2 DEF CancelChecks, NothingToDiscard, PlacesOK, CancelPcs, ReaderPcs
  <2>2. ValuesOK'   BY <1>0, <1>2 DEF CancelChecks, NothingToDiscard, ValuesOK
  <2>3. FlagsOK'    BY <1>0, <1>2, Zenon DEF CancelChecks, NothingToDiscard, FlagsOK
  <2>4. UrbInv'     BY <1>0, <1>2 DEF CancelChecks, NothingToDiscard, UrbInv, PlacesOK, Failing, Discarded, Discarding
  <2>5. ErrnoInv'   BY <1>0, <1>2 DEF CancelChecks, NothingToDiscard, ErrnoInv, PlacesOK
  <2>6. ResultInv'  BY <1>0, <1>2 DEF CancelChecks, NothingToDiscard, ResultInv, PlacesOK, PipeClosed, CancelPcs
  <2>7. CancelInv'  BY <1>0, <1>2 DEF CancelChecks, NothingToDiscard, CancelInv, UrbInv, PlacesOK, Failing, Discarded, Discarding
  <2> QED  BY <2>1, <2>2, <2>3, <2>4, <2>5, <2>6, <2>7, Zenon DEF Inv, TypeOK
<1>3. CASE DiscardUrb(t)
  <2>1. PlacesOK'   BY <1>0, <1>3 DEF DiscardUrb, PlacesOK, CancelPcs, ReaderPcs
  <2>2. ValuesOK'   BY <1>0, <1>3 DEF DiscardUrb, ValuesOK
  <2>3. FlagsOK'    BY <1>0, <1>3, Zenon DEF DiscardUrb, FlagsOK
  <2>4. UrbInv'     BY <1>0, <1>3 DEF DiscardUrb, UrbInv, PlacesOK, Failing, Discarded, Discarding
  <2>5. ErrnoInv'   BY <1>0, <1>3 DEF DiscardUrb, ErrnoInv, PlacesOK, ValuesOK
  <2>6. ResultInv'  BY <1>0, <1>3 DEF DiscardUrb, ResultInv, PlacesOK, PipeClosed, CancelPcs
  <2>7. CancelInv'  BY <1>0, <1>3 DEF DiscardUrb, CancelInv, UrbInv, PlacesOK, Failing, Discarded, Discarding
  <2> QED  BY <2>1, <2>2, <2>3, <2>4, <2>5, <2>6, <2>7, Zenon DEF Inv, TypeOK
<1>4. CASE MarkDiscarded(t)
  <2>1. PlacesOK'   BY <1>0, <1>4 DEF MarkDiscarded, PlacesOK, CancelPcs, ReaderPcs
  <2>2. ValuesOK'   BY <1>0, <1>4 DEF MarkDiscarded, ValuesOK
  <2>3. FlagsOK'    BY <1>0, <1>4, Zenon DEF MarkDiscarded, FlagsOK
  <2>4. UrbInv'     BY <1>0, <1>4 DEF MarkDiscarded, UrbInv, PlacesOK, Failing, Discarded, Discarding
  <2>5. ErrnoInv'   BY <1>0, <1>4 DEF MarkDiscarded, ErrnoInv, PlacesOK
  <2>6. ResultInv'  BY <1>0, <1>4 DEF MarkDiscarded, ResultInv, PlacesOK, PipeClosed, CancelPcs
  <2>7. CancelInv'  BY <1>0, <1>4 DEF MarkDiscarded, CancelInv, UrbInv, PlacesOK, Failing, Discarded, Discarding
  <2> QED  BY <2>1, <2>2, <2>3, <2>4, <2>5, <2>6, <2>7, Zenon DEF Inv, TypeOK
<1>5. CASE MarkFailed(t)
  <2>1. PlacesOK'   BY <1>0, <1>5 DEF MarkFailed, PlacesOK, CancelPcs, ReaderPcs
  <2>2. ValuesOK'   BY <1>0, <1>5 DEF MarkFailed, ValuesOK
  <2>3. FlagsOK'    BY <1>0, <1>5, Zenon DEF MarkFailed, FlagsOK
  <2>4. UrbInv'     BY <1>0, <1>5 DEF MarkFailed, UrbInv, PlacesOK, Failing, Discarded, Discarding
  <2>5. ErrnoInv'   BY <1>0, <1>5 DEF MarkFailed, ErrnoInv, PlacesOK
  <2>6. ResultInv'  BY <1>0, <1>5 DEF MarkFailed, ResultInv, PlacesOK, PipeClosed, CancelPcs
  <2>7. CancelInv'  BY <1>0, <1>5 DEF MarkFailed, CancelInv, UrbInv, PlacesOK, Failing, Discarded, Discarding
  <2> QED  BY <2>1, <2>2, <2>3, <2>4, <2>5, <2>6, <2>7, Zenon DEF Inv, TypeOK
<1>6. CASE RecordErrno(t)
  <2>1. PlacesOK'   BY <1>0, <1>6 DEF RecordErrno, PlacesOK, CancelPcs, ReaderPcs
  <2>2. ValuesOK'   BY <1>0, <1>6 DEF RecordErrno, ValuesOK
  <2>3. FlagsOK'    BY <1>0, <1>6, Zenon DEF RecordErrno, FlagsOK
  <2>4. UrbInv'     BY <1>0, <1>6 DEF RecordErrno, UrbInv, PlacesOK, Failing, Discarded, Discarding
  <2>5. ErrnoInv'   BY <1>0, <1>6 DEF RecordErrno, ErrnoInv, PlacesOK
  <2>6. ResultInv'  BY <1>0, <1>6 DEF RecordErrno, ResultInv, PlacesOK, PipeClosed, CancelPcs
  <2>7. CancelInv'  BY <1>0, <1>6 DEF RecordErrno, CancelInv, UrbInv, PlacesOK, Failing, Discarded, Discarding
  <2> QED  BY <2>1, <2>2, <2>3, <2>4, <2>5, <2>6, <2>7, Zenon DEF Inv, TypeOK
<1>7. CASE WakeLooks(t)
  <2>1. PlacesOK'   BY <1>0, <1>7 DEF WakeLooks, CancelReturns, PlacesOK, CancelPcs, ReaderPcs, ValuesOK
  <2>2. ValuesOK'   BY <1>0, <1>7 DEF WakeLooks, CancelReturns, ValuesOK
  <2>3. FlagsOK'    BY <1>0, <1>7, Zenon DEF WakeLooks, CancelReturns, FlagsOK
  <2>4. UrbInv'     BY <1>0, <1>7 DEF WakeLooks, CancelReturns, UrbInv, PlacesOK, Failing, Discarded, Discarding, ValuesOK
  <2>5. ErrnoInv'   BY <1>0, <1>7 DEF WakeLooks, CancelReturns, ErrnoInv, PlacesOK, ValuesOK
  <2>6. ResultInv'  BY <1>0, <1>7 DEF WakeLooks, CancelReturns, ResultInv, PlacesOK, PipeClosed, CancelPcs
  <2>7. CancelInv'  BY <1>0, <1>7 DEF WakeLooks, CancelReturns, CancelInv, UrbInv, PlacesOK, Failing, Discarded, Discarding, ValuesOK
  <2> QED  BY <2>1, <2>2, <2>3, <2>4, <2>5, <2>6, <2>7, Zenon DEF Inv, TypeOK
<1>8. CASE WakeWrites(t)
  <2>1. PlacesOK'   BY <1>0, <1>8 DEF WakeWrites, CancelReturns, WakeByte, PlacesOK, CancelPcs, ReaderPcs, ValuesOK
  <2>2. ValuesOK'   BY <1>0, <1>8 DEF WakeWrites, CancelReturns, WakeByte, ValuesOK
  <2>3. FlagsOK'    BY <1>0, <1>8, Zenon DEF WakeWrites, CancelReturns, WakeByte, FlagsOK
  <2>4. UrbInv'     BY <1>0, <1>8 DEF WakeWrites, CancelReturns, WakeByte, UrbInv, PlacesOK, Failing, Discarded, Discarding, ValuesOK
  <2>5. ErrnoInv'   BY <1>0, <1>8 DEF WakeWrites, CancelReturns, WakeByte, ErrnoInv, PlacesOK, ValuesOK
  <2>6. ResultInv'  BY <1>0, <1>8 DEF WakeWrites, CancelReturns, WakeByte, ResultInv, PlacesOK, PipeClosed, CancelPcs, ValuesOK
  <2>7. CancelInv'  BY <1>0, <1>8 DEF WakeWrites, CancelReturns, WakeByte, CancelInv, UrbInv, PlacesOK, Failing, Discarded, Discarding, ValuesOK
  <2> QED  BY <2>1, <2>2, <2>3, <2>4, <2>5, <2>6, <2>7, Zenon DEF Inv, TypeOK
<1> QED  BY <1>1, <1>2, <1>3, <1>4, <1>5, <1>6, <1>7, <1>8, Zenon DEF CancelStep

LEMMA NextInv == Inv /\ [Next]_vars => Inv'
<1> SUFFICES ASSUME Inv, [Next]_vars PROVE Inv'
  OBVIOUS
<1>1. CASE ReadStep
  BY <1>1, ReaderStepKeepsInv, CancelKeepsInv DEF ReadStep, Threads
<1>2. CASE \E t \in Cancellers : CancelStarts(t) \/ CancelStep(t)
  BY <1>2, CancelKeepsInv DEF Threads
<1> USE DEF Inv, TypeOK, ValuesOK, FlagsOK, PlacesOK, UrbInv, CancelInv, ErrnoInv,
            ResultInv, Failing, Discarded, PipeClosed, kernel, flags, own
<1>3. CASE UrbCompletes    BY <1>3 DEF UrbCompletes
<1>4. CASE Detach          BY <1>4 DEF Detach
<1>5. CASE UrbFlushed      BY <1>5 DEF UrbFlushed
<1>6. CASE DeadlinePasses  BY <1>6 DEF DeadlinePasses
<1>7. CASE StrayCompletes  BY <1>7 DEF StrayCompletes
<1>8. CASE Finished \/ UNCHANGED vars  BY <1>8 DEF Finished, vars
<1> QED  BY <1>1, <1>2, <1>3, <1>4, <1>5, <1>6, <1>7, <1>8, Zenon DEF Next

THEOREM InvHolds == Spec => []Inv
BY InitInv, NextInv, PTL DEF Spec

\* The types of UsbRead.
THEOREM TypeCorrect == Spec => []TypeOK
<1>1. Inv => TypeOK
  BY DEF Inv
<1> QED  BY <1>1, InvHolds, PTL

\* However many threads call cancel(), and at whichever statement of read() and
\* of each other, a URB that read() leaves with the device is one it had no pipe
\* to wait for or left to another's; and a cancel() discards it even then.
THEOREM CancelledUrbDiscarded == Spec => []NoCancelledUrbLeft
<1>1. Inv => NoCancelledUrbLeft
  <2> SUFFICES ASSUME Inv, pc[Reader] = "done", ~gone, urb = "pending"
               PROVE  /\ outcome \in {"nopipe", "stray"}
                      /\ cancelRequested => \E t \in Cancellers : pc[t] \in {"discard", "ioctl"}
    BY DEF NoCancelledUrbLeft
  <2>1. submitted /\ outcome \in {"nopipe", "stray"}
    BY DEF Inv, UrbInv
  <2> QED  BY <2>1 DEF Inv, CancelInv, Threads
<1> QED  BY <1>1, InvHolds, PTL

\* With a pipe, and no other's URB before it, only between the two assignments
\* of _discard_pending_urb is a completed URB missed: in every other state of
\* the cancelling threads, however many, _finish_cancelled_reap draws the right
\* conclusion from the two fields.
THEOREM ReapedUnlessLate == Spec => ReapedUnlessErrnoIsLate
<1> DEFINE Excused == \/ gone \/ \E t \in Cancellers : pc[t] = "errno"
                      \/ outcome' \in {"nopipe", "stray"}
<1>1. ASSUME Inv, [Next]_vars, LeavesCompleted
      PROVE  Excused
  <2>0. /\ PlacesOK /\ ValuesOK /\ UrbInv /\ ErrnoInv
        /\ Reader \in Threads /\ Cancellers = Threads \ {Reader}
    BY <1>1, ThreadsAssumption DEF Inv, TypeOK, Threads
  <2>1. CASE TryReap \/ ReapBlocking \/ ReapRace
    BY <1>1, <2>0, <2>1 DEF LeavesCompleted, TryReap, ReapBlocking, ReapRace, TakeUrb,
      ReapFails, Reapable, Goto, PlacesOK
  <2>2. CASE FinishReap
    <3>1. discardFailed /\ failureErrno # "EINVAL" /\ pc[Reader] = "finish"
      BY <1>1, <2>0, <2>2 DEF LeavesCompleted, FinishReap, Goto, PlacesOK
    <3> QED  BY <2>0, <3>1 DEF ErrnoInv, ValuesOK
  <2>3. CASE ReadStarts \/ SubmitUrb
    BY <1>1, <2>0, <2>3 DEF LeavesCompleted, ReadStarts, SubmitUrb, UrbInv, Goto, PlacesOK, kernel
  <2>4. CASE OpenWakeup
    BY <1>1, <2>0, <2>4 DEF LeavesCompleted, OpenWakeup, Goto, PlacesOK
  <2>5. CASE \/ MarkSubmitted \/ RecheckCancel \/ CheckCancel \/ PollReturns
             \/ CloseWakeup \/ ReadReturns
    BY <1>1, <2>0, <2>5, Zenon
    DEF LeavesCompleted, MarkSubmitted, RecheckCancel, CheckCancel, PollReturns,
        CloseWakeup, ReadReturns, Goto, PlacesOK
  <2>6. ASSUME NEW t \in Threads, CancelStarts(t) \/ CancelStep(t) PROVE FALSE
    BY <1>1, <2>0, <2>6, Zenon
    DEF LeavesCompleted, CancelStarts, CancelStep, CancelChecks, DiscardUrb, MarkDiscarded,
        MarkFailed, RecordErrno, WakeLooks, WakeWrites, CancelReturns, Goto, PlacesOK, ValuesOK
  <2>7. CASE \/ UrbCompletes \/ StrayCompletes \/ Detach \/ UrbFlushed \/ DeadlinePasses
             \/ Finished \/ UNCHANGED vars
    BY <1>1, <2>7 DEF LeavesCompleted, UrbCompletes, StrayCompletes, Detach, UrbFlushed,
      DeadlinePasses, Finished, vars
  <2> QED  BY <1>1, <2>0, <2>1, <2>2, <2>3, <2>4, <2>5, <2>6, <2>7 DEF Next, ReadStep
<1>2. Inv /\ [Next]_vars => [LeavesCompleted => Excused]_vars
  BY <1>1
<1> QED  BY <1>2, InvHolds, PTL DEF Spec, ReapedUnlessErrnoIsLate

\* Every step of the read is a step of the read the coordinator relies on, or
\* changes nothing it sees: it ends once, and with no data after a cancel.
THEOREM ReadIsCancellable ==
  Spec => Abstract!Init /\ [][Abstract!Next]_<<cancelRequested, ReadResult>>
<1>1. Init => Abstract!Init
  BY DEF Init, Abstract!Init, ReadResult
<1>2. ASSUME Inv, [Next]_vars
      PROVE  [Abstract!Next]_<<cancelRequested, ReadResult>>
  <2>0. /\ ResultInv /\ TypeOK /\ Reader \in Threads
    BY <1>2 DEF Inv, Threads
  <2>1. CASE \/ ReadStarts \/ SubmitUrb \/ OpenWakeup \/ TryReap \/ ReapBlocking
             \/ ReapRace \/ ReadReturns
    BY <2>0, <2>1, Zenon
    DEF ReadStarts, SubmitUrb, OpenWakeup, TryReap, ReapBlocking, ReapRace, ReadReturns, TakeUrb,
        ReapFails, Reapable, ReadResult, Result, ResultInv, TypeOK, FlagsOK, flags, kernel, Abstract!Next, Abstract!Return,
        Abstract!Results
  <2>2. CASE \/ MarkSubmitted \/ RecheckCancel \/ CheckCancel
             \/ PollReturns \/ FinishReap \/ CloseWakeup
    BY <2>2 DEF MarkSubmitted, RecheckCancel, CheckCancel, PollReturns,
                FinishReap, CloseWakeup, ReadResult, flags, own
  <2>3. ASSUME NEW t \in Threads, CancelStarts(t) \/ CancelStep(t)
        PROVE  [Abstract!Next]_<<cancelRequested, ReadResult>>
    BY <2>3, Zenon DEF CancelStarts, CancelStep, CancelChecks, DiscardUrb, MarkDiscarded,
      MarkFailed, RecordErrno, WakeLooks, WakeWrites, ReadResult, flags, own, Abstract!Next,
      Abstract!Cancel
  <2>4. CASE \/ UrbCompletes \/ StrayCompletes \/ Detach \/ UrbFlushed \/ DeadlinePasses
             \/ Finished \/ UNCHANGED vars
    BY <2>4 DEF UrbCompletes, StrayCompletes, Detach, UrbFlushed, DeadlinePasses,
                Finished, vars, ReadResult, flags, own
  <2> QED  BY <1>2, <2>0, <2>1, <2>2, <2>3, <2>4 DEF Next, ReadStep, Threads
<1>3. Inv /\ [Next]_vars => [Abstract!Next]_<<cancelRequested, ReadResult>>
  BY <1>2
<1> QED  BY <1>1, <1>3, InvHolds, PTL DEF Spec

-----------------------------------------------------------------------------
(* Frames of every length. *)

(* build_motu_frame refuses exactly the payloads that its two 16-bit length  *)
(* fields cannot express: no frame is refused that would fit, and u16 never  *)
(* raises (protocol.py:180-197).                                             *)
THEOREM FrameLimitIsExact ==
  \A n \in Nat : MotuFrameRaises(n) <=> ~FieldsFit(n)
BY DEF MotuFrameRaises, FieldsFit, FrameLen, BodyLen, MaxMotuPayloadBytes, MaxU16

(* A write the size check admits is one build_post_frame can build, and one  *)
(* it refuses could not be sent, for every path, body and client number      *)
(* (protocol.py:148-177, 221-240).                                           *)
THEOREM PostCheckIsExact ==
  \A p, b, c \in Nat :
    PostAdmitted(p, b, c) <=> FieldsFit(PostPayloadLen(p, b, c))
<1> SUFFICES ASSUME NEW p \in Nat, NEW b \in Nat, NEW c \in Nat
             PROVE  PostAdmitted(p, b, c) <=> FieldsFit(PostPayloadLen(p, b, c))
  OBVIOUS
<1>1. ClientFieldLen(c) \in Nat
  BY DEF ClientFieldLen, SizedWordLen
<1>2. PostPayloadLen(p, b, c) = b + 24 + PostRequestLen(p, c) + 12
  BY <1>1 DEF PostPayloadLen, PostRequestLen, SizedWordLen
<1>3. PostRequestLen(p, c) \in Nat
  BY <1>1 DEF PostRequestLen, SizedWordLen
<1> QED
  BY <1>2, <1>3 DEF PostAdmitted, MaxPostJsonBodyBytes, FieldsFit, FrameLen,
                    BodyLen, MaxMotuPayloadBytes, MaxU16

(* Every sequence number HostSequencer.take hands out is one the device      *)
(* accepts, and no two requests in a row have the same number                *)
(* (protocol.py:114-133).                                                    *)
THEOREM HostSeqsStayInRange ==
  \A seq \in HostSeqs : NextHostSeq(seq) \in HostSeqs /\ NextHostSeq(seq) # seq
BY DEF HostSeqs, NextHostSeq, HostSeqMin, HostSeqCount

-----------------------------------------------------------------------------
(* Envelopes of every length.  Both the loop over the headers and the cells  *)
(* it reads are recursive functions of the number of headers.  The recursion *)
(* is taken as the run it computes (Iterates), and what holds of every state *)
(* of a run is shown with the set of the numbers it holds for                *)
(* (InductiveSet): the n-th pass begins where the first n headers end, with  *)
(* the ETag of the last of them, and the passes beyond the last header find  *)
(* nothing to read before the end of the envelope.                           *)

\* Induction, with a set of numbers in the place of a formula.
LEMMA InductiveSet ==
  ASSUME NEW S, 0 \in S, \A n \in Nat : n \in S => n + 1 \in S
  PROVE  Nat \subseteq S
<1> DEFINE Bad == Nat \ S
<1> SUFFICES ASSUME Bad # {} PROVE FALSE
  OBVIOUS
<1>1. IsWellFoundedOn(OpToRel(<, Nat), Nat)
  BY NatLessThanWellFounded, Zenon
<1>2. PICK n \in Bad : \A m \in Bad : <<m, n>> \notin OpToRel(<, Nat)
  BY <1>1, WFMin, Zenon
<1>3. n # 0 /\ n - 1 \in Nat /\ n - 1 < n
  OBVIOUS
<1>4. n - 1 \notin Bad
  BY <1>2, <1>3, Zenon DEF OpToRel
<1> QED  BY <1>3, <1>4

\* f is what a recursive definition computes up to N, from s with the steps F.
IsRun(f, N, s, F) == f[0] = s /\ \A n \in 1..N : f[n] = F[n][f[n - 1]]

\* It does: the runs up to n extend to n + 1.
LEMMA Iterates ==
  ASSUME NEW N \in Nat, NEW S, NEW s \in S, NEW F \in [Nat -> [S -> S]]
  PROVE  \E f \in [0..N -> S] : IsRun(f, N, s, F)
<1> DEFINE Good(n) == \E f \in [0..n -> S] : f[0] = s /\ \A k \in 1..n : f[k] = F[k][f[k - 1]]
           All == {n \in Nat : Good(n)}
<1>1. Good(0)
  <2> DEFINE f == [k \in 0..0 |-> s]
  <2>1. f \in [0..0 -> S] /\ f[0] = s /\ \A k \in 1..0 : f[k] = F[k][f[k - 1]]
    OBVIOUS
  <2> QED  BY <2>1, Zenon
<1>2. ASSUME NEW n \in Nat, Good(n) PROVE Good(n + 1)
  <2>1. PICK f \in [0..n -> S] : f[0] = s /\ \A k \in 1..n : f[k] = F[k][f[k - 1]]
    BY <1>2
  <2> DEFINE g == [k \in 0..n + 1 |-> IF k = n + 1 THEN F[n + 1][f[n]] ELSE f[k]]
  <2>2. g \in [0..n + 1 -> S] /\ g[0] = s
    BY <2>1
  <2>3. ASSUME NEW k \in 1..n + 1 PROVE g[k] = F[k][g[k - 1]]
    <3>1. CASE k = n + 1
      BY <2>1, <3>1
    <3>2. CASE k # n + 1
      <4>1. k \in 1..n /\ k \in 0..n + 1 /\ k - 1 \in 0..n + 1 /\ k - 1 # n + 1
        BY <3>2
      <4> QED  BY <2>1, <3>2, <4>1
    <3> QED  BY <3>1, <3>2, Zenon
  <2> QED  BY <2>2, <2>3, Zenon
<1> HIDE DEF Good
<1>3. 0 \in All /\ \A n \in Nat : n \in All => n + 1 \in All
  BY <1>1, <1>2
<1>4. Nat \subseteq All
  <2> HIDE DEF All
  <2> QED  BY <1>3, InductiveSet
<1>5. Good(N)
  BY <1>4
<1> QED  BY <1>5 DEF Good, IsRun

-----------------------------------------------------------------------------
(* Reading an envelope.                                                              *)

Texts    == {v \in Seq(Nat) : Len(v) <= MaxSize}
Messages == [status : {0} \cup 100..599, headers : Seq(Texts \X Texts),
             extra : Nat, body : Seq(Nat)]

Decoded == {DecodeHeaderValue(v) : v \in Seq(Int)} \cup {NoValue}
States  == [offset : Nat, etag : Decoded, stop : BOOLEAN]

\* v is at offset, after its length.
IsAt(d, offset, v) ==
  d[offset + 1] = Len(v) /\ \A k \in 1..Len(v) : d[offset + 1 + k] = v[k]

\* A value that ends within the envelope is read whole (parser.py:310-321).
LEMMA ReadsValue ==
  ASSUME NEW d \in Seq(Nat), NEW offset \in Nat, NEW end \in Nat, end <= Len(d),
         NEW v \in Texts, offset + 1 + Len(v) <= end, IsAt(d, offset, v)
  PROVE  ReadSizedValue(d, offset, end) = [value |-> v, next |-> offset + 1 + Len(v)]
<1>1. Len(v) \in Nat /\ Len(d) \in Nat /\ Len(v) <= MaxSize /\ v \in Seq(Nat)
  BY DEF Texts
<1> DEFINE w == SubSeq(d, offset + 2, offset + 1 + Len(v))
<1>2. \A i \in offset + 2..offset + 1 + Len(v) : d[i] \in Nat
  <2>1. \A i \in offset + 2..offset + 1 + Len(v) : i \in 1..Len(d)
    BY <1>1
  <2> QED  BY <2>1
<1>3. /\ w \in Seq(Nat) /\ Len(w) = Len(v)
      /\ \A i \in 1..Len(v) : w[i] = d[offset + 1 + i]
  <2>1. /\ w \in Seq(Nat)
        /\ Len(w) = IF offset + 2 <= offset + 1 + Len(v)
                    THEN offset + 1 + Len(v) - (offset + 2) + 1 ELSE 0
        /\ \A i \in 1..offset + 1 + Len(v) - (offset + 2) + 1 : w[i] = d[offset + 2 + i - 1]
    BY <1>1, <1>2, SubSeqProperties
  <2>2. /\ offset + 1 + Len(v) - (offset + 2) + 1 = Len(v)
        /\ ~(offset + 2 <= offset + 1 + Len(v)) => Len(v) = 0
        /\ \A i \in 1..Len(v) : offset + 2 + i - 1 = offset + 1 + i
    BY <1>1
  <2> HIDE DEF w
  <2> QED  BY <2>1, <2>2
<1>4. w = v
  <2> HIDE DEF w
  <2>1. \A i \in 1..Len(v) : w[i] = v[i]
    BY <1>3, Zenon DEF IsAt
  <2> QED  BY <1>1, <1>3, <2>1, SeqEqual, Zenon
<1>5. /\ WordAt(d, offset) = Len(v) /\ ~(offset + 1 > end)
      /\ ~(Len(v) > MaxSize \/ offset + 1 + Len(v) > end)
  BY <1>1 DEF WordAt, IsAt, MaxSize
<1> HIDE DEF w
<1>6. ReadSizedValue(d, offset, end) = [value |-> w, next |-> offset + 1 + Len(v)]
  BY <1>5 DEF ReadSizedValue, w
<1> QED  BY <1>4, <1>6

\* Whatever the cells are, the offset stays a number and the value a sequence.
LEMMA ReadsSomething ==
  ASSUME NEW d \in Seq(Nat), NEW offset \in Nat, NEW end \in Nat, end <= Len(d)
  PROVE  ReadSizedValue(d, offset, end) \in [value : Seq(Int), next : Nat]
<1>1. NoValue \in Seq(Int)
  BY DEF NoValue
<1>2. CASE offset + 1 > end
  BY <1>1, <1>2 DEF ReadSizedValue
<1>3. CASE offset + 1 <= end
  <2> DEFINE size == WordAt(d, offset)
  <2>1. size \in Nat
    BY <1>3 DEF WordAt
  <2> HIDE DEF size
  <2>2. CASE size > MaxSize \/ offset + 1 + size > end
    BY <1>1, <1>3, <2>2 DEF ReadSizedValue, size
  <2>3. CASE ~(size > MaxSize \/ offset + 1 + size > end)
    <3>1. offset + 2 \in Int /\ offset + 1 + size \in Int /\ offset + 1 + size \in Nat
      BY <2>1
    <3>2. \A i \in offset + 2..offset + 1 + size : d[i] \in Int
      BY <2>1, <2>3 DEF MaxSize
    <3>3. SubSeq(d, offset + 2, offset + 1 + size) \in Seq(Int)
      BY <3>1, <3>2, SubSeqProperties
    <3> QED  BY <1>3, <2>3, <3>1, <3>3 DEF ReadSizedValue, size
  <2> QED  BY <2>2, <2>3
<1> QED  BY <1>2, <1>3

\* One pass of the loop takes a state of the loop to another.
LEMMA ReadHeaderType ==
  ASSUME NEW d \in Seq(Nat), NEW end \in Nat, end <= Len(d), NEW s \in States
  PROVE  ReadHeader(d, end, s) \in States
<1> DEFINE name == ReadSizedValue(d, s.offset, end)
           value == ReadSizedValue(d, name.next, end)
<1>1. s.offset \in Nat
  BY DEF States
<1>2. name \in [value : Seq(Int), next : Nat]
  BY <1>1, ReadsSomething, Zenon
<1>3. value \in [value : Seq(Int), next : Nat]
  <2>1. name.next \in Nat
    BY <1>2
  <2> HIDE DEF name
  <2> QED  BY <2>1, ReadsSomething, Zenon
<1>4. ReadHeader(d, end, s) =
        IF s.stop \/ name.value = NoValue \/ value.value = NoValue
        THEN [s EXCEPT !.stop = TRUE]
        ELSE [s EXCEPT !.offset = value.next,
                       !.etag = IF IsEtag(name.value)
                                THEN DecodeHeaderValue(value.value) ELSE @]
  BY DEF ReadHeader
<1>5. DecodeHeaderValue(value.value) \in Decoded
  <2> HIDE DEF value
  <2> QED  BY <1>3 DEF Decoded
<1> HIDE DEF name, value
<1> QED  BY <1>3, <1>4, <1>5, Zenon DEF States

-----------------------------------------------------------------------------
\* What is read where a value is, is never mistaken for no value.
LEMMA TextIsValue ==
  ASSUME NEW v \in Seq(Nat)
  PROVE  v # NoValue
<1> SUFFICES ASSUME v = <<-1>> PROVE FALSE
  BY DEF NoValue
<1>1. Len(v) = 1 /\ v[1] = -1
  OBVIOUS
<1>2. v[1] \in Nat
  BY <1>1, ElementOfSeq
<1> QED  BY <1>1, <1>2

\* What one pass of the loop does where a header is, and after the last.
\* A header is at offset o, within the envelope, and is passed from s to r.
HeaderAt(d, end, o, n, v) ==
  o + 1 + Len(n) + 1 + Len(v) <= end /\ IsAt(d, o, n) /\ IsAt(d, o + 1 + Len(n), v)
Passed(r, s, n, v) ==
  /\ r.offset = s.offset + 1 + Len(n) + 1 + Len(v)
  /\ r.etag = IF IsEtag(n) THEN DecodeHeaderValue(v) ELSE s.etag
  /\ r.stop = FALSE

\* The pair n, v is what is read at offset o.
PairRead(d, end, o, n, v) ==
  LET name  == ReadSizedValue(d, o, end)
      value == ReadSizedValue(d, name.next, end)
  IN /\ name.value = n /\ name.value # NoValue
     /\ value.value = v /\ value.value # NoValue
     /\ value.next = o + 1 + Len(n) + 1 + Len(v)

\* Both values of a header are read where it is.
LEMMA ReadsPair ==
  ASSUME NEW d \in Seq(Nat), NEW end \in Nat, end <= Len(d), NEW o \in Nat,
         NEW n \in Texts, NEW v \in Texts, HeaderAt(d, end, o, n, v)
  PROVE  PairRead(d, end, o, n, v)
<1>0. o + 1 + Len(n) + 1 + Len(v) <= end /\ IsAt(d, o, n) /\ IsAt(d, o + 1 + Len(n), v)
  BY DEF HeaderAt
<1>1. Len(n) \in Nat /\ Len(v) \in Nat /\ n \in Seq(Nat) /\ v \in Seq(Nat)
  BY DEF Texts
<1>2. ReadSizedValue(d, o, end) = [value |-> n, next |-> o + 1 + Len(n)]
  <2>1. o + 1 + Len(n) <= end
    BY <1>0, <1>1
  <2> QED  BY <1>0, <2>1, ReadsValue
<1>3. ReadSizedValue(d, o + 1 + Len(n), end) = [value |-> v, next |-> o + 1 + Len(n) + 1 + Len(v)]
  <2>1. o + 1 + Len(n) \in Nat
    BY <1>1
  <2> QED  BY <1>0, <2>1, ReadsValue
<1>4. n # NoValue /\ v # NoValue
  BY <1>1, TextIsValue
<1> QED  BY <1>2, <1>3, <1>4 DEF PairRead

\* A pass over a header moves behind it and keeps the ETag of the last.
LEMMA PassesHeader ==
  ASSUME NEW d \in Seq(Nat), NEW end \in Nat, end <= Len(d), NEW s \in States,
         s.stop = FALSE, NEW n \in Texts, NEW v \in Texts, HeaderAt(d, end, s.offset, n, v)
  PROVE  Passed(ReadHeader(d, end, s), s, n, v)
<1> DEFINE o == s.offset
<1>0. o \in Nat /\ HeaderAt(d, end, o, n, v)
  BY DEF States
<1> HIDE DEF o
<1> DEFINE name  == ReadSizedValue(d, o, end)
           value == ReadSizedValue(d, name.next, end)
           etag  == IF IsEtag(name.value)
                    THEN DecodeHeaderValue(value.value) ELSE s.etag
<1>1. /\ name.value = n /\ name.value # NoValue
      /\ value.value = v /\ value.value # NoValue
      /\ value.next = o + 1 + Len(n) + 1 + Len(v)
  <2>1. PairRead(d, end, o, n, v)
    BY <1>0, ReadsPair
  <2> QED  BY <2>1 DEF PairRead
<1>2. ReadHeader(d, end, s) = [s EXCEPT !.offset = value.next, !.etag = etag]
  BY <1>1 DEF ReadHeader, o
<1>3. [s EXCEPT !.offset = value.next, !.etag = etag].offset = value.next
  BY DEF States
<1>4. [s EXCEPT !.offset = value.next, !.etag = etag].etag = etag
  BY DEF States
<1>5. [s EXCEPT !.offset = value.next, !.etag = etag].stop = FALSE
  BY DEF States
<1> HIDE DEF name, value
<1> QED  BY <1>1, <1>2, <1>3, <1>4, <1>5 DEF Passed, o

\* Behind the last header a pass reads nothing: it does not enter the body.
LEMMA ReadsNoHeader ==
  ASSUME NEW d, NEW end \in Nat, NEW s \in States, s.offset >= end \/ s.stop = TRUE
  PROVE  LET r == ReadHeader(d, end, s) IN
         r.offset = s.offset /\ r.etag = s.etag /\ r.stop = TRUE
<1>1. s.offset \in Nat
  BY DEF States
<1>2. ReadHeader(d, end, s) = [s EXCEPT !.stop = TRUE]
  <2>1. CASE s.stop = TRUE
    BY <2>1 DEF ReadHeader
  <2>2. CASE s.offset >= end
    <3>1. ReadSizedValue(d, s.offset, end).value = NoValue
      BY <1>1, <2>2 DEF ReadSizedValue
    <3> QED  BY <3>1 DEF ReadHeader
  <2> QED  BY <2>1, <2>2, Zenon
<1> QED  BY <1>2 DEF States

\* f has the states of the loop.
IsLoop(f, d, end, count) ==
  /\ f[0] = [offset |-> 7, etag |-> NoValue, stop |-> FALSE]
  /\ \A n \in 1..count : f[n] = ReadHeader(d, end, f[n - 1])

\* The recursive function of Headers has the states of the loop as its values.
LEMMA LoopRuns ==
  ASSUME NEW d \in Seq(Nat), Len(d) >= 7, NEW end \in Nat, end <= Len(d)
  PROVE  \E f \in [0..d[7] -> States] :
           IsLoop(f, d, end, d[7]) /\ Headers(d, end) = f[d[7]]
<1> DEFINE start == [offset |-> 7, etag |-> NoValue, stop |-> FALSE]
           F == [n \in Nat |-> [s \in States |-> ReadHeader(d, end, s)]]
           Loop(g) == g = [n \in 0..WordAt(d, 6) |->
                             IF n = 0 THEN start ELSE ReadHeader(d, end, g[n - 1])]
           h == CHOOSE g : Loop(g)
<1>1. d[7] \in Nat /\ WordAt(d, 6) = d[7]
  BY DEF WordAt
<1>2. start \in States /\ F \in [Nat -> [States -> States]]
  <2>1. start \in States
    BY DEF States, Decoded
  <2>2. \A s \in States : ReadHeader(d, end, s) \in States
    BY ReadHeaderType
  <2> QED  BY <2>1, <2>2
<1>3. PICK f \in [0..d[7] -> States] : f[0] = start /\ \A n \in 1..d[7] : f[n] = F[n][f[n - 1]]
  <2> HIDE DEF F, start
  <2>1. \E f \in [0..d[7] -> States] : IsRun(f, d[7], start, F)
    BY <1>1, <1>2, Iterates, Zenon
  <2> QED  BY <2>1, Zenon DEF IsRun
<1>4. \A n \in 1..d[7] : f[n] = ReadHeader(d, end, f[n - 1])
  <2> SUFFICES ASSUME NEW n \in 1..d[7] PROVE f[n] = ReadHeader(d, end, f[n - 1])
    OBVIOUS
  <2>1. n \in Nat /\ n - 1 \in 0..d[7]
    BY <1>1
  <2>2. f[n - 1] \in States
    BY <2>1
  <2> QED  BY <1>3, <2>1, <2>2, Zenon
<1>5. Headers(d, end) = h[WordAt(d, 6)]
  BY DEF Headers
<1>6. Loop(f)
  <2> DEFINE g == [n \in 0..WordAt(d, 6) |-> IF n = 0 THEN start ELSE ReadHeader(d, end, f[n - 1])]
  <2>1. ASSUME NEW n \in 0..d[7] PROVE f[n] = g[n]
    <3>1. n = 0 \/ n \in 1..d[7]
      BY <1>1
    <3> HIDE DEF start
    <3> QED  BY <1>1, <1>3, <1>4, <3>1
  <2> HIDE DEF start
  <2>2. g = [n \in 0..d[7] |-> g[n]]
    BY <1>1
  <2>3. f = [n \in 0..d[7] |-> f[n]]
    OBVIOUS
  <2>4. f = g
    <3> HIDE DEF g
    <3> QED  BY <2>1, <2>2, <2>3, Zenon
  <2> QED  BY <2>4, Zenon
<1>7. Loop(h)
  <2> HIDE DEF Loop
  <2> QED  BY <1>6
<1>8. ASSUME NEW n \in 0..d[7] PROVE h[n] = IF n = 0 THEN start ELSE ReadHeader(d, end, h[n - 1])
  <2> HIDE DEF h, start
  <2> QED  BY <1>1, <1>7
<1> HIDE DEF h, start, F, Loop
<1>9. \A n \in 0..d[7] : h[n] = f[n]
  <2> DEFINE Same == {n \in Nat : n <= d[7] => h[n] = f[n]}
  <2>1. 0 \in Same
    BY <1>1, <1>3, <1>8
  <2>2. ASSUME NEW n \in Nat, n \in Same PROVE n + 1 \in Same
    <3> SUFFICES ASSUME n + 1 <= d[7] PROVE h[n + 1] = f[n + 1]
      OBVIOUS
    <3>1. n + 1 \in 1..d[7] /\ n + 1 \in 0..d[7] /\ n + 1 # 0 /\ (n + 1) - 1 = n /\ n <= d[7]
      BY <1>1
    <3>2. h[n] = f[n]
      BY <2>2, <3>1
    <3> QED  BY <1>4, <1>8, <3>1, <3>2
  <2>3. Nat \subseteq Same
    <3> HIDE DEF Same
    <3> QED  BY <2>1, <2>2, InductiveSet, Zenon
  <2> QED  BY <1>1, <2>3
<1>10. IsLoop(f, d, end, d[7])
  BY <1>3, <1>4 DEF IsLoop, start
<1> QED  BY <1>1, <1>5, <1>9, <1>10

-----------------------------------------------------------------------------
(* Writing.                                                                 *)

\* What Sized writes is a sequence of cells with the value in its place.
LEMMA SizedCells ==
  ASSUME NEW v \in Seq(Nat)
  PROVE  /\ Sized(v) \in Seq(Nat) /\ Len(Sized(v)) = 1 + Len(v)
         /\ Sized(v)[1] = Len(v) /\ \A k \in 1..Len(v) : Sized(v)[1 + k] = v[k]
<1> DEFINE c == <<Len(v)>>
<1>1. c \in Seq(Nat) /\ Len(c) = 1 /\ c[1] = Len(v) /\ Len(v) \in Nat
  OBVIOUS
<1> HIDE DEF c
<1>2. /\ c \o v \in Seq(Nat) /\ Len(c \o v) = Len(c) + Len(v)
      /\ \A i \in 1..Len(c) + Len(v) : (c \o v)[i] = IF i <= Len(c) THEN c[i] ELSE v[i - Len(c)]
  BY <1>1, ConcatProperties, Zenon
<1>3. Sized(v) = c \o v
  BY DEF Sized, c
<1>4. (c \o v)[1] = Len(v)
  BY <1>1, <1>2
<1>5. \A k \in 1..Len(v) : (c \o v)[1 + k] = v[k]
  BY <1>1, <1>2
<1> QED  BY <1>1, <1>2, <1>3, <1>4, <1>5

\* A value appended to cells follows them, and they stay where they are.
LEMMA AppendsValue ==
  ASSUME NEW c \in Seq(Nat), NEW v \in Seq(Nat)
  PROVE  LET e == c \o Sized(v) IN
         /\ e \in Seq(Nat) /\ Len(e) = Len(c) + 1 + Len(v)
         /\ \A p \in 1..Len(c) : e[p] = c[p]
         /\ IsAt(e, Len(c), v)
<1> DEFINE w == Sized(v)
<1>0. w \in Seq(Nat)
  BY SizedCells
<1>1. /\ Len(w) = 1 + Len(v) /\ Len(v) \in Nat /\ Len(c) \in Nat
      /\ w[1] = Len(v) /\ \A k \in 1..Len(v) : w[1 + k] = v[k]
  <2>1. Len(v) \in Nat /\ Len(c) \in Nat
    OBVIOUS
  <2> QED  BY <2>1, SizedCells
<1> HIDE DEF w
<1>2. /\ c \o w \in Seq(Nat) /\ Len(c \o w) = Len(c) + Len(w)
      /\ \A i \in 1..Len(c) + Len(w) : (c \o w)[i] = IF i <= Len(c) THEN c[i] ELSE w[i - Len(c)]
  BY <1>0, ConcatProperties
<1>3. \A p \in 1..Len(c) : (c \o w)[p] = c[p]
  BY <1>1, <1>2
<1>4. (c \o w)[Len(c) + 1] = Len(v)
  BY <1>1, <1>2
<1>5. ASSUME NEW k \in 1..Len(v) PROVE (c \o w)[Len(c) + 1 + k] = v[k]
  <2>1. /\ Len(c) + 1 + k \in 1..Len(c) + Len(w) /\ ~(Len(c) + 1 + k <= Len(c))
        /\ Len(c) + 1 + k - Len(c) = 1 + k
    BY <1>1
  <2> QED  BY <1>1, <1>2, <2>1
<1>6. Len(c) + Len(w) = Len(c) + 1 + Len(v)
  BY <1>1
<1>7. IsAt(c \o w, Len(c), v)
  BY <1>4, <1>5, Zenon DEF IsAt
<1> QED  BY <1>2, <1>3, <1>6, <1>7 DEF w

\* A value stays where it is when the cells around it do.
LEMMA StaysAt ==
  ASSUME NEW c \in Seq(Nat), NEW o \in Nat, NEW v \in Seq(Nat), o + 1 + Len(v) <= Len(c),
         IsAt(c, o, v), NEW d, NEW z \in Nat, \A p \in 1..Len(c) : d[z + p] = c[p]
  PROVE  IsAt(d, z + o, v)
<1>1. Len(v) \in Nat /\ Len(c) \in Nat
  OBVIOUS
<1>2. o + 1 \in 1..Len(c) /\ z + (o + 1) = z + o + 1
  BY <1>1
<1>3. d[z + o + 1] = Len(v)
  BY <1>2 DEF IsAt
<1>4. ASSUME NEW k \in 1..Len(v) PROVE d[z + o + 1 + k] = v[k]
  <2>1. k \in Nat /\ k <= Len(v) /\ 1 <= k
    BY <1>1
  <2>2. o + 1 + k \in 1..Len(c) /\ z + (o + 1 + k) = z + o + 1 + k
    BY <1>1, <2>1
  <2> QED  BY <2>2 DEF IsAt
<1> QED  BY <1>3, <1>4 DEF IsAt

\* u has the cells up to each of the headers hs.
IsCells(u, hs) ==
  /\ u[0] = <<>>
  /\ \A n \in 1..Len(hs) : u[n] = u[n - 1] \o Sized(hs[n][1]) \o Sized(hs[n][2])

\* The recursive function of HeaderCells has them as its values.
LEMMA CellsRun ==
  ASSUME NEW hs \in Seq(Texts \X Texts)
  PROVE  \E u \in [0..Len(hs) -> Seq(Nat)] :
           IsCells(u, hs) /\ HeaderCells(hs) = u[Len(hs)]
<1> DEFINE N == Len(hs)
           pair(c, n) == c \o Sized(hs[n][1]) \o Sized(hs[n][2])
           F == [n \in Nat |-> [c \in Seq(Nat) |-> IF n \in 1..N THEN pair(c, n) ELSE c]]
           Loop(g) == g = [n \in 0..N |-> IF n = 0 THEN <<>> ELSE pair(g[n - 1], n)]
           h == CHOOSE g : Loop(g)
<1>1. N \in Nat
  OBVIOUS
<1>2. ASSUME NEW n \in 1..N, NEW c \in Seq(Nat) PROVE pair(c, n) \in Seq(Nat)
  <2>1. hs[n][1] \in Seq(Nat) /\ hs[n][2] \in Seq(Nat)
    BY DEF Texts
  <2>2. c \o Sized(hs[n][1]) \in Seq(Nat)
    BY <2>1, AppendsValue
  <2> QED  BY <2>1, <2>2, AppendsValue
<1> HIDE DEF pair, N
<1>3. F \in [Nat -> [Seq(Nat) -> Seq(Nat)]] /\ <<>> \in Seq(Nat)
  BY <1>2
<1>4. PICK f \in [0..N -> Seq(Nat)] : f[0] = <<>> /\ \A n \in 1..N : f[n] = pair(f[n - 1], n)
  <2> HIDE DEF F
  <2>1. PICK f \in [0..N -> Seq(Nat)] : IsRun(f, N, <<>>, F)
    BY <1>1, <1>3, Iterates, Zenon
  <2>2. ASSUME NEW n \in 1..N PROVE f[n] = pair(f[n - 1], n)
    <3>1. n \in Nat /\ n - 1 \in 0..N
      BY <1>1
    <3>2. f[n - 1] \in Seq(Nat)
      BY <2>1, <3>1
    <3> QED  BY <2>1, <3>1, <3>2, Zenon DEF IsRun, F
  <2> QED  BY <2>1, <2>2, Zenon DEF IsRun
<1>5. Loop(f)
  <2> DEFINE g == [n \in 0..N |-> IF n = 0 THEN <<>> ELSE pair(f[n - 1], n)]
  <2>1. ASSUME NEW n \in 0..N PROVE f[n] = g[n]
    <3>1. n = 0 \/ n \in 1..N
      BY <1>1
    <3> QED  BY <1>4, <3>1
  <2>2. g = [n \in 0..N |-> g[n]] /\ f = [n \in 0..N |-> f[n]]
    BY <1>4
  <2>3. f = g
    <3> HIDE DEF g
    <3> QED  BY <2>1, <2>2
  <2> QED  BY <2>3, Zenon
<1>6. Loop(h)
  <2> HIDE DEF Loop
  <2> QED  BY <1>5
<1>7. HeaderCells(hs) = h[N]
  BY DEF HeaderCells, N, pair
<1>8. /\ h = [n \in 0..N |-> h[n]] /\ h[0] = <<>>
      /\ \A n \in 1..N : h[n] = pair(h[n - 1], n)
  <2> HIDE DEF h
  <2>1. h = [n \in 0..N |-> h[n]]
    BY <1>6
  <2>2. 0 \in 0..N /\ \A n \in 1..N : n \in 0..N /\ n # 0
    BY <1>1
  <2>3. \A n \in 0..N : h[n] = IF n = 0 THEN <<>> ELSE pair(h[n - 1], n)
    BY <1>6, Zenon
  <2>4. h[0] = <<>>
    BY <2>2, <2>3
  <2>5. \A n \in 1..N : h[n] = pair(h[n - 1], n)
    BY <2>2, <2>3
  <2> QED  BY <2>1, <2>4, <2>5, Zenon
<1> HIDE DEF h, F, Loop
<1>9. \A n \in 0..N : h[n] \in Seq(Nat)
  <2> DEFINE All == {n \in Nat : n <= N => h[n] \in Seq(Nat)}
  <2>1. 0 \in All
    BY <1>3, <1>8, Zenon
  <2>2. ASSUME NEW n \in Nat, n \in All PROVE n + 1 \in All
    <3> SUFFICES ASSUME n + 1 <= N PROVE h[n + 1] \in Seq(Nat)
      OBVIOUS
    <3>1. n + 1 \in 1..N /\ (n + 1) - 1 = n /\ n <= N
      BY <1>1
    <3>2. h[n] \in Seq(Nat)
      BY <2>2, <3>1
    <3> QED  BY <1>2, <1>8, <3>1, <3>2, Zenon
  <2>3. Nat \subseteq All
    <3> HIDE DEF All
    <3> QED  BY <2>1, <2>2, InductiveSet
  <2> QED  BY <1>1, <2>3
<1>10. h \in [0..N -> Seq(Nat)]
  BY <1>8, <1>9
<1>11. IsCells(h, hs)
  BY <1>8, Zenon DEF IsCells, N, pair
<1> QED  BY <1>7, <1>10, <1>11 DEF N

\* Names and values of headers are texts.
LEMMA HeaderTypes ==
  ASSUME NEW hs \in Seq(Texts \X Texts), NEW n \in 1..Len(hs)
  PROVE  /\ hs[n][1] \in Texts /\ Len(hs[n][1]) \in Nat
         /\ hs[n][2] \in Texts /\ Len(hs[n][2]) \in Nat
<1>1. hs[n] \in Texts \X Texts
  BY ElementOfSeq
<1>2. \A v \in Texts : Len(v) \in Nat
  BY DEF Texts
<1> QED  BY <1>1, <1>2

\* Every header is where the ones before it end.
LEMMA HeadersAt ==
  ASSUME NEW hs \in Seq(Texts \X Texts), NEW u \in [0..Len(hs) -> Seq(Nat)], IsCells(u, hs)
  PROVE  \A n \in 1..Len(hs) :
           /\ Len(u[n]) = Len(u[n - 1]) + 1 + Len(hs[n][1]) + 1 + Len(hs[n][2])
           /\ \A p \in 1..Len(u[n - 1]) : u[n][p] = u[n - 1][p]
           /\ IsAt(u[n], Len(u[n - 1]), hs[n][1])
           /\ IsAt(u[n], Len(u[n - 1]) + 1 + Len(hs[n][1]), hs[n][2])
<1> SUFFICES ASSUME NEW n \in 1..Len(hs)
             PROVE  /\ Len(u[n]) = Len(u[n - 1]) + 1 + Len(hs[n][1]) + 1 + Len(hs[n][2])
                    /\ \A p \in 1..Len(u[n - 1]) : u[n][p] = u[n - 1][p]
                    /\ IsAt(u[n], Len(u[n - 1]), hs[n][1])
                    /\ IsAt(u[n], Len(u[n - 1]) + 1 + Len(hs[n][1]), hs[n][2])
  BY Zenon
<1> DEFINE c == u[n - 1]
           m == c \o Sized(hs[n][1])
           e == m \o Sized(hs[n][2])
           x == hs[n][1]
           y == hs[n][2]
<1>1. c \in Seq(Nat) /\ x \in Seq(Nat) /\ y \in Seq(Nat)
  <2>1. n - 1 \in 0..Len(hs)
    OBVIOUS
  <2>2. c \in Seq(Nat)
    BY <2>1, Zenon
  <2> QED  BY <2>2, HeaderTypes, Zenon DEF Texts
<1>2. /\ m \in Seq(Nat) /\ Len(m) = Len(c) + 1 + Len(x)
      /\ \A p \in 1..Len(c) : m[p] = c[p]
      /\ IsAt(m, Len(c), x)
  BY <1>1, AppendsValue, Zenon
<1>3. /\ e \in Seq(Nat) /\ Len(e) = Len(m) + 1 + Len(y)
      /\ \A p \in 1..Len(m) : e[p] = m[p]
      /\ IsAt(e, Len(m), y)
  <2> HIDE DEF m
  <2> QED  BY <1>1, <1>2, AppendsValue, Zenon
<1>4. u[n] = e
  BY Zenon DEF IsCells
<1> HIDE DEF c, m, e, x, y
<1>5. Len(c) \in Nat /\ Len(x) \in Nat /\ Len(y) \in Nat /\ Len(m) \in Nat
  BY <1>1, <1>2
<1>6. IsAt(e, Len(c), x)
  <2>1. Len(c) + 1 + Len(x) <= Len(m)
    BY <1>2, <1>5
  <2>2. \A p \in 1..Len(m) : e[0 + p] = m[p]
    BY <1>3, <1>5
  <2>3. IsAt(e, 0 + Len(c), x)
    BY <1>1, <1>2, <1>5, <2>1, <2>2, StaysAt, ZenonT(30)
  <2> QED  BY <1>5, <2>3
<1>7. \A p \in 1..Len(c) : e[p] = c[p]
  <2>1. \A p \in 1..Len(c) : p \in 1..Len(m)
    BY <1>2, <1>5
  <2> QED  BY <1>2, <1>3, <2>1
<1>8. Len(e) = Len(c) + 1 + Len(x) + 1 + Len(y)
  BY <1>2, <1>3, <1>5
<1> QED  BY <1>2, <1>3, <1>4, <1>6, <1>7, <1>8, Zenon DEF c, x, y

\* The cells of the first headers are the first cells of all.
LEMMA CellsGrow ==
  ASSUME NEW N \in Nat, NEW u \in [0..N -> Seq(Nat)],
         \A n \in 1..N : /\ Len(u[n - 1]) <= Len(u[n])
                         /\ \A p \in 1..Len(u[n - 1]) : u[n][p] = u[n - 1][p]
  PROVE  \A n \in 0..N : /\ Len(u[n]) <= Len(u[N])
                         /\ \A p \in 1..Len(u[n]) : u[N][p] = u[n][p]
<1> DEFINE Kept(n) == /\ Len(u[n]) <= Len(u[N])
                      /\ \A p \in 1..Len(u[n]) : u[N][p] = u[n][p]
           All == {k \in Nat : k <= N => Kept(N - k)}
<1>1. \A n \in 0..N : Len(u[n]) \in Nat
  OBVIOUS
<1>2. 0 \in All
  <2>1. N \in 0..N /\ N - 0 = N
    OBVIOUS
  <2>2. Kept(N)
    BY <1>1, <2>1
  <2> HIDE DEF Kept
  <2> QED  BY <2>1, <2>2
<1>3. ASSUME NEW k \in Nat, k \in All PROVE k + 1 \in All
  <2> SUFFICES ASSUME k + 1 <= N PROVE Kept(N - (k + 1))
    OBVIOUS
  <2> DEFINE n == N - k
  <2>1. n \in 1..N /\ n - 1 = N - (k + 1) /\ k <= N /\ n \in 0..N /\ n - 1 \in 0..N /\ N \in 0..N
    OBVIOUS
  <2>2. Kept(n)
    BY <1>3, <2>1
  <2> HIDE DEF n
  <2>3. Len(u[n - 1]) <= Len(u[n]) /\ \A p \in 1..Len(u[n - 1]) : u[n][p] = u[n - 1][p]
    BY <2>1
  <2>4. Len(u[n]) \in Nat /\ Len(u[n - 1]) \in Nat /\ Len(u[N]) \in Nat
    BY <1>1, <2>1
  <2>5. Kept(n - 1)
    <3>1. Len(u[n - 1]) <= Len(u[N]) /\ \A p \in 1..Len(u[n - 1]) : p \in 1..Len(u[n])
      BY <2>2, <2>3, <2>4
    <3> QED  BY <2>2, <2>3, <3>1, Zenon
  <2> HIDE DEF Kept
  <2> QED  BY <2>1, <2>5, Zenon
<1>4. Nat \subseteq All
  <2> HIDE DEF All
  <2> QED  BY <1>2, <1>3, InductiveSet, Zenon
<1>5. ASSUME NEW n \in 0..N PROVE Kept(n)
  <2>1. N - n \in Nat /\ N - n <= N /\ N - (N - n) = n
    OBVIOUS
  <2>2. N - n \in All
    BY <1>4, <2>1, Zenon
  <2> HIDE DEF Kept
  <2> QED  BY <2>1, <2>2
<1> QED  BY <1>5

-----------------------------------------------------------------------------
(* Reading what was written.                                                *)

\* e is the ETag of the last of the first m headers that has that name.
LastEtag(hs, m, e) ==
  LET etags == {i \in 1..m : IsEtag(hs[i][1])} IN
  /\ etags = {} => e = NoValue
  /\ \A i \in etags : (\A j \in etags : j <= i) => e = DecodeHeaderValue(hs[i][2])

\* Before the first header there is none.
LEMMA NoEtag ==
  ASSUME NEW hs
  PROVE  LastEtag(hs, 0, NoValue)
<1>1. 1..0 = {}
  OBVIOUS
<1> QED  BY <1>1 DEF LastEtag

\* One more header keeps or replaces the last ETag.
LEMMA NextEtag ==
  ASSUME NEW hs, NEW m \in Nat, NEW e, LastEtag(hs, m, e)
  PROVE  LastEtag(hs, m + 1, IF IsEtag(hs[m + 1][1])
                             THEN DecodeHeaderValue(hs[m + 1][2]) ELSE e)
<1> DEFINE old == {i \in 1..m : IsEtag(hs[i][1])}
           new == {i \in 1..m + 1 : IsEtag(hs[i][1])}
           r == IF IsEtag(hs[m + 1][1]) THEN DecodeHeaderValue(hs[m + 1][2]) ELSE e
<1>1. /\ old = {} => e = NoValue
      /\ \A i \in old : (\A j \in old : j <= i) => e = DecodeHeaderValue(hs[i][2])
  BY DEF LastEtag
<1>2. /\ new = {} => r = NoValue
      /\ \A i \in new : (\A j \in new : j <= i) => r = DecodeHeaderValue(hs[i][2])
  <2>1. CASE IsEtag(hs[m + 1][1])
    <3>1. m + 1 \in new
      <4>1. m + 1 \in 1..m + 1
        OBVIOUS
      <4> QED  BY <2>1, <4>1, Zenon
    <3>2. \A i \in 1..m + 1 : m + 1 <= i => i = m + 1
      OBVIOUS
    <3>3. \A i \in new : m + 1 <= i => i = m + 1
      BY <3>2
    <3> HIDE DEF new
    <3> QED  BY <2>1, <3>1, <3>3, Zenon
  <2>2. CASE ~IsEtag(hs[m + 1][1])
    <3>1. new = old
      BY <2>2
    <3> HIDE DEF new, old
    <3> QED  BY <1>1, <2>2, <3>1
  <2> QED  BY <2>1, <2>2, Zenon
<1> QED  BY <1>2, Zenon DEF LastEtag

\* Where d has the headers hs, u being their cells up to each of them.
Layout(hs, u, d) ==
  /\ u[0] = <<>>
  /\ \A n \in 1..Len(hs) :
       /\ Len(u[n]) = Len(u[n - 1]) + 1 + Len(hs[n][1]) + 1 + Len(hs[n][2])
       /\ Len(u[n]) <= Len(u[Len(hs)])
       /\ IsAt(d, 7 + Len(u[n - 1]), hs[n][1])
       /\ IsAt(d, 7 + Len(u[n - 1]) + 1 + Len(hs[n][1]), hs[n][2])

\* The loop over count headers, of which d has the first Len(hs).
LEMMA LoopReads ==
  ASSUME NEW hs \in Seq(Texts \X Texts), NEW u \in [0..Len(hs) -> Seq(Nat)],
         NEW d \in Seq(Nat), NEW end \in Nat, end <= Len(d), end = 7 + Len(u[Len(hs)]),
         Layout(hs, u, d),
         NEW count \in Nat, count >= Len(hs), NEW f \in [0..count -> States],
         IsLoop(f, d, end, count)
  PROVE  LastEtag(hs, Len(hs), f[count].etag)
<1> DEFINE N == Len(hs)
           Early(n) == /\ f[n].offset = 7 + Len(u[n]) /\ f[n].stop = FALSE
                       /\ LastEtag(hs, n, f[n].etag)
           Late(n)  == f[n].offset = end /\ LastEtag(hs, N, f[n].etag)
           All == {n \in Nat : /\ n <= N => Early(n)
                               /\ n >= N /\ n <= count => Late(n)}
<1>0. N \in Nat /\ \A n \in 0..N : Len(u[n]) \in Nat
  <2>1. ASSUME NEW n \in 0..N PROVE Len(u[n]) \in Nat
    <3>1. u[n] \in Seq(Nat)
      BY <2>1, Zenon
    <3> QED  BY <3>1, LenProperties
  <2> QED  BY <2>1
<1>1. ASSUME Early(N) PROVE Late(N)
  BY <1>1
<1>2. Early(0)
  <2>1. u[0] = <<>> /\ f[0] = [offset |-> 7, etag |-> NoValue, stop |-> FALSE]
    BY Zenon DEF Layout, IsLoop
  <2>2. LastEtag(hs, 0, NoValue)
    BY NoEtag, Zenon
  <2> QED  BY <2>1, <2>2
<1>3. ASSUME NEW n \in Nat, n + 1 <= N, Early(n) PROVE Early(n + 1)
  <2> DEFINE k == n + 1
             x == hs[k][1]
             y == hs[k][2]
             o == 7 + Len(u[n])
  <2>1. k \in 1..N /\ k - 1 = n /\ k \in 1..count /\ n \in 0..count /\ n \in 0..N
    BY <1>0, <1>3
  <2>2. x \in Texts /\ y \in Texts /\ Len(x) \in Nat /\ Len(y) \in Nat
    BY <2>1, HeaderTypes, Zenon
  <2>3. /\ Len(u[k]) = Len(u[n]) + 1 + Len(x) + 1 + Len(y) /\ Len(u[k]) <= Len(u[N])
        /\ IsAt(d, o, x) /\ IsAt(d, o + 1 + Len(x), y)
    BY <2>1, Zenon DEF Layout
  <2>9. f[k] = ReadHeader(d, end, f[n]) /\ f[n] \in States
    BY <2>1 DEF IsLoop
  <2>4. o \in Nat /\ Len(u[n]) \in Nat /\ Len(u[N]) \in Nat
    BY <1>0, <2>1
  <2>5. f[n].offset = o /\ f[n].stop = FALSE /\ LastEtag(hs, n, f[n].etag)
    BY <1>3
  <2> HIDE DEF x, y, o, k
  <2>6. o + 1 + Len(x) + 1 + Len(y) <= end /\ o + 1 + Len(x) + 1 + Len(y) = 7 + Len(u[k])
    <3> DEFINE a == Len(u[n])
               z == Len(u[N])
               w == Len(u[k])
    <3>1. a \in Nat /\ z \in Nat /\ w = a + 1 + Len(x) + 1 + Len(y) /\ w <= z /\ end = 7 + z
      BY <2>3, <2>4
    <3> HIDE DEF a, z, w
    <3>2. 7 + a + 1 + Len(x) + 1 + Len(y) <= end /\ 7 + a + 1 + Len(x) + 1 + Len(y) = 7 + w
      BY <2>2, <3>1
    <3> QED  BY <3>2 DEF a, w, o
  <2>7. /\ f[k].offset = o + 1 + Len(x) + 1 + Len(y)
        /\ f[k].etag = IF IsEtag(x) THEN DecodeHeaderValue(y) ELSE f[n].etag
        /\ f[k].stop = FALSE
    <3> DEFINE s == f[n]
               r == ReadHeader(d, end, s)
    <3>1. s \in States /\ s.offset = o /\ s.stop = FALSE
      BY <2>5, <2>9
    <3>2. x \in Texts /\ y \in Texts
      BY <2>2
    <3>3. HeaderAt(d, end, s.offset, x, y)
      BY <2>3, <2>6, <3>1 DEF HeaderAt
    <3> HIDE DEF s
    <3>4. Passed(r, s, x, y)
      BY <3>1, <3>2, <3>3, PassesHeader, Zenon
    <3>5. f[k] = r
      BY <2>9 DEF s
    <3> HIDE DEF r
    <3> QED  BY <3>1, <3>4, <3>5 DEF s, Passed
  <2>8. LastEtag(hs, k, f[k].etag)
    BY <2>5, <2>7, NextEtag, Zenon DEF x, y, k
  <2> QED  BY <2>6, <2>7, <2>8 DEF k
<1>4. ASSUME NEW n \in Nat, n + 1 <= count, Late(n) PROVE Late(n + 1)
  <2>1. n + 1 \in 1..count /\ (n + 1) - 1 = n /\ n \in 0..count
    BY <1>4
  <2>2. f[n + 1] = ReadHeader(d, end, f[n]) /\ f[n] \in States
    BY <2>1 DEF IsLoop
  <2>3. f[n].offset = end /\ LastEtag(hs, N, f[n].etag)
    BY <1>4
  <2>4. f[n + 1].offset = f[n].offset /\ f[n + 1].etag = f[n].etag
    <3> DEFINE s == f[n]
               r == ReadHeader(d, end, s)
    <3>1. s \in States /\ s.offset >= end
      BY <2>2, <2>3
    <3> HIDE DEF s
    <3>2. r.offset = s.offset /\ r.etag = s.etag
      BY <3>1, ReadsNoHeader, Zenon
    <3>3. f[n + 1] = r
      BY <2>2 DEF s
    <3> HIDE DEF r
    <3> QED  BY <3>2, <3>3 DEF s
  <2> QED  BY <2>3, <2>4
<1> HIDE DEF Early, Late, N
<1>5. 0 \in All
  BY <1>0, <1>1, <1>2
<1>6. ASSUME NEW n \in Nat, n \in All PROVE n + 1 \in All
  <2>1. ASSUME n + 1 <= N PROVE Early(n + 1)
    BY <1>0, <1>3, <1>6, <2>1
  <2>2. ASSUME n + 1 >= N, n + 1 <= count PROVE Late(n + 1)
    <3>1. CASE n + 1 = N
      BY <1>0, <1>1, <2>1, <3>1
    <3>2. CASE n >= N
      BY <1>0, <1>4, <1>6, <2>2, <3>2
    <3> QED  BY <1>0, <2>2, <3>1, <3>2
  <2> QED  BY <2>1, <2>2
<1>7. Nat \subseteq All
  <2> HIDE DEF All
  <2> QED  BY <1>5, <1>6, InductiveSet, Zenon
<1>8. Late(count)
  BY <1>7 DEF N
<1> QED  BY <1>8 DEF Late, N

\* Where the cells of two sequences are when one follows the other.
LEMMA TwoParts ==
  ASSUME NEW a \in Seq(Nat), NEW b \in Seq(Nat)
  PROVE  /\ a \o b \in Seq(Nat) /\ Len(a \o b) = Len(a) + Len(b)
         /\ \A p \in 1..Len(a) : (a \o b)[p] = a[p]
         /\ \A p \in 1..Len(b) : (a \o b)[Len(a) + p] = b[p]
<1> DEFINE e == a \o b
<1>0. Len(a) \in Nat /\ Len(b) \in Nat
  OBVIOUS
<1>1. /\ e \in Seq(Nat) /\ Len(e) = Len(a) + Len(b)
      /\ \A i \in 1..Len(a) + Len(b) : e[i] = IF i <= Len(a) THEN a[i] ELSE b[i - Len(a)]
  BY ConcatProperties
<1> HIDE DEF e
<1>2. ASSUME NEW p \in 1..Len(a) PROVE e[p] = a[p]
  <2>1. p \in 1..Len(a) + Len(b) /\ p <= Len(a)
    BY <1>0
  <2> QED  BY <1>1, <2>1
<1>3. ASSUME NEW p \in 1..Len(b) PROVE e[Len(a) + p] = b[p]
  <2>1. /\ Len(a) + p \in 1..Len(a) + Len(b) /\ ~(Len(a) + p <= Len(a))
        /\ Len(a) + p - Len(a) = p
    BY <1>0
  <2>2. \A i \in 1..Len(a) + Len(b) : e[i] = IF i <= Len(a) THEN a[i] ELSE b[i - Len(a)]
    BY <1>1
  <2>3. e[Len(a) + p] = IF Len(a) + p <= Len(a) THEN a[Len(a) + p] ELSE b[Len(a) + p - Len(a)]
    BY <2>1, <2>2
  <2> QED  BY <2>1, <2>3
<1> QED  BY <1>1, <1>2, <1>3 DEF e

\* d is made of a, b and c, each in its place.
Joined(d, a, b, c) ==
  /\ d \in Seq(Nat) /\ Len(d) = Len(a) + Len(b) + Len(c)
  /\ \A p \in 1..Len(a) : d[p] = a[p]
  /\ \A p \in 1..Len(b) : d[Len(a) + p] = b[p]
  /\ SubSeq(d, Len(a) + Len(b) + 1, Len(d)) = c

\* The same for three.
LEMMA ThreeParts ==
  ASSUME NEW a \in Seq(Nat), NEW b \in Seq(Nat), NEW c \in Seq(Nat)
  PROVE  Joined(a \o b \o c, a, b, c)
<1> DEFINE e == a \o b
           d == e \o c
<1>0. Len(a) \in Nat /\ Len(b) \in Nat /\ Len(c) \in Nat
  OBVIOUS
<1>1. /\ e \in Seq(Nat) /\ Len(e) = Len(a) + Len(b)
      /\ \A p \in 1..Len(a) : e[p] = a[p]
      /\ \A p \in 1..Len(b) : e[Len(a) + p] = b[p]
  BY TwoParts
<1>e. e \in Seq(Nat)
  BY <1>1
<1> HIDE DEF e
<1>2. /\ d \in Seq(Nat) /\ Len(d) = Len(e) + Len(c)
      /\ \A p \in 1..Len(e) : d[p] = e[p]
      /\ \A p \in 1..Len(c) : d[Len(e) + p] = c[p]
  BY <1>e, TwoParts
<1> HIDE DEF d
<1>4. ASSUME NEW p \in 1..Len(a) PROVE d[p] = a[p]
  <2>1. p \in 1..Len(e)
    BY <1>0, <1>1
  <2> QED  BY <1>1, <1>2, <2>1
<1>5. ASSUME NEW p \in 1..Len(b) PROVE d[Len(a) + p] = b[p]
  <2>1. Len(a) + p \in 1..Len(e)
    BY <1>0, <1>1
  <2> QED  BY <1>1, <1>2, <2>1
<1>6. \A p \in 1..Len(c) : d[Len(e) + p] = c[p]
  BY <1>2
<1>7. SubSeq(d, Len(e) + 1, Len(d)) = c
  <2> DEFINE lo == Len(e) + 1
             hi == Len(d)
             w == SubSeq(d, lo, hi)
  <2>1. lo \in Int /\ hi \in Int /\ \A i \in lo..hi : d[i] \in Nat
    <3>1. Len(e) \in Nat /\ Len(d) \in Nat /\ d \in Seq(Nat)
      BY <1>0, <1>1, <1>2
    <3>2. \A i \in lo..hi : i \in 1..Len(d)
      BY <3>1
    <3> QED  BY <3>1, <3>2
  <2>2. /\ w \in Seq(Nat) /\ Len(w) = IF lo <= hi THEN hi - lo + 1 ELSE 0
        /\ \A i \in 1..hi - lo + 1 : w[i] = d[lo + i - 1]
    <3> HIDE DEF lo, hi
    <3> QED  BY <2>1, SubSeqProperties
  <2> HIDE DEF w
  <2>3. Len(w) = Len(c)
    BY <1>0, <1>1, <1>2, <2>2
  <2>4. ASSUME NEW i \in 1..Len(c) PROVE w[i] = c[i]
    <3>1. i \in 1..Len(d) - (Len(e) + 1) + 1 /\ Len(e) + 1 + i - 1 = Len(e) + i
      BY <1>0, <1>1, <1>2
    <3> QED  BY <1>6, <2>2, <3>1
  <2>5. w = c
    BY <2>2, <2>3, <2>4, SeqEqual
  <2> QED  BY <2>5 DEF w
<1> QED  BY <1>0, <1>1, <1>2, <1>4, <1>5, <1>7 DEF d, e, Joined

\* Both ends of a step of the loop are indices of its run.
LEMMA Neighbours ==
  ASSUME NEW N \in Nat, NEW n \in 1..N
  PROVE  n - 1 \in 0..N /\ n \in 0..N
OBVIOUS

\* The cells of HeaderCells, behind the 7 cells of the fixed part, are laid out so.
LEMMA LaysOut ==
  ASSUME NEW hs \in Seq(Texts \X Texts), NEW u \in [0..Len(hs) -> Seq(Nat)], IsCells(u, hs),
         NEW d, \A p \in 1..Len(u[Len(hs)]) : d[7 + p] = u[Len(hs)][p]
  PROVE  Layout(hs, u, d)
<1> DEFINE N == Len(hs)
<1>0. N \in Nat
  OBVIOUS
<1>1. \A n \in 1..N :
        /\ Len(u[n]) = Len(u[n - 1]) + 1 + Len(hs[n][1]) + 1 + Len(hs[n][2])
        /\ \A p \in 1..Len(u[n - 1]) : u[n][p] = u[n - 1][p]
        /\ IsAt(u[n], Len(u[n - 1]), hs[n][1])
        /\ IsAt(u[n], Len(u[n - 1]) + 1 + Len(hs[n][1]), hs[n][2])
  BY HeadersAt, Zenon
<1>2. ASSUME NEW n \in 1..N
      PROVE  /\ n - 1 \in 0..N /\ n \in 0..N
             /\ u[n] \in Seq(Nat) /\ Len(u[n]) \in Nat /\ Len(u[n - 1]) \in Nat
             /\ Len(hs[n][1]) \in Nat /\ Len(hs[n][2]) \in Nat
             /\ hs[n][1] \in Seq(Nat) /\ hs[n][2] \in Seq(Nat)
  <2> HIDE DEF N
  <2>1. n - 1 \in 0..N /\ n \in 0..N
    BY <1>0, Neighbours, Zenon
  <2> USE DEF N
  <2>2. u[n] \in Seq(Nat) /\ u[n - 1] \in Seq(Nat)
    BY <2>1, Zenon
  <2>3. Len(u[n]) \in Nat /\ Len(u[n - 1]) \in Nat
    BY <2>2, LenProperties
  <2> QED  BY <2>1, <2>2, <2>3, HeaderTypes DEF Texts
<1>3. \A n \in 0..N : /\ Len(u[n]) <= Len(u[N])
                      /\ \A p \in 1..Len(u[n]) : u[N][p] = u[n][p]
  <2>1. ASSUME NEW n \in 1..N
        PROVE  /\ Len(u[n - 1]) <= Len(u[n])
               /\ \A p \in 1..Len(u[n - 1]) : u[n][p] = u[n - 1][p]
    <3>1. Len(u[n]) = Len(u[n - 1]) + 1 + Len(hs[n][1]) + 1 + Len(hs[n][2])
      BY <1>1, Zenon
    <3> DEFINE a == Len(u[n])
               b == Len(u[n - 1])
               x == Len(hs[n][1])
               y == Len(hs[n][2])
    <3>2. a \in Nat /\ b \in Nat /\ x \in Nat /\ y \in Nat
      BY <1>2
    <3>3. b <= a
      <4> HIDE DEF a, b, x, y
      <4>1. a = b + 1 + x + 1 + y
        BY <3>1 DEF a, b, x, y
      <4> QED  BY <3>2, <4>1
    <3> QED  BY <1>1, <3>3, Zenon
  <2> HIDE DEF N
  <2>2. u \in [0..N -> Seq(Nat)]
    BY DEF N
  <2> QED  BY <1>0, <2>1, <2>2, CellsGrow, Zenon
<1>4. ASSUME NEW n \in 1..N
      PROVE  /\ IsAt(d, 7 + Len(u[n - 1]), hs[n][1])
             /\ IsAt(d, 7 + Len(u[n - 1]) + 1 + Len(hs[n][1]), hs[n][2])
  <2> DEFINE c == u[n]
             o == Len(u[n - 1])
             x == hs[n][1]
             y == hs[n][2]
  <2>1. /\ c \in Seq(Nat) /\ Len(c) \in Nat /\ o \in Nat /\ x \in Seq(Nat) /\ y \in Seq(Nat)
        /\ Len(x) \in Nat /\ Len(y) \in Nat /\ Len(c) <= Len(u[N]) /\ Len(u[N]) \in Nat
    <3>1. N \in 0..N
      BY <1>0
    <3>2. u[N] \in Seq(Nat)
      BY <3>1, Zenon
    <3>3. Len(u[N]) \in Nat
      BY <3>2, LenProperties
    <3> QED  BY <1>2, <1>3, <3>3, Zenon
  <2>2. Len(c) = o + 1 + Len(x) + 1 + Len(y) /\ IsAt(c, o, x) /\ IsAt(c, o + 1 + Len(x), y)
    BY <1>1, Zenon
  <2>3. \A p \in 1..Len(c) : d[7 + p] = c[p]
    <3>1. \A p \in 1..Len(c) : u[N][p] = c[p]
      BY <1>2, <1>3, Zenon
    <3> HIDE DEF c
    <3>2. \A p \in 1..Len(c) : p \in 1..Len(u[N])
      BY <2>1
    <3> QED  BY <3>1, <3>2
  <2> HIDE DEF c, o, x, y, N
  <2>4. o + 1 + Len(x) <= Len(c) /\ o + 1 + Len(x) \in Nat /\ o + 1 + Len(x) + 1 + Len(y) <= Len(c)
    BY <2>1, <2>2
  <2>5. IsAt(d, 7 + o, x)
    BY <2>1, <2>2, <2>3, <2>4, StaysAt, Zenon
  <2>6. IsAt(d, 7 + (o + 1 + Len(x)), y)
    BY <2>1, <2>2, <2>3, <2>4, StaysAt, Zenon
  <2>7. 7 + (o + 1 + Len(x)) = 7 + o + 1 + Len(x)
    BY <2>1
  <2> QED  BY <2>5, <2>6, <2>7, Zenon DEF o, x, y
<1>5. u[0] = <<>>
  BY DEF IsCells
<1> QED  BY <1>1, <1>2, <1>3, <1>4, <1>5, Zenon DEF Layout

\* The envelope of a message is read as that message.
LEMMA MessageIsRead ==
  ASSUME NEW m \in Messages
  PROVE  LET read == ParseResponse(Encoded(m)) IN
         /\ read.body = m.body /\ read.status = m.status
         /\ LastEtag(m.headers, Len(m.headers), read.etag)
<1> DEFINE hs == m.headers
           N == Len(hs)
           cells == HeaderCells(hs)
           first == <<Utom, 8, 1, 0, 2 + Len(cells), m.status, N + m.extra>>
           d == first \o cells \o m.body
           end == 7 + Len(cells)
<1>1. /\ hs \in Seq(Texts \X Texts) /\ N \in Nat /\ m.extra \in Nat
      /\ m.body \in Seq(Nat) /\ m.status \in {0} \cup 100..599 /\ m.status \in Nat
  <2>1. /\ hs \in Seq(Texts \X Texts) /\ m.extra \in Nat
        /\ m.body \in Seq(Nat) /\ m.status \in {0} \cup 100..599
    BY DEF Messages
  <2>2. N \in Nat
    BY <2>1, LenProperties
  <2>3. m.status \in Nat
    <3>1. \A k \in {0} \cup 100..599 : k \in Nat
      OBVIOUS
    <3> QED  BY <2>1, <3>1, Zenon
  <2> QED  BY <2>1, <2>2, <2>3, Zenon
<1>2. PICK u \in [0..N -> Seq(Nat)] : IsCells(u, hs) /\ cells = u[N]
  BY <1>1, CellsRun, Zenon
<1>3. cells \in Seq(Nat) /\ Len(cells) \in Nat
  <2>1. N \in 0..N
    BY <1>1
  <2>2. cells \in Seq(Nat)
    BY <1>2, <2>1
  <2> QED  BY <2>2, LenProperties
<1>4. Encoded(m) = d
  BY DEF Encoded
<1> HIDE DEF hs, N, cells
<1>5. /\ first \in Seq(Nat) /\ Len(first) = 7 /\ first[1] = Utom
      /\ first[5] = 2 + Len(cells) /\ first[6] = m.status /\ first[7] = N + m.extra
  <2> DEFINE x == 2 + Len(cells)
             y == m.status
             z == N + m.extra
  <2>1. x \in Nat /\ y \in Nat /\ z \in Nat
    <3>1. Len(cells) \in Nat /\ m.status \in Nat /\ N \in Nat /\ m.extra \in Nat
      BY <1>1, <1>3, Zenon
    <3> QED  BY <3>1
  <2> HIDE DEF x, y, z
  <2>2. /\ <<Utom, 8, 1, 0, x, y, z>> \in Seq(Nat) /\ Len(<<Utom, 8, 1, 0, x, y, z>>) = 7
        /\ <<Utom, 8, 1, 0, x, y, z>>[1] = Utom /\ <<Utom, 8, 1, 0, x, y, z>>[5] = x
        /\ <<Utom, 8, 1, 0, x, y, z>>[6] = y /\ <<Utom, 8, 1, 0, x, y, z>>[7] = z
    BY <2>1 DEF Utom
  <2> QED  BY <2>2 DEF x, y, z
<1> HIDE DEF first
<1>6. /\ d \in Seq(Nat) /\ Len(d) = 7 + Len(cells) + Len(m.body)
      /\ \A p \in 1..7 : d[p] = first[p]
      /\ \A p \in 1..Len(cells) : d[7 + p] = cells[p]
      /\ SubSeq(d, end + 1, Len(d)) = m.body
  <2>1. /\ d \in Seq(Nat) /\ Len(d) = Len(first) + Len(cells) + Len(m.body)
        /\ \A p \in 1..Len(first) : d[p] = first[p]
        /\ \A p \in 1..Len(cells) : d[Len(first) + p] = cells[p]
        /\ SubSeq(d, Len(first) + Len(cells) + 1, Len(d)) = m.body
    <3>1. first \in Seq(Nat) /\ cells \in Seq(Nat) /\ m.body \in Seq(Nat)
      BY <1>1, <1>3, <1>5, Zenon
    <3>2. Joined(d, first, cells, m.body)
      BY <3>1, ThreeParts
    <3> HIDE DEF d
    <3> QED  BY <3>2, Zenon DEF Joined
  <2>2. Len(first) = 7
    BY <1>5
  <2> HIDE DEF d
  <2> QED  BY <2>1, <2>2, Zenon
<1> HIDE DEF d
<1>7. /\ d[1] = Utom /\ d[5] = 2 + Len(cells) /\ d[6] = m.status /\ d[7] = N + m.extra
  <2>1. d[1] = first[1] /\ d[5] = first[5] /\ d[6] = first[6] /\ d[7] = first[7]
    <3>1. \A p \in 1..7 : d[p] = first[p]
      BY <1>6, Zenon
    <3> QED  BY <3>1
  <2> QED  BY <1>5, <2>1
<1>8. /\ Len(m.body) \in Nat /\ Len(d) >= 7 /\ end \in Nat /\ end <= Len(d) /\ end >= 7
      /\ 5 + d[5] = end
  <2>1. Len(m.body) \in Nat
    BY <1>1, LenProperties
  <2>2. Len(d) = 7 + Len(cells) + Len(m.body) /\ Len(cells) \in Nat /\ d[5] = 2 + Len(cells)
    BY <1>3, <1>6, <1>7
  <2> DEFINE a == Len(cells)
             b == Len(m.body)
             c == Len(d)
             e == d[5]
  <2>3. a \in Nat /\ b \in Nat /\ c = 7 + a + b /\ e = 2 + a
    BY <2>1, <2>2
  <2> HIDE DEF a, b, c, e
  <2>4. c >= 7 /\ 7 + a \in Nat /\ 7 + a <= c /\ 7 + a >= 7 /\ 5 + e = 7 + a
    BY <2>3
  <2> QED  BY <2>1, <2>4 DEF a, b, c, e
<1>9. PICK f \in [0..d[7] -> States] : IsLoop(f, d, end, d[7]) /\ Headers(d, end) = f[d[7]]
  <2> HIDE DEF end
  <2>1. d \in Seq(Nat)
    BY <1>6
  <2> QED  BY <1>8, <2>1, LoopRuns
<1>10. Layout(hs, u, d)
  <2>1. \A p \in 1..Len(u[N]) : d[7 + p] = u[N][p]
    BY <1>2, <1>6, Zenon
  <2> QED  BY <1>1, <1>2, <2>1, LaysOut, Zenon DEF N
<1>11. LastEtag(hs, N, Headers(d, end).etag)
  <2> DEFINE count == d[7]
  <2>1. count \in Nat /\ count >= N
    <3>1. d[7] = N + m.extra /\ N \in Nat /\ m.extra \in Nat
      BY <1>1, <1>7, Zenon
    <3> QED  BY <3>1
  <2>2. end = 7 + Len(u[N]) /\ d \in Seq(Nat)
    BY <1>2, <1>6
  <2>3. f \in [0..count -> States] /\ IsLoop(f, d, end, count) /\ Headers(d, end) = f[count]
    BY <1>9
  <2> HIDE DEF count, end
  <2>4. LastEtag(hs, N, f[count].etag)
    BY <1>1, <1>2, <1>8, <1>10, <2>1, <2>2, <2>3, LoopReads, Zenon DEF N
  <2> QED  BY <2>3, <2>4
<1>12. Head(d) = d[1]
  BY <1>6, <1>8
<1>13. ParseResponse(d) = [body |-> m.body, etag |-> Headers(d, end).etag, status |-> m.status]
  <2>1. 5 + WordAt(d, 4) = end /\ WordAt(d, 5) = m.status
    BY <1>7, <1>8 DEF WordAt
  <2>2. (IF m.status \in 100..599 THEN m.status ELSE 0) = m.status
    <3> DEFINE Clean(k) == IF k \in 100..599 THEN k ELSE 0
    <3>1. m.status \in {0} \cup 100..599
      BY <1>1, Zenon
    <3>2. \A k \in {0} \cup 100..599 : Clean(k) = k
      BY ZenonT(30)
    <3> HIDE DEF Clean
    <3>3. Clean(m.status) = m.status
      BY <3>1, <3>2, ZenonT(30)
    <3> QED  BY <3>3, Zenon DEF Clean
  <2>3. ~(Len(d) < 7 \/ Head(d) # Utom \/ end > Len(d) \/ end < 7)
    <3>1. Head(d) = Utom
      BY <1>7, <1>12
    <3>2. Len(d) \in Nat /\ Len(d) >= 7 /\ end \in Nat /\ end <= Len(d) /\ end >= 7
      <4>1. d \in Seq(Nat)
        BY <1>6
      <4> QED  BY <1>8, <4>1, LenProperties
    <3> HIDE DEF end
    <3> QED  BY <3>1, <3>2
  <2>4. SubSeq(d, end + 1, Len(d)) = m.body
    BY <1>6, Zenon
  <2> HIDE DEF end
  <2> DEFINE Read(x, y) ==
               IF Len(d) < 7 \/ Head(d) # Utom \/ x > Len(d) \/ x < 7
               THEN [body |-> d, etag |-> NoValue, status |-> 0]
               ELSE [body |-> SubSeq(d, x + 1, Len(d)), etag |-> Headers(d, x).etag,
                     status |-> IF y \in 100..599 THEN y ELSE 0]
  <2>5. ParseResponse(d) = Read(5 + WordAt(d, 4), WordAt(d, 5))
    BY Zenon DEF ParseResponse
  <2>6. ParseResponse(d) = Read(end, m.status)
    <3> HIDE DEF Read
    <3> QED  BY <2>1, <2>5
  <2> QED  BY <2>2, <2>3, <2>4, <2>6, Zenon
<1> QED  BY <1>4, <1>11, <1>13 DEF hs, N

(* The envelope of every message is read as it was written, whatever its     *)
(* headers, their number and length, its body and the excess of its header   *)
(* count: body, status and the ETag of the last header of that name          *)
(* (parser.py:186-208, 310-328).                                             *)
THEOREM EnvelopeIsRight ==
  ASSUME kind = "message" => input \in Messages
  PROVE  EnvelopeIsRead
<1> SUFFICES ASSUME input \in Messages PROVE EnvelopeIsRead
  BY Zenon DEF EnvelopeIsRead
<1>1. /\ ParseResponse(Encoded(input)).body = input.body
      /\ ParseResponse(Encoded(input)).status = input.status
      /\ LastEtag(input.headers, Len(input.headers), ParseResponse(Encoded(input)).etag)
  BY MessageIsRead, Zenon
<1>2. DOMAIN input.headers = 1..Len(input.headers)
  BY DEF Messages
<1> QED  BY <1>1, <1>2, Zenon DEF EnvelopeIsRead, LastEtag

=============================================================================
