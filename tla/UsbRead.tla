------------------------------ MODULE UsbRead ------------------------------
(***************************************************************************)
(* UsbFsCancellableBulkRead of motu_proxy/transports/usbfs.py: one bulk    *)
(* read as an asynchronous usbfs URB, submitted and reaped by the thread   *)
(* that calls read() and discarded by any thread that calls cancel().      *)
(* There is no lock around the fields, so every statement that touches a   *)
(* shared field or the kernel is a step of its own.                        *)
(***************************************************************************)
EXTENDS Naturals

CONSTANTS Reader,      \* the thread in read()
          Cancellers,  \* other threads, each of which may call cancel() once
          HasDeadline, \* timeout_ms is not None
          MayDetach    \* whether the device may be unplugged

ASSUME ThreadsAssumption == Reader \notin Cancellers

VARIABLES
  urb,              \* kernel: "none", "pending", "completed", "reaped"
  status,           \* kernel: how the URB completed
  gone,             \* kernel: the device is disconnected
  stray,            \* kernel: a URB that an earlier read() left on the descriptor
  late,             \* the deadline of the read has passed
  submitted,        \* _submitted
  reaped,           \* _reaped
  cancelRequested,  \* _cancel_requested
  discardSubmitted, \* _discard_submitted
  discardFailed,    \* _discard_failed_without_reap
  failureErrno,     \* _discard_failure_errno
  timedOut,         \* _timed_out
  wakeup,           \* the wake-up pipe: "closed", "empty", "signalled"
  pc,               \* where each thread is
  errno,            \* the errno a thread has caught from DISCARDURB
  after,            \* where the reader goes when its own cancel() returns
  outcome           \* how read() ended

kernel == <<urb, status, gone, late, stray>>
flags  == <<submitted, reaped, cancelRequested, discardSubmitted,
            discardFailed, failureErrno, timedOut>>
own    == <<errno, after, outcome>>
vars   == <<kernel, flags, own, wakeup, pc>>

Threads == Cancellers \cup {Reader}

\* Only the first URB that is reaped matters, so one stray stands for several.
Init ==
  /\ urb = "none" /\ status = "none" /\ gone = FALSE /\ late = FALSE
  /\ stray \in {"none", "pending", "completed"}
  /\ submitted = FALSE /\ reaped = FALSE /\ cancelRequested = FALSE
  /\ discardSubmitted = FALSE /\ discardFailed = FALSE
  /\ failureErrno = "none" /\ timedOut = FALSE
  /\ wakeup = "closed"
  /\ pc = [t \in Threads |-> IF t = Reader THEN "start" ELSE "idle"]
  /\ errno = [t \in Threads |-> "none"]
  /\ after = "open" /\ outcome = "none"

Goto(t, p) == pc' = [pc EXCEPT ![t] = p]

-----------------------------------------------------------------------------
(* The kernel and the clock.                                                *)

\* The endpoint serves its URBs in the order they were submitted.
UrbCompletes ==
  /\ urb = "pending" /\ ~gone /\ stray # "pending"
  /\ urb' = "completed"
  /\ status' \in {"ok", "error"}
  /\ UNCHANGED <<gone, late, stray, flags, own, wakeup, pc>>

\* Behind a URB of this read that has completed, nobody sees it.
StrayCompletes ==
  /\ stray = "pending" /\ urb # "completed"
  /\ stray' = "completed"
  /\ UNCHANGED <<urb, status, gone, late, flags, own, wakeup, pc>>

Detach ==
  /\ MayDetach /\ ~gone
  /\ gone' = TRUE
  /\ UNCHANGED <<urb, status, late, stray, flags, own, wakeup, pc>>

\* Some time after the disconnect the kernel gives back what is pending.
UrbFlushed ==
  /\ urb = "pending" /\ gone
  /\ urb' = "completed"
  /\ status' \in {"error", "cancelled"}
  /\ UNCHANGED <<gone, late, stray, flags, own, wakeup, pc>>

DeadlinePasses ==
  /\ HasDeadline /\ ~late
  /\ late' = TRUE
  /\ UNCHANGED <<urb, status, gone, stray, flags, own, wakeup, pc>>

-----------------------------------------------------------------------------
(* cancel(), called by a canceller or by the reader itself.                 *)

CancelStarts(t) ==
  /\ pc[t] = IF t = Reader THEN "cancel" ELSE "idle"
  /\ cancelRequested' = TRUE
  /\ Goto(t, "discard")
  /\ UNCHANGED <<kernel, own, wakeup, submitted, reaped, discardSubmitted,
                 discardFailed, failureErrno, timedOut>>

\* The early return of _discard_pending_urb.
NothingToDiscard_Unsubmitted == reaped \/ discardSubmitted \/ discardFailed
NothingToDiscard == ~submitted \/ reaped \/ discardSubmitted \/ discardFailed

CancelChecks(t) ==
  /\ pc[t] = "discard"
  /\ Goto(t, IF NothingToDiscard THEN "wake" ELSE "ioctl")
  /\ UNCHANGED <<kernel, flags, own, wakeup>>

\* USBDEVFS_DISCARDURB returns once the URB has completed; it fails when the
\* URB is not pending (EINVAL; the code treats ENOENT alike) or the device is
\* gone (ENODEV), and the kernel has no other errno for it.
DiscardUrb(t) ==
  /\ pc[t] = "ioctl"
  /\ \/ /\ ~gone /\ urb = "pending"
        /\ urb' = "completed" /\ status' \in {"cancelled", "ok"}
        /\ Goto(t, "mark") /\ UNCHANGED errno
     \/ /\ gone \/ urb # "pending"
        /\ errno' = [errno EXCEPT ![t] = IF gone THEN "ENODEV" ELSE "EINVAL"]
        /\ Goto(t, "fail") /\ UNCHANGED <<urb, status>>
  /\ UNCHANGED <<gone, late, stray, flags, wakeup, after, outcome>>

MarkDiscarded(t) ==
  /\ pc[t] = "mark"
  /\ discardSubmitted' = TRUE
  /\ Goto(t, "wake")
  /\ UNCHANGED <<kernel, own, wakeup, submitted, reaped, cancelRequested,
                 discardFailed, failureErrno, timedOut>>

MarkFailed(t) ==
  /\ pc[t] = "fail"
  /\ discardFailed' = TRUE
  /\ Goto(t, "errno")
  /\ UNCHANGED <<kernel, own, wakeup, submitted, reaped, cancelRequested,
                 discardSubmitted, failureErrno, timedOut>>

RecordErrno(t) ==
  /\ pc[t] = "errno"
  /\ failureErrno' = errno[t]
  /\ Goto(t, "wake")
  /\ UNCHANGED <<kernel, own, wakeup, submitted, reaped, cancelRequested,
                 discardSubmitted, discardFailed, timedOut>>

CancelReturns(t) == Goto(t, IF t = Reader THEN after ELSE "over")

\* _wake_cancel_waiters looks up the pipe under its lock ...
WakeLooks(t) ==
  /\ pc[t] = "wake"
  /\ IF wakeup = "closed" THEN CancelReturns(t) ELSE Goto(t, "write")
  /\ UNCHANGED <<kernel, flags, own, wakeup>>

\* ... and writes to it outside, when it may be closed (EBADF).
WakeByte == IF wakeup = "closed" THEN "closed" ELSE "signalled"

WakeWrites(t) ==
  /\ pc[t] = "write"
  /\ wakeup' = WakeByte
  /\ CancelReturns(t)
  /\ UNCHANGED <<kernel, flags, own>>

CancelStep(t) == \/ CancelChecks(t) \/ DiscardUrb(t) \/ MarkDiscarded(t)
                 \/ MarkFailed(t) \/ RecordErrno(t) \/ WakeLooks(t)
                 \/ WakeWrites(t)

-----------------------------------------------------------------------------
(* read().                                                                  *)

ReadStarts ==
  /\ pc[Reader] = "start"
  /\ IF cancelRequested
     THEN outcome' = "interrupted" /\ Goto(Reader, "done")
     ELSE Goto(Reader, "submit") /\ UNCHANGED outcome
  /\ UNCHANGED <<kernel, flags, wakeup, errno, after>>

\* USBDEVFS_SUBMITURB, which fails without the device and may without memory
SubmitUrb ==
  /\ pc[Reader] = "submit"
  /\ \/ outcome' = "error" /\ Goto(Reader, "done") /\ UNCHANGED urb
     \/ /\ ~gone
        /\ urb' = "pending" /\ Goto(Reader, "submitted") /\ UNCHANGED outcome
  /\ UNCHANGED <<status, gone, late, stray, flags, wakeup, errno, after>>

MarkSubmitted ==
  /\ pc[Reader] = "submitted"
  /\ submitted' = TRUE
  /\ Goto(Reader, "recheck")
  /\ UNCHANGED <<kernel, own, wakeup, reaped, cancelRequested,
                 discardSubmitted, discardFailed, failureErrno, timedOut>>

\* A cancel() that found nothing submitted is repeated.
CancelAgain_Never == FALSE
CancelAgain == cancelRequested

RecheckCancel ==
  /\ pc[Reader] = "recheck"
  /\ after' = "open"
  /\ Goto(Reader, IF CancelAgain THEN "cancel" ELSE "open")
  /\ UNCHANGED <<kernel, flags, wakeup, errno, outcome>>

\* Without a free file descriptor pipe2 raises, before the try of _reap.
OpenWakeup ==
  /\ pc[Reader] = "open"
  /\ \/ wakeup' = "empty" /\ Goto(Reader, "reap") /\ UNCHANGED outcome
     \/ outcome' = "nopipe" /\ Goto(Reader, "done") /\ UNCHANGED wakeup
  /\ UNCHANGED <<kernel, flags, errno, after>>

\* What a reap ioctl finds: URBs come back in the order they completed.
Reapable == stray = "completed" \/ urb = "completed"

\* _accept_reaped_urb: the URB of this read, or another's (EIO).
TakeUrb ==
  \/ /\ stray # "completed" /\ urb = "completed"
     /\ urb' = "reaped" /\ reaped' = TRUE
     /\ Goto(Reader, "close") /\ UNCHANGED <<stray, outcome>>
  \/ /\ stray = "completed"
     /\ stray' = "none" /\ outcome' = "stray"
     /\ Goto(Reader, "close") /\ UNCHANGED <<urb, reaped>>

\* A reap ioctl fails with ENODEV.
ReapFails ==
  /\ ~Reapable /\ gone
  /\ outcome' = "error" /\ Goto(Reader, "close") /\ UNCHANGED <<urb, stray, reaped>>

\* USBDEVFS_REAPURBNDELAY in the loop of _reap
TryReap ==
  /\ pc[Reader] = "reap"
  /\ \/ TakeUrb
     \/ ReapFails
     \/ /\ ~Reapable /\ ~gone                                 \* EAGAIN
        /\ Goto(Reader, "check") /\ UNCHANGED <<urb, stray, reaped, outcome>>
  /\ UNCHANGED <<status, gone, late, submitted, cancelRequested,
                 discardSubmitted, discardFailed, failureErrno, timedOut,
                 wakeup, errno, after>>

CheckCancel ==
  /\ pc[Reader] = "check"
  /\ \/ /\ cancelRequested
        /\ Goto(Reader, "finish") /\ UNCHANGED <<timedOut, after>>
     \/ /\ ~cancelRequested /\ late
        /\ timedOut' = TRUE /\ after' = "finish" /\ Goto(Reader, "cancel")
     \/ /\ ~cancelRequested /\ ~late
        /\ Goto(Reader, "poll") /\ UNCHANGED <<timedOut, after>>
  /\ UNCHANGED <<kernel, wakeup, errno, outcome, submitted, reaped,
                 cancelRequested, discardSubmitted, discardFailed, failureErrno>>

\* poller.poll returns, and the pipe is drained.
PollReturns ==
  /\ pc[Reader] = "poll"
  /\ Reapable \/ gone \/ wakeup = "signalled" \/ late
  /\ wakeup' = "empty"
  /\ Goto(Reader, "reap")
  /\ UNCHANGED <<kernel, flags, own>>

\* _finish_cancelled_reap: what the failed discard says about the URB.
FinishReap_NoRace ==
  /\ pc[Reader] = "finish"
  /\ reaped' = discardFailed
  /\ Goto(Reader, IF discardFailed THEN "close" ELSE "blocking")
  /\ UNCHANGED <<kernel, wakeup, own, submitted, cancelRequested,
                 discardSubmitted, discardFailed, failureErrno, timedOut>>
FinishReap ==
  /\ pc[Reader] = "finish"
  /\ \/ /\ ~discardFailed
        /\ Goto(Reader, "blocking") /\ UNCHANGED reaped
     \/ /\ discardFailed /\ failureErrno = "EINVAL"
        /\ Goto(Reader, "race") /\ UNCHANGED reaped
     \/ /\ discardFailed /\ failureErrno # "EINVAL"
        /\ reaped' = TRUE /\ Goto(Reader, "close")
  /\ UNCHANGED <<kernel, wakeup, own, submitted, cancelRequested,
                 discardSubmitted, discardFailed, failureErrno, timedOut>>

\* USBDEVFS_REAPURB
ReapBlocking ==
  /\ pc[Reader] = "blocking"
  /\ TakeUrb \/ ReapFails
  /\ UNCHANGED <<status, gone, late, submitted, cancelRequested,
                 discardSubmitted, discardFailed, failureErrno, timedOut,
                 wakeup, errno, after>>

\* _reap_discard_race_completion
ReapRace ==
  /\ pc[Reader] = "race"
  /\ IF Reapable THEN TakeUrb
     ELSE IF gone THEN ReapFails
     ELSE reaped' = TRUE /\ Goto(Reader, "close") /\ UNCHANGED <<urb, stray, outcome>>
  /\ UNCHANGED <<status, gone, late, submitted, cancelRequested,
                 discardSubmitted, discardFailed, failureErrno, timedOut,
                 wakeup, errno, after>>

CloseWakeup ==
  /\ pc[Reader] = "close"
  /\ wakeup' = "closed"
  /\ Goto(Reader, IF outcome = "none" THEN "result" ELSE "done")
  /\ UNCHANGED <<kernel, flags, own>>

\* The end of read().
Result_IgnoresCancel == IF timedOut THEN "empty"
                        ELSE IF status = "cancelled" THEN "interrupted"
                        ELSE IF status = "error" THEN "error" ELSE "data"
Result == IF timedOut THEN "empty"
          ELSE IF cancelRequested \/ status = "cancelled" THEN "interrupted"
          ELSE IF status = "error" THEN "error" ELSE "data"

ReadReturns ==
  /\ pc[Reader] = "result"
  /\ outcome' = Result
  /\ Goto(Reader, "done")
  /\ UNCHANGED <<kernel, flags, wakeup, errno, after>>

ReadStep == \/ ReadStarts \/ SubmitUrb \/ MarkSubmitted \/ RecheckCancel
            \/ OpenWakeup \/ TryReap \/ CheckCancel \/ PollReturns
            \/ FinishReap \/ ReapBlocking \/ ReapRace \/ CloseWakeup
            \/ ReadReturns
            \/ CancelStarts(Reader) \/ CancelStep(Reader)

-----------------------------------------------------------------------------
Finished == /\ pc[Reader] = "done"
            /\ \A t \in Cancellers : pc[t] \in {"idle", "over"}
            /\ UNCHANGED vars

Next == \/ ReadStep
        \/ \E t \in Cancellers : CancelStarts(t) \/ CancelStep(t)
        \/ UrbCompletes \/ StrayCompletes \/ Detach \/ UrbFlushed \/ DeadlinePasses
        \/ Finished

Spec == Init /\ [][Next]_vars

\* Threads inside read() and cancel() are scheduled, and a deadline passes.
\* Nobody has to cancel, and the device need not answer.
FairSpec == /\ Spec
            /\ WF_vars(ReadStep)
            /\ \A t \in Cancellers : WF_vars(CancelStep(t))
            /\ WF_vars(DeadlinePasses)

-----------------------------------------------------------------------------
(* Properties.                                                              *)

CancelPcs == {"discard", "ioctl", "mark", "fail", "errno", "wake", "write"}
ReaderPcs == {"start", "submit", "submitted", "recheck", "cancel", "open",
              "reap", "check", "poll", "finish", "blocking", "race", "close",
              "result", "done"}

ValuesOK ==
  /\ urb \in {"none", "pending", "completed", "reaped"}
  /\ stray \in {"none", "pending", "completed"}
  /\ status \in {"none", "ok", "error", "cancelled"}
  /\ failureErrno \in {"none", "EINVAL", "ENODEV"}
  /\ errno \in [Threads -> {"none", "EINVAL", "ENODEV"}]
  /\ after \in {"open", "finish"}
  /\ outcome \in {"none", "data", "empty", "interrupted", "error", "nopipe", "stray"}
  /\ wakeup \in {"closed", "empty", "signalled"}

FlagsOK ==
  /\ gone \in BOOLEAN /\ late \in BOOLEAN /\ submitted \in BOOLEAN
  /\ reaped \in BOOLEAN /\ cancelRequested \in BOOLEAN
  /\ discardSubmitted \in BOOLEAN /\ discardFailed \in BOOLEAN
  /\ timedOut \in BOOLEAN

PlacesOK ==
  /\ pc \in [Threads -> CancelPcs \cup ReaderPcs \cup {"idle", "over"}]
  /\ pc[Reader] \in CancelPcs \cup ReaderPcs
  /\ \A t \in Cancellers : pc[t] \in CancelPcs \cup {"idle", "over"}

\* Types.
TypeOK == ValuesOK /\ FlagsOK /\ PlacesOK

\* A URB left with the device takes the first packet of the next request with
\* it.  read() leaves one only if it could not wait for it, having no wake-up
\* pipe or having reaped another's URB; and once the read is cancelled, only for
\* as long as a thread in cancel() is about to discard it (_submitted, the
\* repeated cancel() and _finish_cancelled_reap together).
NoCancelledUrbLeft ==
  pc[Reader] = "done" /\ ~gone /\ urb = "pending" =>
    /\ outcome \in {"nopipe", "stray"}
    /\ cancelRequested => \E t \in Cancellers : pc[t] \in {"discard", "ioctl"}

\* read() ends: at its deadline, when it is cancelled, or when the device is
\* gone, without the device having to answer and without a lost wake-up.
ReadEnds == late \/ cancelRequested \/ gone ~> pc[Reader] = "done"

\* The read is the one the coordinator relies on, to which an OSError is an
\* OSError.
ReadResult == IF outcome \in {"nopipe", "stray"} THEN "error" ELSE outcome
Abstract == INSTANCE CancellableRead WITH cancelled <- cancelRequested, result <- ReadResult
ImplementsCancellableRead == Abstract!Spec

LeavesCompleted ==
  /\ pc[Reader] \notin {"close", "result", "done"}
  /\ pc'[Reader] \in {"close", "done"} /\ urb' = "completed"

\* The reader leaves a completed URB of its own on the file descriptor, for the
\* next read to find, only when it looks between the two assignments of a
\* cancelling thread whose discard has failed (_discard_failed_without_reap,
\* _discard_failure_errno), without a device, without the pipe, or when it
\* has found such a URB itself.
ReapedUnlessErrnoIsLate ==
  [][LeavesCompleted =>
       gone \/ (\E t \in Cancellers : pc[t] = "errno") \/ outcome' \in {"nopipe", "stray"}]_vars

=============================================================================
