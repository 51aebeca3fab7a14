------------------------- MODULE CoordinatorThreads -------------------------
(***************************************************************************)
(* How the threads of the coordinator share the pipe and wait.  The USB    *)
(* pipe has one user at a time, and a long-poll read never outlives the    *)
(* arrival of a foreground request uncancelled.  A thread inside           *)
(* condition.wait that has not been notified has nothing to do; and        *)
(* without a preemptible long poll, one waiter at a time reads the poll    *)
(* path for everyone, and its flag is never left set.                      *)
(***************************************************************************)
EXTENDS CoordinatorTypes

\* A leaf of these proofs takes the SMT solver a second or less, on a busy machine
\* more; the leaves that need Zenon say so.
USE SMTT(30)

-----------------------------------------------------------------------------
(* The pipe.                                                                *)


\* _io_owner says which kind of thread is inside the pipe, and that it is one.
OwnerInv ==
  /\ ioOwner = "poller" <=> HoldsPipe(Poller)
  /\ ioOwner = "foreground" <=> \E c \in Clients : HoldsPipe(c)
  /\ \A b, c \in Clients : HoldsPipe(b) /\ HoldsPipe(c) => b = c

\* _active_poll_read is set exactly while the poller is inside read.read().
ReadInv == activeRead <=> phase[Poller] \in {"reading", "readdone"}

PipeInv == OwnerInv /\ ReadInv /\ WaitingRequestCancelsPoll

LEMMA InitPipeInv == Init => PipeInv
<1> SUFFICES ASSUME Init PROVE PipeInv
  OBVIOUS
<1>1. \A t \in Threads : phase[t] \in {"idle", "top", "done"}
  BY DEF Init
<1>2. OwnerInv
  BY <1>1 DEF Init, OwnerInv, HoldsPipe, Threads
<1>3. ReadInv /\ WaitingRequestCancelsPoll
  BY <1>1 DEF Init, ReadInv, WaitingRequestCancelsPoll, Threads
<1> QED  BY <1>2, <1>3 DEF PipeInv

\* Ownership follows the thread that moves.
LEMMA MoveWithinPipe ==
  ASSUME PhaseOK, OwnerInv, NEW t \in Threads, NEW p, Goto(t, p), UNCHANGED ioOwner,
         HoldsPipe(t) <=> HoldsPipe(t)'
  PROVE  OwnerInv'
<1>1. \A s \in Threads : HoldsPipe(s)' <=> HoldsPipe(s)
  BY DEF PhaseOK, Goto, HoldsPipe
<1> QED  BY <1>1 DEF OwnerInv, Threads

LEMMA EnterPipe ==
  ASSUME PhaseOK, OwnerInv, NEW t \in Threads, Goto(t, "call"), ioOwner = "none",
         ioOwner' = IF t = Poller THEN "poller" ELSE "foreground"
  PROVE  OwnerInv'
<1>1. \A s \in Threads : HoldsPipe(s)' <=> s = t
  BY DEF PhaseOK, Goto, HoldsPipe, OwnerInv, Threads
<1> QED  BY <1>1, ThreadsAssumption DEF OwnerInv, Threads

LEMMA LeavePipe ==
  ASSUME PhaseOK, OwnerInv, NEW t \in Threads, NEW p, HoldsPipe(t), Goto(t, p),
         p \in {"nap", "settle", "idle"}, ioOwner' = "none"
  PROVE  OwnerInv'
<1>1. \A s \in Threads : ~HoldsPipe(s)'
  BY ThreadsAssumption DEF PhaseOK, Goto, HoldsPipe, OwnerInv, Threads
<1> QED  BY <1>1 DEF OwnerInv, Threads

LEMMA NextOwner == TypeOK /\ OwnerInv /\ [Next]_vars => OwnerInv'
<1> SUFFICES ASSUME TypeOK, OwnerInv, [Next]_vars PROVE OwnerInv'
  OBVIOUS
<1>0. PhaseOK /\ Poller \in Threads /\ Clients \subseteq Threads
  BY DEF TypeOK, Threads
<1>1. ASSUME UNCHANGED <<ioOwner, phase>> PROVE OwnerInv'
  BY <1>1 DEF OwnerInv, HoldsPipe
<1>2. CASE PollerStarts \/ PollerNaps
  <2>1. /\ UNCHANGED ioOwner
        /\ phase[Poller] \in {"top", "nap"}
        /\ \E p \in {"top", "acquire", "done"} : Goto(Poller, p)
    BY <1>2 DEF PollerStarts, PollerNaps, sync, lock
  <2> QED  BY <1>0, <2>1, MoveWithinPipe, Zenon DEF HoldsPipe, Goto, PhaseOK
<1>3. CASE AcquirePoller
  <2>1. CASE closed /\ Goto(Poller, "done") /\ UNCHANGED ioOwner
    BY <1>0, <1>3, <2>1, MoveWithinPipe, Zenon DEF AcquirePoller, HoldsPipe, Goto, PhaseOK
  <2>2. CASE PollerMayAcquire /\ ioOwner' = "poller" /\ Goto(Poller, "call")
    BY <1>0, <2>2, EnterPipe DEF PollerMayAcquire
  <2> QED  BY <1>1, <1>3, <2>1, <2>2 DEF AcquirePoller
<1>4. CASE \/ PollerSends \/ PollerChecksClosed \/ PollerRegistersRead
           \/ PollReadDelivers \/ PollReadFails \/ PollerUnregistersRead
  <2>1. UNCHANGED ioOwner
    BY <1>4 DEF PollerSends, PollerChecksClosed, PollerRegistersRead,
        PollReadDelivers, PollReadFails, PollerUnregistersRead, sync, lock
  <2>2. /\ phase[Poller] \in {"call", "listen", "begin", "reading", "readdone"}
        /\ \E p \in {"listen", "begin", "reading", "readdone", "reply", "release"} :
             Goto(Poller, p)
    BY <1>4 DEF PollerSends, PollerChecksClosed, PollerRegistersRead,
        PollReadDelivers, PollReadFails, PollerUnregistersRead, TypeOK, PollOK
  <2> QED  BY <1>0, <2>1, <2>2, MoveWithinPipe, Zenon DEF HoldsPipe, Goto, PhaseOK
<1>5. ASSUME NEW t \in Threads,
             \/ OpenSession(t) \/ CallFails(t) \/ CallReads(t) \/ TakePayload(t)
             \/ Publish(t) \/ CallWrites(t)
      PROVE  OwnerInv'
  <2>1. UNCHANGED ioOwner
    BY <1>5, Zenon DEF OpenSession, CallFails, CallReads, TakePayload, Publish,
        CallWrites, sync, lock
  <2>2. \/ UNCHANGED phase
        \/ /\ phase[t] \in {"call", "reply", "publish"}
           /\ \E p \in {"call", "reply", "publish", "release"} : Goto(t, p)
    BY <1>5, Zenon DEF OpenSession, CallFails, CallReads, TakePayload, Publish, CallWrites
  <2> QED  BY <1>0, <1>1, <2>1, <2>2, MoveWithinPipe DEF HoldsPipe, Goto, PhaseOK
<1>6. ASSUME NEW t \in Threads, ReleaseIo(t) PROVE OwnerInv'
  <2>1. AfterRelease(t) \in {"nap", "settle", "idle"} /\ Goto(t, AfterRelease(t))
        /\ ioOwner' = "none" /\ HoldsPipe(t)
    BY <1>6 DEF ReleaseIo, AfterRelease, HoldsPipe
  <2> QED  BY <1>0, <2>1, LeavePipe
<1>7. ASSUME NEW c \in Clients, EnterForeground(c) \/ RetryForeground(c)
      PROVE  OwnerInv'
  <2>0. phase[c] \in {"enter", "acquire"} /\ c # Poller
    BY <1>7, ThreadsAssumption DEF EnterForeground, RetryForeground
  <2>1. ASSUME NEW w, Grant(c, w) PROVE OwnerInv'
    BY <1>0, <2>0, <2>1, EnterPipe DEF Grant
  <2>2. ASSUME NEW w, NEW S, SleepForIo(c, w, S) PROVE OwnerInv'
    BY <1>0, <2>0, <2>2, MoveWithinPipe, Zenon DEF SleepForIo, HoldsPipe, Goto, PhaseOK
  <2>3. ASSUME NEW w, GiveUp(c, w) PROVE OwnerInv'
    <3>1. PICK p \in {"settle", "idle"} : Goto(c, p)
      BY <2>3 DEF GiveUp
    <3>2. UNCHANGED ioOwner
      BY <2>3 DEF GiveUp
    <3> QED  BY <1>0, <2>0, <3>1, <3>2, MoveWithinPipe, Zenon DEF HoldsPipe, Goto, PhaseOK
  <2> QED  BY <1>7, <2>1, <2>2, <2>3 DEF EnterForeground, RetryForeground
<1>8. ASSUME NEW c \in Clients,
             \/ Begin(c) \/ WaitDelivers(c) \/ WaitRefreshes(c) \/ WaitEnds(c)
             \/ WaitSleeps(c) \/ WaitStartsRefresh(c) \/ RefreshSettles(c)
      PROVE  OwnerInv'
  <2>1. UNCHANGED ioOwner
    BY <1>8, Zenon DEF WaitDelivers, WaitRefreshes, WaitEnds, WaitSleeps,
        WaitStartsRefresh, RefreshSettles, Begin, sync, lock
  <2>2. \/ UNCHANGED phase
        \/ /\ phase[c] \in {"idle", "wait", "settle"}
           /\ \E p \in {"idle", "enter", "wait"} : Goto(c, p)
    BY <1>8, Zenon DEF WaitDelivers, WaitRefreshes, WaitEnds, WaitSleeps,
        WaitStartsRefresh, RefreshSettles, Begin, Awaits
  <2> QED  BY <1>0, <1>1, <2>1, <2>2, MoveWithinPipe DEF HoldsPipe, Goto, PhaseOK
<1>9. CASE Timer \/ Close \/ Closer \/ DeviceChanges \/ DeviceResets \/ Finished
           \/ UNCHANGED vars
  BY <1>1, <1>9, Zenon DEF Timer, PreemptionBudgetEnds, WaitDeadline, RefreshInterval,
     Close, CloseWith, Closer, CloseCancels, CloseReturns, DeviceChanges,
     DeviceResets, Finished, vars, sync, lock
<1>10. ASSUME NEW t \in Threads, PipeStep(t) PROVE OwnerInv'
  BY <1>5, <1>6, <1>10 DEF PipeStep
<1>11. CASE PollerStep
  BY <1>0, <1>2, <1>3, <1>4, <1>10, <1>11 DEF PollerStep
<1>12. ASSUME NEW c \in Clients, Begin(c) \/ ClientStep(c) PROVE OwnerInv'
  <2>1. CASE PipeStep(c) \/ CallWrites(c)
    BY <1>0, <1>5, <1>10, <2>1
  <2> QED  BY <1>7, <1>8, <1>12, <2>1 DEF ClientStep
<1> QED  BY <1>9, <1>11, <1>12 DEF Next

\* The cancellation handshake: a read is registered, cancelled and forgotten
\* only by these steps.
LEMMA NextRead == TypeInv /\ PipeInv /\ [Next]_vars => ReadInv' /\ WaitingRequestCancelsPoll'
<1> SUFFICES ASSUME TypeInv, PipeInv, [Next]_vars
             PROVE  ReadInv' /\ WaitingRequestCancelsPoll'
  OBVIOUS
<1>0. /\ TypeOK /\ PhaseOK /\ Poller \in Threads /\ Clients \subseteq Threads
      /\ Poller \notin Clients /\ fgWaiters \in Nat
  BY ThreadsAssumption DEF TypeInv, TypeOK, SyncOK, Threads
<1> USE DEF PipeInv, ReadInv, WaitingRequestCancelsPoll
<1>1. ASSUME UNCHANGED activeRead, UNCHANGED cancelRequested \/ cancelRequested',
             UNCHANGED fgWaiters \/ fgWaiters' = fgWaiters - 1,
             phase'[Poller] = phase[Poller]
      PROVE  ReadInv' /\ WaitingRequestCancelsPoll'
  BY <1>0, <1>1
<1>2. ASSUME NEW t \in Threads, NEW p, Goto(t, p),
             UNCHANGED <<activeRead, cancelRequested, fgWaiters>>,
             t = Poller => {phase[Poller], p} \cap {"reading", "readdone"} = {}
                           \/ {phase[Poller], p} \subseteq {"reading", "readdone"}
      PROVE  ReadInv' /\ WaitingRequestCancelsPoll'
  BY <1>0, <1>2, Zenon DEF Goto, PhaseOK
<1>3. CASE \/ PollerStarts \/ PollerNaps \/ AcquirePoller \/ PollerSends
           \/ PollerChecksClosed \/ PollReadDelivers \/ PollReadFails
  <2>1. UNCHANGED <<activeRead, cancelRequested, fgWaiters>>
    BY <1>3, Zenon DEF PollerStarts, PollerNaps, AcquirePoller, PollerSends,
        PollerChecksClosed, PollReadDelivers, PollReadFails, sync, lock, cancel
  <2>2. \/ UNCHANGED phase
        \/ /\ phase[Poller] \in {"top", "nap", "acquire", "call", "listen"}
           /\ \E p \in {"top", "acquire", "done", "call", "listen", "begin", "release"} :
                Goto(Poller, p)
        \/ phase[Poller] = "reading" /\ Goto(Poller, "readdone")
    BY <1>3, Zenon DEF PollerStarts, PollerNaps, AcquirePoller, PollerSends,
        PollerChecksClosed, PollReadDelivers, PollReadFails
  <2> QED  BY <1>0, <1>1, <1>2, <2>1, <2>2
<1>4. CASE PollerRegistersRead
  BY <1>0, <1>4, Zenon DEF PollerRegistersRead, CancelOnRegister, Goto, PhaseOK, lock
<1>5. CASE PollerUnregistersRead
  BY <1>0, <1>5 DEF PollerUnregistersRead, Goto, PhaseOK, lock, TypeOK, PollOK
<1>6. ASSUME NEW t \in Threads,
             OpenSession(t) \/ CallFails(t) \/ CallReads(t) \/ TakePayload(t) \/ Publish(t)
      PROVE  ReadInv' /\ WaitingRequestCancelsPoll'
  <2>1. UNCHANGED <<activeRead, cancelRequested, fgWaiters>>
    BY <1>6, Zenon DEF OpenSession, CallFails, CallReads, TakePayload, Publish,
        sync, lock, cancel
  <2>2. \/ UNCHANGED phase
        \/ /\ phase[t] \in {"call", "reply", "publish"}
           /\ \E p \in {"call", "reply", "publish", "release"} : Goto(t, p)
    BY <1>6, Zenon DEF OpenSession, CallFails, CallReads, TakePayload, Publish
  <2> QED  BY <1>1, <1>2, <2>1, <2>2
<1>7. ASSUME NEW t \in Threads, ReleaseIo(t)
      PROVE  ReadInv' /\ WaitingRequestCancelsPoll'
  <2>1. phase[t] = "release" /\ ~activeRead' /\ Goto(t, AfterRelease(t))
        /\ AfterRelease(t) \in {"nap", "settle", "idle"}
    BY <1>7 DEF ReleaseIo, AfterRelease
  <2>2. phase[Poller] \notin {"reading", "readdone"}
    BY <1>0, <2>1 DEF OwnerInv, HoldsPipe, Threads
  <2> QED  BY <1>0, <2>1, <2>2 DEF Goto, PhaseOK
<1>8. ASSUME NEW c \in Clients, EnterForeground(c) \/ RetryForeground(c)
      PROVE  ReadInv' /\ WaitingRequestCancelsPoll'
  <2>0. UNCHANGED activeRead
    BY <1>8 DEF EnterForeground, RetryForeground
  <2>1. ASSUME NEW w, Grant(c, w) PROVE ReadInv' /\ WaitingRequestCancelsPoll'
    <3>1. ~activeRead
      BY <2>1 DEF Grant, OwnerInv, HoldsPipe
    <3>2. phase'[Poller] = phase[Poller]
      BY <1>0, <2>1 DEF Grant, Goto, PhaseOK
    <3> QED  BY <2>0, <3>1, <3>2
  <2>2. ASSUME NEW w, NEW S, SleepForIo(c, w, S)
        PROVE  ReadInv' /\ WaitingRequestCancelsPoll'
    <3>1. activeRead => cancelRequested'
      BY <2>2 DEF SleepForIo, PreemptPoller, CancelWanted, OwnerInv, HoldsPipe
    <3>2. phase'[Poller] = phase[Poller]
      BY <1>0, <2>2 DEF SleepForIo, Goto, PhaseOK
    <3> QED  BY <2>0, <3>1, <3>2
  <2>3. ASSUME NEW w, GiveUp(c, w) PROVE ReadInv' /\ WaitingRequestCancelsPoll'
    <3>1. activeRead => cancelRequested'
      BY <2>3 DEF GiveUp, CancelWanted
    <3>2. phase'[Poller] = phase[Poller]
      BY <1>0, <2>3 DEF GiveUp, Goto, PhaseOK
    <3> QED  BY <2>0, <3>1, <3>2
  <2> QED  BY <1>8, <2>1, <2>2, <2>3 DEF EnterForeground, RetryForeground
<1>9. ASSUME NEW c \in Clients,
             \/ Begin(c) \/ WaitDelivers(c) \/ WaitRefreshes(c) \/ WaitEnds(c) \/ CallWrites(c)
             \/ WaitSleeps(c) \/ WaitStartsRefresh(c) \/ RefreshSettles(c)
      PROVE  ReadInv' /\ WaitingRequestCancelsPoll'
  <2>1. UNCHANGED <<activeRead, cancelRequested, fgWaiters>>
    BY <1>9, Zenon DEF WaitDelivers, WaitRefreshes, WaitEnds, CallWrites, WaitSleeps,
        WaitStartsRefresh, RefreshSettles, Begin, sync, lock, cancel
  <2>2. UNCHANGED phase \/ \E p : Goto(c, p)
    BY <1>9, Zenon DEF WaitDelivers, WaitRefreshes, WaitEnds, CallWrites, WaitSleeps,
        WaitStartsRefresh, RefreshSettles, Begin
  <2> QED  BY <1>0, <1>1, <1>2, <2>1, <2>2
<1>10. CASE Timer \/ Close \/ Closer \/ DeviceChanges \/ DeviceResets \/ Finished
            \/ UNCHANGED vars
  <2>1. UNCHANGED <<activeRead, fgWaiters, phase>>
    BY <1>10, Zenon DEF Timer, PreemptionBudgetEnds, WaitDeadline, RefreshInterval,
       Close, CloseWith, Closer, CloseCancels, CloseReturns, DeviceChanges,
       DeviceResets, Finished, vars, sync, lock, cancel
  <2>2. UNCHANGED cancelRequested \/ cancelRequested'
    BY <1>10, Zenon DEF Timer, PreemptionBudgetEnds, WaitDeadline, RefreshInterval,
       Close, CloseWith, Closer, CloseCancels, CloseReturns, DeviceChanges,
       DeviceResets, Finished, vars, sync, lock, cancel
  <2> QED  BY <1>1, <2>1, <2>2
<1>11. ASSUME NEW t \in Threads, PipeStep(t)
       PROVE  ReadInv' /\ WaitingRequestCancelsPoll'
  BY <1>6, <1>7, <1>11, Zenon DEF PipeStep
<1>12. CASE PollerStep
  BY <1>0, <1>3, <1>4, <1>5, <1>11, <1>12 DEF PollerStep
<1>13. ASSUME NEW c \in Clients, Begin(c) \/ ClientStep(c)
       PROVE  ReadInv' /\ WaitingRequestCancelsPoll'
  BY <1>0, <1>8, <1>9, <1>11, <1>13, Zenon DEF ClientStep
<1> QED  BY <1>10, <1>12, <1>13 DEF Next

\* The inductive invariant of the pipe: _io_owner names the one thread inside a
\* datastore call, and _active_poll_read is set only while the poller reads.
THEOREM PipeInvariant == Spec => []PipeInv
<1>1. TypeInv /\ PipeInv /\ [Next]_vars => PipeInv'
  BY NextOwner, NextRead DEF PipeInv, TypeInv
<1> QED  BY <1>1, InitPipeInv, TypeCorrect, PTL DEF Spec

\* No two threads are ever inside a datastore operation or between its
\* response and its publication (_io_busy, _io_owner), for any number of
\* request threads.
THEOREM PipeIsExclusive == Spec => []PipeExclusive
<1>1. PipeInv => PipeExclusive
  BY DEF PipeInv, OwnerInv, PipeExclusive, Threads
<1> QED  BY <1>1, PipeInvariant, PTL

\* Whichever comes first, a waiting request or the registration of a poll read,
\* the read is asked to cancel (_set_active_poll_read, _acquire_foreground_io).
THEOREM WaitingCancels == Spec => []WaitingRequestCancelsPoll
<1>1. PipeInv => WaitingRequestCancelsPoll
  BY DEF PipeInv
<1> QED  BY <1>1, PipeInvariant, PTL

-----------------------------------------------------------------------------
(* Threads that wait.                                                       *)


\* Only the three loops around condition.wait sleep.
SleepInv == \A t \in asleep : phase[t] = "acquire" \/ (t # Poller /\ phase[t] = "wait")

WakeInv == SleepInv /\ NoLostWakeup

LEMMA InitWakeInv == Init => WakeInv
BY DEF Init, WakeInv, SleepInv, NoLostWakeup

\* A notify_all leaves nobody to wake.
LEMMA NotifyAll == asleep' = {} => WakeInv'
BY DEF WakeInv, SleepInv, NoLostWakeup

LEMMA OutcomeFrame ==
  ASSUME NEW s, UNCHANGED <<latest, history>>, ask'[s] = ask[s]
  PROVE  Outcome(s)' = Outcome(s)
BY DEF Outcome, WaitOutcome, Visible, Matches, Ident

\* A step of t that wakes no more than it has to: nothing the other sleepers
\* wait for happens in it.
LEMMA QuietStep ==
  ASSUME TypeOK, WakeInv, NEW t \in Threads, t \notin asleep', asleep' \subseteq asleep,
         UNCHANGED phase \/ \E p : Goto(t, p),
         UNCHANGED <<closed, latest, history>>,
         \A s \in Clients \ {t} : ask'[s] = ask[s] /\ (s \in expired' => s \in expired),
         ioOwner' = "none" => ioOwner = "none" /\ fgWaiters' = fgWaiters,
         degradedBusy => degradedBusy'
  PROVE  WakeInv'
<1>1. ASSUME NEW s \in asleep'
      PROVE  s \in asleep /\ s # t /\ s \in Threads /\ phase'[s] = phase[s]
  BY <1>1 DEF TypeOK, SyncOK, PhaseOK, Goto
<1>2. SleepInv'
  BY <1>1 DEF WakeInv, SleepInv
<1>3. ASSUME NEW s \in asleep', s = Poller PROVE ~closed' /\ ~PollerMayAcquire'
  BY <1>1, <1>3 DEF WakeInv, NoLostWakeup, PollerMayAcquire
<1>4. ASSUME NEW s \in asleep', s # Poller, phase'[s] = "acquire" PROVE ioOwner' # "none"
  BY <1>1, <1>4, Zenon DEF WakeInv, NoLostWakeup
<1>5. ASSUME NEW s \in asleep', s # Poller, phase'[s] # "acquire"
      PROVE  /\ Outcome(s)' = "stay" /\ ~MustEnd(s)'
             /\ NativeLongPoll \/ degradedBusy'
  <2>1. s \in Clients \ {t}
    BY <1>1, <1>5 DEF Threads
  <2>2. Outcome(s)' = Outcome(s)
    BY <2>1, OutcomeFrame
  <2> QED  BY <1>1, <1>5, <2>1, <2>2, Zenon DEF WakeInv, NoLostWakeup, MustEnd
<1> QED  BY <1>2, <1>3, <1>4, <1>5, Zenon DEF WakeInv, NoLostWakeup

LEMMA NextWake == TypeOK /\ WakeInv /\ [Next]_vars => WakeInv'
<1> SUFFICES ASSUME TypeOK, WakeInv, [Next]_vars PROVE WakeInv'
  OBVIOUS
<1>0. /\ Poller \in Threads /\ Clients \subseteq Threads /\ Poller \notin Clients
      /\ asleep \subseteq Threads
  BY ThreadsAssumption DEF TypeOK, SyncOK, Threads
<1>1. ASSUME UNCHANGED <<sync, latest, history, ask, expired, degradedBusy>>,
             NEW t \in Threads, t \notin asleep, UNCHANGED phase \/ \E p : Goto(t, p)
      PROVE  WakeInv'
  BY <1>1, QuietStep DEF sync, lock
<1>2. CASE \/ PollerStarts \/ PollerNaps \/ PollerSends \/ PollerChecksClosed
           \/ PollReadDelivers \/ PollReadFails
  <2>1. UNCHANGED <<sync, latest, history, ask, expired, degradedBusy>>
    BY <1>2, Zenon DEF PollerStarts, PollerNaps, PollerSends, PollerChecksClosed,
        PollReadDelivers, PollReadFails, rest, etags, degr, local, client, req
  <2>2. Poller \notin asleep /\ \E p : Goto(Poller, p)
    BY <1>2 DEF PollerStarts, PollerNaps, PollerSends, PollerChecksClosed,
        PollReadDelivers, PollReadFails, WakeInv, SleepInv
  <2> QED  BY <1>0, <1>1, <2>1, <2>2
<1>3. CASE PollerRegistersRead \/ PollerUnregistersRead \/ Close
  BY <1>3, NotifyAll
  DEF PollerRegistersRead, PollerUnregistersRead, Close, CloseWith
<1>4. CASE AcquirePoller
  <2>0. UNCHANGED <<closed, latest, history, ask, expired, degradedBusy, fgWaiters>>
        /\ Poller \notin asleep /\ phase[Poller] = "acquire"
    BY <1>4 DEF AcquirePoller, rest, etags, degr, local, req
  <2>1. CASE UNCHANGED asleep
    BY <1>0, <1>4, <2>0, <2>1, QuietStep, Zenon DEF AcquirePoller, PollerMayAcquire
  <2>2. CASE asleep' = asleep \cup {Poller} /\ UNCHANGED <<ioOwner, phase>>
    <3>1. ~closed /\ ~PollerMayAcquire
      BY <1>4, <2>0, <2>2, Zenon DEF AcquirePoller
    <3>2. SleepInv'
      BY <2>0, <2>2 DEF WakeInv, SleepInv
    <3>3. \A s \in asleep : s # Poller => Outcome(s)' = Outcome(s)
      BY <2>0, OutcomeFrame
    <3> QED  BY <2>0, <2>2, <3>1, <3>2, <3>3, Zenon
             DEF WakeInv, NoLostWakeup, PollerMayAcquire, MustEnd
  <2> QED  BY <1>4, <2>1, <2>2, Zenon DEF AcquirePoller
<1>5. ASSUME NEW t \in Threads, OpenSession(t) \/ CallFails(t) \/ CallReads(t) \/ CallWrites(t)
      PROVE  WakeInv'
  <2>1. UNCHANGED <<sync, latest, history, ask, expired, degradedBusy>>
    BY <1>5, Zenon DEF OpenSession, CallFails, CallReads, CallWrites, rest, etags, degr,
        local, client, req
  <2>2. t \notin asleep /\ (UNCHANGED phase \/ \E p : Goto(t, p))
    BY <1>5, Zenon DEF OpenSession, CallFails, CallReads, CallWrites, WakeInv, SleepInv
  <2> QED  BY <1>1, <2>1, <2>2
<1>6. ASSUME NEW t \in Threads, TakePayload(t) \/ Publish(t) PROVE WakeInv'
  <2>1. CASE asleep' = {}
    BY <2>1, NotifyAll
  <2>2. CASE UNCHANGED <<latest, history, asleep>>
    <3>1. UNCHANGED <<sync, ask, expired, degradedBusy>>
      BY <1>6, <2>2, Zenon DEF TakePayload, Publish, sync, degr, local, req
    <3>2. t \notin asleep /\ \E p : Goto(t, p)
      BY <1>6, Zenon DEF TakePayload, Publish, WakeInv, SleepInv
    <3> QED  BY <1>1, <2>2, <3>1, <3>2
  <2> QED  BY <1>6, <2>1, <2>2, Zenon
           DEF TakePayload, Publish, ResetOnNewSession, SleepersAfterPublish, etags
<1>7. ASSUME NEW t \in Threads, ReleaseIo(t) PROVE WakeInv'
  BY <1>7, NotifyAll, Zenon DEF ReleaseIo, SleepersAfterRelease
<1>8. ASSUME NEW c \in Clients, EnterForeground(c) PROVE WakeInv'
  <2>1. CASE Grant(c, fgWaiters + 1)
    BY <2>1, NotifyAll DEF Grant
  <2>2. CASE SleepForIo(c, fgWaiters + 1, {})
    <3>1. asleep' = {c} /\ phase'[c] = "acquire" /\ ioOwner' # "none"
      BY <1>0, <2>2 DEF SleepForIo, Goto, TypeOK, PhaseOK
    <3> QED  BY <1>0, <3>1 DEF WakeInv, SleepInv, NoLostWakeup
  <2> QED  BY <1>8, <2>1, <2>2 DEF EnterForeground
<1>9. ASSUME NEW c \in Clients, RetryForeground(c) PROVE WakeInv'
  <2>1. CASE Grant(c, fgWaiters) \/ GiveUp(c, fgWaiters)
    BY <2>1, NotifyAll DEF Grant, GiveUp
  <2>2. CASE SleepForIo(c, fgWaiters, asleep)
    <3>0. UNCHANGED <<closed, latest, history, ask, expired, degradedBusy>>
      BY <1>9 DEF RetryForeground, rest, etags, degr
    <3>1. asleep' = asleep \cup {c} /\ phase' = phase /\ phase[c] = "acquire"
          /\ ioOwner' # "none" /\ UNCHANGED ioOwner
      BY <1>0, <1>9, <2>2 DEF RetryForeground, SleepForIo, Goto, TypeOK, PhaseOK
    <3>2. SleepInv'
      BY <3>1 DEF WakeInv, SleepInv
    <3>3. \A s \in asleep : Outcome(s)' = Outcome(s)
      BY <3>0, OutcomeFrame
    <3> QED  BY <1>0, <3>0, <3>1, <3>2, <3>3
             DEF WakeInv, NoLostWakeup, PollerMayAcquire, MustEnd
  <2> QED  BY <1>9, <2>1, <2>2 DEF RetryForeground
<1>10. ASSUME NEW c \in Clients,
              Begin(c) \/ WaitDelivers(c) \/ WaitRefreshes(c) \/ WaitEnds(c)
              \/ WaitStartsRefresh(c)
       PROVE  WakeInv'
  <2>1. UNCHANGED <<sync, latest, history>> /\ (degradedBusy => degradedBusy')
    <3>1. CASE Begin(c)
      <4>1. UNCHANGED rest /\ UNCHANGED sync
        BY <3>1, Zenon DEF Begin
      <4> QED  BY <4>1 DEF rest, etags, degr
    <3>2. CASE WaitDelivers(c) \/ WaitRefreshes(c) \/ WaitEnds(c)
      <4>1. UNCHANGED rest /\ UNCHANGED sync
        BY <3>2, Zenon DEF WaitDelivers, WaitRefreshes, WaitEnds
      <4> QED  BY <4>1 DEF rest, etags, degr
    <3>3. CASE WaitStartsRefresh(c)
      BY <3>3 DEF WaitStartsRefresh, rest, etags, degr
    <3> QED  BY <1>10, <3>1, <3>2, <3>3
  <2>2. c \notin asleep /\ \E p : Goto(c, p)
    BY <1>10, Zenon DEF Begin, WaitDelivers, WaitRefreshes, WaitEnds, WaitStartsRefresh,
        Awaits, WakeInv, SleepInv
  <2>3. \A s \in Clients \ {c} : ask'[s] = ask[s] /\ (s \in expired' => s \in expired)
    BY <1>10, Zenon DEF Begin, WaitDelivers, WaitRefreshes, WaitEnds, WaitStartsRefresh,
        local, req, TypeOK, ClientOK
  <2> QED  BY <1>0, <2>1, <2>2, <2>3, QuietStep DEF sync, lock
<1>11. ASSUME NEW c \in Clients, WaitSleeps(c) PROVE WakeInv'
  <2>0. UNCHANGED <<lock, latest, history, ask, expired, degradedBusy, phase>>
    BY <1>11 DEF WaitSleeps, rest, etags, degr, local, req
  <2>1. /\ asleep' = asleep \cup {c} /\ phase[c] = "wait" /\ Outcome(c) = "stay"
        /\ ~MustEnd(c) /\ (NativeLongPoll \/ degradedBusy)
    BY <1>11 DEF WaitSleeps, Awaits
  <2>2. SleepInv'
    BY <1>0, <2>0, <2>1 DEF WakeInv, SleepInv
  <2>3. \A s \in asleep \cup {c} : Outcome(s)' = Outcome(s)
    BY <2>0, OutcomeFrame
  <2> QED  BY <1>0, <2>0, <2>1, <2>2, <2>3
           DEF WakeInv, NoLostWakeup, PollerMayAcquire, MustEnd, lock
<1>12. ASSUME NEW c \in Clients, RefreshSettles(c) PROVE WakeInv'
  BY <1>12, NotifyAll DEF RefreshSettles
<1>13. ASSUME NEW c \in Clients, PreemptionBudgetEnds(c) \/ WaitDeadline(c) PROVE WakeInv'
  <2>1. UNCHANGED <<lock, latest, history, phase, degradedBusy, ask>>
    BY <1>13 DEF PreemptionBudgetEnds, WaitDeadline, rest, etags, degr, req
  <2>2. \A s \in Clients \ {c} : s \in expired' => s \in expired
    BY <1>13 DEF PreemptionBudgetEnds, WaitDeadline, req
  <2>3. CASE asleep' = asleep \ {c}
    BY <1>0, <2>1, <2>2, <2>3, QuietStep DEF lock
  <2>4. CASE WaitDeadline(c) /\ phase[c] # "wait"
    <3>1. asleep' = asleep
      BY <2>4 DEF WaitDeadline
    <3>2. \A s \in asleep : phase[s] = "acquire" \/ s # c
      BY <2>4 DEF WakeInv, SleepInv
    <3>3. \A s \in asleep : Outcome(s)' = Outcome(s)
      BY <2>1, OutcomeFrame
    <3> QED  BY <1>0, <2>1, <2>2, <3>1, <3>2, <3>3
             DEF WakeInv, SleepInv, NoLostWakeup, PollerMayAcquire, MustEnd, lock, Threads
  <2> QED  BY <1>13, <2>3, <2>4 DEF PreemptionBudgetEnds, WaitDeadline
<1>14. CASE \/ RefreshInterval \/ Closer \/ DeviceChanges \/ DeviceResets \/ Finished
            \/ UNCHANGED vars
  <2>1. UNCHANGED <<closed, ioOwner, fgWaiters, asleep, latest, history, ask, expired, degradedBusy, phase>>
    BY <1>14, Zenon DEF RefreshInterval, Closer, CloseCancels, CloseReturns, DeviceChanges,
       DeviceResets, Finished, vars, sync, lock, rest, etags, degr, local, req
  <2>2. \A s \in asleep : Outcome(s)' = Outcome(s)
    BY <2>1, OutcomeFrame
  <2> QED  BY <2>1, <2>2 DEF WakeInv, SleepInv, NoLostWakeup, PollerMayAcquire, MustEnd
<1>15. ASSUME NEW t \in Threads, PipeStep(t) PROVE WakeInv'
  BY <1>5, <1>6, <1>7, <1>15 DEF PipeStep
<1>16. CASE PollerStep
  BY <1>0, <1>2, <1>3, <1>4, <1>15, <1>16 DEF PollerStep
<1>17. ASSUME NEW c \in Clients, Begin(c) \/ ClientStep(c) PROVE WakeInv'
  BY <1>0, <1>5, <1>8, <1>9, <1>10, <1>11, <1>12, <1>15, <1>17 DEF ClientStep
<1> QED  BY <1>3, <1>13, <1>14, <1>16, <1>17 DEF Next, Timer

\* A thread inside condition.wait that nobody has notified has nothing to do:
\* the poller may not take the pipe and the proxy is open, a request finds the
\* pipe busy, and a wait_for_change has nothing to deliver.
THEOREM WakeupsAreNotLost == Spec => []NoLostWakeup
<1>1. WakeInv => NoLostWakeup
  BY DEF WakeInv
<1>2. Spec => []WakeInv
  <2>1. TypeInv /\ WakeInv /\ [Next]_vars => WakeInv'
    BY NextWake DEF TypeInv
  <2> QED  BY <2>1, InitWakeInv, TypeCorrect, PTL DEF Spec
<1> QED  BY <1>1, <1>2, PTL

-----------------------------------------------------------------------------
RefreshInv ==
  /\ DegradedRefreshIsSingle
  /\ \A c \in Clients : phase[c] = "settle" => job[c] = "degraded"

LEMMA InitRefreshInv == Init => RefreshInv
BY DEF Init, RefreshInv, DegradedRefreshIsSingle, Refreshing, Threads

\* Steps that neither start nor settle a refresh.
LEMMA RefreshFrame ==
  ASSUME RefreshInv, UNCHANGED degradedBusy,
         \A c \in Clients : /\ Refreshing(c)' <=> Refreshing(c)
                            /\ phase'[c] = "settle" => job'[c] = "degraded"
  PROVE  RefreshInv'
BY DEF RefreshInv, DegradedRefreshIsSingle

LEMMA NextRefresh == TypeOK /\ RefreshInv /\ [Next]_vars => RefreshInv'
<1> SUFFICES ASSUME TypeOK, RefreshInv, [Next]_vars PROVE RefreshInv'
  OBVIOUS
<1>0. /\ Clients \subseteq Threads /\ Poller \notin Clients /\ Poller \in Threads
      /\ PhaseOK /\ ClientOK
  BY ThreadsAssumption DEF TypeOK, Threads
<1>1. ASSUME UNCHANGED <<degradedBusy, job>>, UNCHANGED phase \/ \E p : Goto(Poller, p)
      PROVE  RefreshInv'
  <2>1. \A c \in Clients : phase'[c] = phase[c]
    BY <1>0, <1>1 DEF Goto, PhaseOK
  <2> QED  BY <1>1, <2>1, RefreshFrame DEF Refreshing, RefreshInv
<1>2. CASE PollerStep
  <2>1. UNCHANGED <<degradedBusy, job>>
    BY <1>2, Zenon DEF PollerStep, PipeStep, PollerStarts, AcquirePoller, PollerSends,
     PollerChecksClosed, PollerRegistersRead, PollReadDelivers, PollReadFails,
     PollerUnregistersRead, PollerNaps, OpenSession, CallFails, CallReads, TakePayload,
     Publish, ReleaseIo, rest, degr, local, client, req
  <2>2. UNCHANGED phase \/ \E p : Goto(Poller, p)
    BY <1>2, Zenon DEF PollerStep, PipeStep, PollerStarts, AcquirePoller, PollerSends,
     PollerChecksClosed, PollerRegistersRead, PollReadDelivers, PollReadFails,
     PollerUnregistersRead, PollerNaps, OpenSession, CallFails, CallReads, TakePayload,
     Publish, ReleaseIo
  <2> QED  BY <1>1, <2>1, <2>2
<1>3. ASSUME NEW c \in Clients, NEW p, Goto(c, p),
             UNCHANGED degradedBusy,
             UNCHANGED job \/ \E r : job' = [job EXCEPT ![c] = r],
             (phase[c] \notin {"idle", "wait"} /\ job[c] = "degraded")
               <=> (p \notin {"idle", "wait"} /\ job'[c] = "degraded"),
             p = "settle" => job'[c] = "degraded"
      PROVE  RefreshInv'
  <2>1. phase'[c] = p /\ \A b \in Clients \ {c} : phase'[b] = phase[b] /\ job'[b] = job[b]
    BY <1>0, <1>3 DEF Goto, PhaseOK, ClientOK
  <2> QED  BY <1>3, <2>1, RefreshFrame, Zenon DEF Refreshing, RefreshInv
<1>4. ASSUME NEW c \in Clients,
             \/ CallFails(c) \/ CallReads(c) \/ TakePayload(c) \/ Publish(c)
             \/ ReleaseIo(c) \/ CallWrites(c)
      PROVE  RefreshInv'
  <2>1. /\ UNCHANGED degradedBusy
        /\ phase[c] \in {"call", "reply", "publish", "release"}
    BY <1>4, Zenon DEF CallFails, CallReads, TakePayload, Publish, ReleaseIo, CallWrites, rest, degr
  <2>2. CASE ReleaseIo(c)
    <3>1. UNCHANGED job /\ Goto(c, AfterRelease(c))
      BY <2>2, Zenon DEF ReleaseIo
    <3>2. IF job[c] = "degraded" THEN AfterRelease(c) = "settle" ELSE AfterRelease(c) = "idle"
      BY <1>0 DEF AfterRelease
    <3> QED  BY <1>3, <2>1, <3>1, <3>2
  <2>3. CASE TakePayload(c)
    <3>1. \/ Goto(c, "publish") /\ UNCHANGED job
          \/ Goto(c, "call") /\ job[c] = "post" /\ job' = [job EXCEPT ![c] = "postread"]
      BY <2>3 DEF TakePayload
    <3> QED  BY <1>0, <1>3, <2>1, <3>1, Zenon DEF ClientOK
  <2>4. CASE CallFails(c) \/ CallReads(c) \/ Publish(c) \/ CallWrites(c)
    <3>1. UNCHANGED job /\ \E p \in {"release", "reply"} : Goto(c, p)
      BY <2>4, Zenon DEF CallFails, CallReads, Publish, CallWrites, local, client, req
    <3> QED  BY <1>3, <2>1, <3>1
  <2> QED  BY <1>4, <2>2, <2>3, <2>4
<1>5. ASSUME NEW c \in Clients, EnterForeground(c) \/ RetryForeground(c)
      PROVE  RefreshInv'
  <2>1. UNCHANGED <<degradedBusy, job>> /\ phase[c] \in {"enter", "acquire"}
    BY <1>5 DEF EnterForeground, RetryForeground, rest, degr
  <2>2. \/ Goto(c, "call") \/ Goto(c, "acquire")
        \/ Goto(c, IF job[c] = "degraded" THEN "settle" ELSE "idle")
    BY <1>5, Zenon DEF EnterForeground, RetryForeground, Grant, SleepForIo, GiveUp
  <2> QED  BY <1>3, <2>1, <2>2
<1>6. ASSUME NEW c \in Clients, Begin(c) PROVE RefreshInv'
  <2>1. UNCHANGED degradedBusy /\ phase[c] = "idle"
    BY <1>6, Zenon DEF Begin, rest, degr
  <2>2. \/ Goto(c, "wait") /\ UNCHANGED job
        \/ \E r \in Requests : Goto(c, "enter") /\ job' = [job EXCEPT ![c] = r]
    BY <1>6, Zenon DEF Begin
  <2> QED  BY <1>0, <1>3, <2>1, <2>2, BoundsAssumption, Zenon DEF ClientOK, Waits
<1>7. ASSUME NEW c \in Clients, WaitDelivers(c) \/ WaitRefreshes(c) \/ WaitEnds(c)
      PROVE  RefreshInv'
  <2>1. UNCHANGED degradedBusy /\ phase[c] = "wait"
    BY <1>7, Zenon DEF WaitDelivers, WaitRefreshes, WaitEnds, Awaits, rest, degr
  <2>2. \/ Goto(c, "idle") /\ UNCHANGED job
        \/ \E r \in {"read", "other"} : Goto(c, "enter") /\ job' = [job EXCEPT ![c] = r]
    BY <1>7, Zenon DEF WaitDelivers, WaitRefreshes, WaitEnds, local, req
  <2> QED  BY <1>0, <1>3, <2>1, <2>2 DEF ClientOK
<1>8. ASSUME NEW c \in Clients, WaitStartsRefresh(c) PROVE RefreshInv'
  <2>1. /\ phase[c] = "wait" /\ ~degradedBusy /\ degradedBusy'
        /\ job' = [job EXCEPT ![c] = "degraded"] /\ Goto(c, "enter")
    BY <1>8 DEF WaitStartsRefresh, Awaits, RefreshFree
  <2>2. Refreshing(c)' /\ \A b \in Clients \ {c} : ~Refreshing(b)'
    BY <1>0, <2>1 DEF Refreshing, RefreshInv, DegradedRefreshIsSingle, Goto, PhaseOK, ClientOK
  <2>3. \A b \in Clients : phase'[b] = "settle" => job'[b] = "degraded"
    BY <1>0, <2>1 DEF RefreshInv, Goto, PhaseOK, ClientOK
  <2> QED  BY <2>1, <2>2, <2>3, Zenon DEF RefreshInv, DegradedRefreshIsSingle
<1>9. ASSUME NEW c \in Clients, RefreshSettles(c) PROVE RefreshInv'
  <2>1. /\ phase[c] = "settle" /\ ~degradedBusy' /\ UNCHANGED job
        /\ \E p \in {"idle", "wait"} : Goto(c, p)
    BY <1>9, Zenon DEF RefreshSettles, local, req
  <2>2. Refreshing(c)
    BY <2>1 DEF RefreshInv, Refreshing
  <2>3. \A b \in Clients : ~Refreshing(b)'
    BY <1>0, <2>1, <2>2 DEF Refreshing, RefreshInv, DegradedRefreshIsSingle, Goto, PhaseOK
  <2>4. \A b \in Clients : phase'[b] = "settle" => job'[b] = "degraded"
    BY <1>0, <2>1 DEF RefreshInv, Goto, PhaseOK
  <2> QED  BY <2>1, <2>3, <2>4, Zenon DEF RefreshInv, DegradedRefreshIsSingle
<1>10. CASE \/ Timer \/ Close \/ Closer \/ DeviceChanges \/ DeviceResets \/ Finished
            \/ UNCHANGED vars \/ \E t \in Threads : OpenSession(t)
            \/ \E c \in Clients : WaitSleeps(c)
  <2>1. UNCHANGED <<degradedBusy, job, phase>>
    BY <1>10, Zenon DEF Timer, PreemptionBudgetEnds, WaitDeadline, RefreshInterval, Close,
       CloseWith, Closer, CloseCancels, CloseReturns, DeviceChanges, DeviceResets,
       OpenSession, WaitSleeps, Finished, vars, rest, degr, local, req
  <2> QED  BY <1>1, <2>1
<1>11. ASSUME NEW c \in Clients, Begin(c) \/ ClientStep(c) PROVE RefreshInv'
  <2>1. CASE PipeStep(c)
    BY <1>0, <1>4, <1>10, <2>1 DEF PipeStep
  <2> QED  BY <1>4, <1>5, <1>6, <1>7, <1>8, <1>9, <1>10, <1>11, <2>1 DEF ClientStep
<1> QED  BY <1>2, <1>10, <1>11 DEF Next

\* Single flight: _degraded_refresh_in_progress is set exactly while one
\* client is between taking it and its finally clause.
THEOREM RefreshIsSingle == Spec => []DegradedRefreshIsSingle
<1>1. RefreshInv => DegradedRefreshIsSingle
  BY DEF RefreshInv
<1>2. Spec => []RefreshInv
  <2>1. TypeInv /\ RefreshInv /\ [Next]_vars => RefreshInv'
    BY NextRefresh DEF TypeInv
  <2> QED  BY <2>1, InitRefreshInv, TypeCorrect, PTL DEF Spec
<1> QED  BY <1>1, <1>2, PTL
=============================================================================
