------------------------- MODULE CoordinatorTypes -------------------------
(***************************************************************************)
(* Proofs about Coordinator for any number of clients, any history size    *)
(* and any bounds.                                                         *)
(***************************************************************************)
EXTENDS Coordinator, TLAPS, FiniteSetTheorems

\* A leaf of these proofs takes the SMT solver a second or less, on a busy machine
\* more; the leaves that need Zenon say so.
USE SMTT(30)

\* The newest of some entries of a history is one of them.
LEMMA MaxOfSome ==
  ASSUME NEW n \in Nat, NEW S \in SUBSET (1..n), S # {}
  PROVE  Max(S) \in S
<1> DEFINE T == {n - i : i \in S}
           R == OpToRel(<, Nat)
<1>1. T \subseteq Nat /\ T # {}
  <2>1. \A i \in S : n - i \in Nat
    OBVIOUS
  <2>2. PICK i \in S : TRUE
    BY Zenon
  <2>3. n - i \in T
    OBVIOUS
  <2> QED  BY <2>1, <2>3
<1>2. PICK x \in T : \A y \in T : <<y, x>> \notin R
  <2>1. IsWellFoundedOn(R, Nat)
    BY NatLessThanWellFounded, Zenon
  <2> QED  BY <1>1, <2>1, WFMin, Zenon
<1>3. \A y \in T : ~(y < x)
  BY <1>1, <1>2, Zenon DEF OpToRel
<1>4. PICK i \in S : x = n - i
  BY <1>2, Zenon
<1>5. \A j \in S : i >= j
  BY <1>3, <1>4
<1> QED  BY <1>5, Zenon DEF Max

\* The foreground requests that wait for the pipe.
Waiting == {c \in Clients : phase[c] = "acquire"}

\* _foreground_waiters counts them, so it never goes below zero.
WaitersCounted == fgWaiters = Cardinality(Waiting)

TypeInv == TypeOK /\ WaitersCounted

\* The values actions write have the types of the variables they write.
LEMMA EtagTypes ==
  ASSUME TypeOK
  PROVE  NoEtag \in Etags /\ ZeroEtag \in Etags /\ DeviceEtag \in Etags
BY DEF TypeOK, DeviceOK, Etags, NoEtag, ZeroEtag, DeviceEtag

LEMMA ReplyTypes ==
  ASSUME TypeOK
  PROVE  /\ NoReply \in Replies
         /\ PollReply \in Replies
         /\ Reply(DeviceEtag, ZeroEtag, TRUE) \in Replies
<1>1. ASSUME NEW e \in Etags, NEW f \in Etags, NEW b \in BOOLEAN
      PROVE  Reply(e, f, b) \in Replies
  BY DEF Reply, Replies
<1>2. PollReply \in Replies
  <2>1. CASE pollEtag = DeviceEtag
    BY <1>1, <2>1, EtagTypes, Zenon DEF PollReply
  <2>2. CASE pollEtag # DeviceEtag
    BY <1>1, <2>2, EtagTypes, Zenon DEF PollReply, TypeOK, PollOK
  <2> QED  BY <2>1, <2>2
<1> QED  BY <1>1, <1>2, EtagTypes, Zenon DEF NoReply

LEMMA OriginTypes == NoClient \in Origins /\ \A c \in Clients : Ident(c) \in Origins
BY DEF Origins, Ident

LEMMA TransitionTypes ==
  ASSUME TypeOK, NEW t \in Threads
  PROVE  reply[t].etag \in Etags /\ Transition(t) \in Transitions
<1>1. reply[t] \in Replies
  BY DEF TypeOK, ReplyOK
<1>2. Origin(t) \in Origins /\ FromEtag(t) \in Etags
  BY OriginTypes DEF Origin, FromEtag, Threads, TypeOK, PollOK, StateOK
<1> QED  BY <1>1, <1>2 DEF Transition, Transitions, Replies

\* The transition wait_for_change delivers is one of the history.
LEMMA DeliveredTypes ==
  ASSUME TypeOK, NEW e, NEW id, Visible(e, id) # {}
  PROVE  Max(Visible(e, id)) \in Visible(e, id) /\ history[Max(Visible(e, id))].to \in Etags
<1>1. Visible(e, id) \subseteq 1..Len(history)
  BY DEF Visible, Matches, TypeOK, StateOK
<1>2. Max(Visible(e, id)) \in Visible(e, id)
  BY <1>1, MaxOfSome DEF TypeOK, StateOK
<1>3. history[Max(Visible(e, id))] \in Transitions
  BY <1>1, <1>2 DEF TypeOK, StateOK
<1> QED  BY <1>2, <1>3 DEF Transitions

\* A request that waits is counted.
LEMMA WaiterIsCounted ==
  ASSUME TypeInv, NEW c \in Clients, phase[c] = "acquire"
  PROVE  fgWaiters \in Nat \ {0}
<1>1. IsFiniteSet(Waiting) /\ c \in Waiting
  BY FS_Subset, ThreadsAssumption DEF Waiting
<1> QED  BY <1>1, FS_EmptySet, FS_CardinalityType DEF TypeInv, WaitersCounted

LEMMA EmptyHistory == <<>> \in Seq(Transitions) /\ Len(<<>>) <= HistorySize
BY BoundsAssumption

LEMMA InitTypeInv == Init => TypeInv
<1> SUFFICES ASSUME Init PROVE TypeInv
  OBVIOUS
<1> USE ThreadsAssumption, BoundsAssumption DEF Init
<1>1. {NoEtag, ZeroEtag} \subseteq Etags /\ NoReply \in Replies
  BY DEF Etags, NoEtag, ZeroEtag, NoReply, Reply, Replies
<1>2. SyncOK
  BY Zenon DEF SyncOK
<1>3. StateOK
  BY <1>1, EmptyHistory, Zenon DEF StateOK
<1>4. DeviceOK
  BY DEF DeviceOK
<1>5. PhaseOK
  BY DEF PhaseOK, Threads, ClientPhases, PollerPhases
<1>6. PollOK /\ ReplyOK
  BY <1>1 DEF PollOK, ReplyOK
<1>7. ClientOK
  <2>1. DeviceEtag \in Etags
    BY DEF DeviceEtag, Etags
  <2>2. known \in [Clients -> Etags]
    BY <1>1, <2>1
  <2> QED  BY <1>1, <2>2 DEF ClientOK, Waits
<1>8. Waiting = {}
  BY DEF Waiting, Threads
<1>9. WaitersCounted
  BY <1>8, FS_EmptySet DEF WaitersCounted
<1> QED  BY <1>2, <1>3, <1>4, <1>5, <1>6, <1>7, <1>9 DEF TypeInv, TypeOK

\* The deque stays within its maxlen.
LEMMA PushType ==
  ASSUME NEW h \in Seq(Transitions), Len(h) <= HistorySize, NEW x \in Transitions
  PROVE  Push(h, x) \in Seq(Transitions) /\ Len(Push(h, x)) <= HistorySize
<1>1. CASE Len(h) < HistorySize
  BY <1>1, BoundsAssumption DEF Push
<1>2. CASE Len(h) = HistorySize
  <2>1. h # <<>> /\ Tail(h) \in Seq(Transitions) /\ Len(Tail(h)) = Len(h) - 1
    BY <1>2, BoundsAssumption
  <2> QED  BY <1>2, <2>1, BoundsAssumption DEF Push
<1> QED  BY <1>1, <1>2, BoundsAssumption

\* Groups of variables a step leaves alone keep their types.
LEMMA TypeFrame ==
  ASSUME TypeOK
  PROVE  /\ UNCHANGED sync => SyncOK'
         /\ UNCHANGED <<etags, degr, main>> => StateOK'
         /\ UNCHANGED device => DeviceOK'
         /\ UNCHANGED phase => PhaseOK'
         /\ UNCHANGED poll => PollOK'
         /\ UNCHANGED reply => ReplyOK'
         /\ UNCHANGED <<req, deadline>> => ClientOK'
<1> USE DEF TypeOK
<1>1. UNCHANGED sync => SyncOK'
  BY DEF SyncOK, sync, lock, cancel
<1>2. UNCHANGED <<etags, degr, main>> => StateOK'
  BY DEF StateOK, etags, degr, main
<1>3. UNCHANGED device => DeviceOK'
  BY DEF DeviceOK, device
<1>4. UNCHANGED phase => PhaseOK'
  BY DEF PhaseOK
<1>5. UNCHANGED poll => PollOK'
  BY DEF PollOK, poll
<1>6. UNCHANGED reply => ReplyOK'
  BY DEF ReplyOK
<1>7. UNCHANGED <<req, deadline>> => ClientOK'
  BY DEF ClientOK, req
<1> QED  BY <1>1, <1>2, <1>3, <1>4, <1>5, <1>6, <1>7

LEMMA GotoType ==
  ASSUME PhaseOK, NEW t \in Threads, NEW p, Goto(t, p),
         p \in IF t = Poller THEN PollerPhases ELSE ClientPhases
  PROVE  PhaseOK'
BY ThreadsAssumption DEF PhaseOK, Goto, Threads

LEMMA NextTypeOK == TypeInv /\ [Next]_vars => TypeOK'
<1> SUFFICES ASSUME TypeInv, [Next]_vars PROVE TypeOK'
  OBVIOUS
<1>0. TypeOK
  BY DEF TypeInv
<1>1. CASE PollerStarts
  <2>1. PhaseOK'
    BY <1>0, <1>1, GotoType, ThreadsAssumption
    DEF TypeOK, PollerStarts, PhaseOK, Threads, ClientPhases, PollerPhases
  <2>2. PollOK'
    BY <1>0, <1>1, EtagTypes
    DEF TypeOK, PollerStarts, PollOK, StateOK, poll
  <2> QED  BY <1>0, <1>1, TypeFrame, <2>1, <2>2
           DEF TypeOK, PollerStarts, sync, rest, local, client
<1>2. CASE AcquirePoller
  <2>1. SyncOK'
    BY <1>0, <1>2, ThreadsAssumption
    DEF TypeOK, AcquirePoller, SyncOK, Threads, sync, lock, cancel
  <2>2. PhaseOK'
    BY <1>0, <1>2, GotoType, ThreadsAssumption
    DEF TypeOK, AcquirePoller, PhaseOK, Threads, ClientPhases, PollerPhases
  <2> QED  BY <1>0, <1>2, TypeFrame, <2>1, <2>2
           DEF TypeOK, AcquirePoller, sync, rest, local, client
<1>3. CASE PollerSends
  <2>1. PhaseOK'
    BY <1>0, <1>3, GotoType, ThreadsAssumption
    DEF TypeOK, PollerSends, PhaseOK, Threads, ClientPhases, PollerPhases
  <2>2. PollOK'
    BY <1>0, <1>3
    DEF TypeOK, PollerSends, PollOK, poll
  <2> QED  BY <1>0, <1>3, TypeFrame, <2>1, <2>2
           DEF TypeOK, PollerSends, sync, rest, local, client
<1>4. CASE PollerChecksClosed
  <2>1. PhaseOK'
    BY <1>0, <1>4, GotoType, ThreadsAssumption
    DEF TypeOK, PollerChecksClosed, PhaseOK, Threads, ClientPhases, PollerPhases
  <2> QED  BY <1>0, <1>4, TypeFrame, <2>1
           DEF TypeOK, PollerChecksClosed, sync, rest, local, client
<1>5. CASE PollerRegistersRead
  <2>1. SyncOK'
    BY <1>0, <1>5, ThreadsAssumption
    DEF TypeOK, PollerRegistersRead, SyncOK, CancelOnRegister, Threads, sync, lock, cancel
  <2>2. PhaseOK'
    BY <1>0, <1>5, GotoType, ThreadsAssumption
    DEF TypeOK, PollerRegistersRead, PhaseOK, Threads, ClientPhases, PollerPhases
  <2> QED  BY <1>0, <1>5, TypeFrame, <2>1, <2>2
           DEF TypeOK, PollerRegistersRead, sync, rest, local, client
<1>6. CASE PollReadDelivers
  <2>1. PhaseOK'
    BY <1>0, <1>6, GotoType, ThreadsAssumption
    DEF TypeOK, PollReadDelivers, PhaseOK, Threads, ClientPhases, PollerPhases
  <2>2. PollOK'
    BY <1>0, <1>6
    DEF TypeOK, PollReadDelivers, PollOK, poll
  <2>3. ReplyOK'
    BY <1>0, <1>6, ReplyTypes, Zenon
    DEF TypeOK, PollReadDelivers, ReplyOK
  <2> QED  BY <1>0, <1>6, TypeFrame, <2>1, <2>2, <2>3
           DEF TypeOK, PollReadDelivers, sync, rest, local, client
<1>7. CASE PollReadFails
  <2>1. PhaseOK'
    BY <1>0, <1>7, GotoType, ThreadsAssumption
    DEF TypeOK, PollReadFails, PhaseOK, Threads, ClientPhases, PollerPhases
  <2>2. DeviceOK'
    BY <1>0, <1>7
    DEF TypeOK, PollReadFails, DeviceOK, Failure, Fault, device
  <2>3. PollOK'
    BY <1>0, <1>7
    DEF TypeOK, PollReadFails, PollOK, poll
  <2> QED  BY <1>0, <1>7, TypeFrame, <2>1, <2>2, <2>3
           DEF TypeOK, PollReadFails, sync, rest, local, client
<1>8. CASE PollerUnregistersRead
  <2>1. SyncOK'
    BY <1>0, <1>8, ThreadsAssumption, Zenon
    DEF TypeOK, PollerUnregistersRead, SyncOK, Threads, sync, lock, cancel
  <2>2. StateOK'
    BY <1>0, <1>8, Zenon
    DEF TypeOK, PollerUnregistersRead, StateOK, etags, degr, main
  <2>3. PhaseOK'
    BY <1>0, <1>8, GotoType, ThreadsAssumption
    DEF TypeOK, PollerUnregistersRead, PhaseOK, PollOK, Threads, ClientPhases, PollerPhases
  <2>4. PollOK'
    BY <1>0, <1>8 DEF TypeOK, PollerUnregistersRead, PollOK
  <2> QED  BY <1>0, <1>8, TypeFrame, <2>1, <2>2, <2>3, <2>4
           DEF TypeOK, PollerUnregistersRead, sync, rest, local, client
<1>9. CASE PollerNaps
  <2>1. PhaseOK'
    BY <1>0, <1>9, GotoType, ThreadsAssumption
    DEF TypeOK, PollerNaps, PhaseOK, Threads, ClientPhases, PollerPhases
  <2> QED  BY <1>0, <1>9, TypeFrame, <2>1
           DEF TypeOK, PollerNaps, sync, rest, local, client
<1>10. ASSUME NEW t \in Threads, OpenSession(t) PROVE TypeOK'
  <2>1. DeviceOK'
    BY <1>0, <1>10
    DEF TypeOK, OpenSession, NextGeneration, DeviceOK, device
  <2> QED  BY <1>0, <1>10, TypeFrame, <2>1
           DEF TypeOK, OpenSession, sync, rest, local, client
<1>11. ASSUME NEW t \in Threads, CallFails(t) PROVE TypeOK'
  <2>1. DeviceOK'
    <3> USE <1>0, <1>11 DEF TypeOK, DeviceOK, CallFails
    <3>1. sess' \in {"none", "live", "dead"} /\ faults' \in Nat
      BY DEF Failure, Fault
    <3>2. writers' \in Seq(Origins)
      BY OriginTypes DEF Threads
    <3> QED  BY <3>1, <3>2
  <2>2. ClientOK'
    BY <1>0, <1>11, Zenon
    DEF TypeOK, CallFails, ClientOK, client, req
  <2>3. PhaseOK'
    BY <1>0, <1>11, GotoType, ThreadsAssumption, Zenon
    DEF TypeOK, CallFails, PhaseOK, Threads, ClientPhases, PollerPhases
  <2> QED  BY <1>0, <1>11, TypeFrame, <2>1, <2>2, <2>3, Zenon
           DEF TypeOK, CallFails, sync, rest, local, client
<1>12. ASSUME NEW t \in Threads, CallReads(t) PROVE TypeOK'
  <2>1. ReplyOK'
    BY <1>0, <1>12, ReplyTypes, Zenon
    DEF TypeOK, CallReads, ReplyOK
  <2>2. PhaseOK'
    BY <1>0, <1>12, GotoType, ThreadsAssumption, Zenon
    DEF TypeOK, CallReads, PhaseOK, Threads, ClientPhases, PollerPhases
  <2> QED  BY <1>0, <1>12, TypeFrame, <2>1, <2>2, Zenon
           DEF TypeOK, CallReads, sync, rest, local, client
<1>13. ASSUME NEW t \in Threads, TakePayload(t) PROVE TypeOK'
  <2>1. SyncOK'
    BY <1>0, <1>13, ThreadsAssumption, Zenon
    DEF TypeOK, TakePayload, SyncOK, ResetOnNewSession, Threads, sync, lock, cancel
  <2>2. StateOK'
    <3> USE <1>0, <1>13, EtagTypes, EmptyHistory
        DEF TypeOK, DeviceOK, TakePayload, StateOK, ResetOnNewSession, etags, degr, main
    <3>1. CASE coordGen = gen
      BY <3>1
    <3>2. CASE coordGen # gen
      BY <3>2
    <3> QED  BY <3>1, <3>2, Zenon
  <2>3. ClientOK'
    BY <1>0, <1>13
    DEF TypeOK, TakePayload, ClientOK, client, req
  <2>4. PhaseOK'
    BY <1>0, <1>13, GotoType, ThreadsAssumption, Zenon
    DEF TypeOK, TakePayload, PhaseOK, Threads, ClientPhases, PollerPhases
  <2> QED  BY <1>0, <1>13, TypeFrame, <2>1, <2>2, <2>3, <2>4
           DEF TypeOK, TakePayload, sync, rest, local, client
<1>14. ASSUME NEW t \in Threads, Publish(t) PROVE TypeOK'
  <2>1. SyncOK'
    BY <1>0, <1>14, ThreadsAssumption, Zenon
    DEF TypeOK, Publish, SyncOK, SleepersAfterPublish, Threads, sync, lock, cancel
  <2>2. StateOK'
    BY <1>0, <1>14, TransitionTypes, PushType, Zenon
    DEF TypeOK, Publish, StateOK, etags, degr, main
  <2>3. PhaseOK'
    BY <1>0, <1>14, GotoType, ThreadsAssumption, Zenon
    DEF TypeOK, Publish, PhaseOK, Threads, ClientPhases, PollerPhases
  <2> QED  BY <1>0, <1>14, TypeFrame, <2>1, <2>2, <2>3, Zenon
           DEF TypeOK, Publish, sync, rest, local, client
<1>15. ASSUME NEW t \in Threads, ReleaseIo(t) PROVE TypeOK'
  <2>1. SyncOK'
    BY <1>0, <1>15, ThreadsAssumption, Zenon
    DEF TypeOK, ReleaseIo, SyncOK, SleepersAfterRelease, Threads, sync, lock, cancel
  <2>2. PhaseOK'
    BY <1>0, <1>15, GotoType, ThreadsAssumption, Zenon
    DEF TypeOK, ReleaseIo, PhaseOK, AfterRelease, Threads, ClientPhases, PollerPhases
  <2>3. ClientOK'
    BY <1>0, <1>15, TransitionTypes, Zenon
    DEF TypeOK, ReleaseIo, ClientOK, client, req
  <2>4. ReplyOK'
    BY <1>0, <1>15, ReplyTypes, Zenon
    DEF TypeOK, ReleaseIo, ReplyOK
  <2> QED  BY <1>0, <1>15, TypeFrame, <2>1, <2>2, <2>3, <2>4, Zenon
           DEF TypeOK, ReleaseIo, sync, rest, local, client
<1>16. ASSUME NEW c \in Clients, Begin(c) PROVE TypeOK'
  <2>1. ClientOK'
    <3> USE <1>0, <1>16 DEF TypeOK, ClientOK, Begin
    <3>1. ask' \in [Clients -> [path : Waits, etag : Etags]]
      OBVIOUS
    <3>2. job' \in [Clients -> {"none", "read", "other", "post", "postread", "degraded"}]
      BY BoundsAssumption, Zenon DEF Waits
    <3>3. left' \in [Clients -> Nat] /\ result' \in [Clients -> {"ok", "caught", "other"}]
      OBVIOUS
    <3> QED  BY <3>1, <3>2, <3>3, Zenon
  <2>2. PhaseOK'
    BY <1>0, <1>16, GotoType, ThreadsAssumption, Zenon
    DEF TypeOK, Begin, PhaseOK, Threads, ClientPhases, PollerPhases
  <2> QED  BY <1>0, <1>16, TypeFrame, <2>1, <2>2, Zenon
           DEF TypeOK, Begin, sync, rest, local, client
<1>17. ASSUME NEW c \in Clients, EnterForeground(c) PROVE TypeOK'
  <2>1. SyncOK'
    <3> USE <1>0, <1>17 DEF TypeOK, SyncOK, EnterForeground, Threads
    <3>1. CASE Grant(c, fgWaiters + 1)
      BY <3>1 DEF Grant, WaitersAfter
    <3>2. CASE SleepForIo(c, fgWaiters + 1, {})
      <4>1. cancelRequested' \in BOOLEAN /\ readCancelled' \in BOOLEAN
        BY <3>2, Zenon DEF SleepForIo, PreemptPoller
      <4>2. fgWaiters' = fgWaiters + 1 /\ asleep' = {c} /\ ioOwner' = ioOwner
        BY <3>2, Zenon DEF SleepForIo
      <4> QED  BY <4>1, <4>2
    <3> QED  BY <3>1, <3>2
  <2>2. ClientOK'
    BY <1>0, <1>17, Zenon
    DEF TypeOK, EnterForeground, ClientOK, Grant, SleepForIo, PreemptPoller, client, req
  <2>3. PhaseOK'
    BY <1>0, <1>17, GotoType, ThreadsAssumption, Zenon
    DEF TypeOK, EnterForeground, PhaseOK, Grant, SleepForIo, Threads, ClientPhases, PollerPhases
  <2> QED  BY <1>0, <1>17, TypeFrame, <2>1, <2>2, <2>3
           DEF TypeOK, EnterForeground, sync, rest, local, client
<1>18. ASSUME NEW c \in Clients, RetryForeground(c) PROVE TypeOK'
  <2>1. SyncOK'
    <3>0. WaitersAfter(fgWaiters) \in Nat
      BY <1>0, <1>18, WaiterIsCounted DEF RetryForeground, TypeOK, SyncOK, WaitersAfter
    <3> USE <1>0, <1>18, WaiterIsCounted
        DEF TypeOK, SyncOK, RetryForeground, Threads
    <3>1. CASE Grant(c, fgWaiters)
      <4>1. /\ ioOwner' = "foreground" /\ fgWaiters' = WaitersAfter(fgWaiters) /\ asleep' = {}
            /\ UNCHANGED <<cancelRequested, readCancelled>>
        BY <3>1 DEF Grant
      <4> QED  BY <3>0, <4>1
    <3>2. CASE SleepForIo(c, fgWaiters, asleep)
      <4>1. cancelRequested' \in BOOLEAN /\ readCancelled' \in BOOLEAN
        BY <3>2, Zenon DEF SleepForIo, PreemptPoller
      <4>2. fgWaiters' = fgWaiters /\ asleep' = asleep \cup {c} /\ ioOwner' = ioOwner
        BY <3>2, Zenon DEF SleepForIo
      <4> QED  BY <4>1, <4>2
    <3>3. CASE GiveUp(c, fgWaiters)
      <4>1. fgWaiters' \in Nat
        BY <3>0, <3>3, Zenon DEF GiveUp
      <4>2. cancelRequested' \in BOOLEAN /\ readCancelled' \in BOOLEAN
        BY <3>3, Zenon DEF GiveUp
      <4> QED  BY <3>3, <4>1, <4>2, Zenon DEF GiveUp
    <3> QED  BY <3>1, <3>2, <3>3
  <2>2. ClientOK'
    BY <1>0, <1>18, Zenon
    DEF TypeOK, RetryForeground, ClientOK, Grant, SleepForIo, GiveUp, PreemptPoller, client, req
  <2>3. PhaseOK'
    BY <1>0, <1>18, GotoType, ThreadsAssumption, Zenon
    DEF TypeOK, RetryForeground, PhaseOK, Grant, SleepForIo, GiveUp, Threads, ClientPhases, PollerPhases
  <2> QED  BY <1>0, <1>18, TypeFrame, <2>1, <2>2, <2>3
           DEF TypeOK, RetryForeground, sync, rest, local, client
<1>19. ASSUME NEW c \in Clients, CallWrites(c) PROVE TypeOK'
  <2>1. DeviceOK'
    <3>1. writers \in Seq(Origins) /\ Ident(c) \in Origins
      BY <1>0, OriginTypes DEF TypeOK, DeviceOK
    <3>2. UNCHANGED writers \/ writers' = Append(writers, Ident(c))
      BY <1>19 DEF CallWrites
    <3>3. writers' \in Seq(Origins)
      BY <3>1, <3>2
    <3> QED  BY <1>0, <1>19, <3>3, Zenon DEF TypeOK, CallWrites, DeviceOK
  <2>2. PhaseOK'
    BY <1>0, <1>19, GotoType, ThreadsAssumption, Zenon
    DEF TypeOK, CallWrites, PhaseOK, Threads, ClientPhases, PollerPhases
  <2> QED  BY <1>0, <1>19, TypeFrame, <2>1, <2>2, Zenon
           DEF TypeOK, CallWrites, sync, rest, local, client
<1>20. ASSUME NEW c \in Clients, WaitDelivers(c) PROVE TypeOK'
  <2>1. ClientOK'
    BY <1>0, <1>20, DeliveredTypes, Zenon
    DEF TypeOK, WaitDelivers, ClientOK, Outcome, WaitOutcome, client, req
  <2>2. PhaseOK'
    BY <1>0, <1>20, GotoType, ThreadsAssumption, Zenon
    DEF TypeOK, WaitDelivers, PhaseOK, Threads, ClientPhases, PollerPhases
  <2> QED  BY <1>0, <1>20, TypeFrame, <2>1, <2>2, Zenon
           DEF TypeOK, WaitDelivers, sync, rest, local, client
<1>21. ASSUME NEW c \in Clients, WaitRefreshes(c) PROVE TypeOK'
  <2>1. ClientOK'
    BY <1>0, <1>21
    DEF TypeOK, WaitRefreshes, ClientOK, client, req
  <2>2. PhaseOK'
    BY <1>0, <1>21, GotoType, ThreadsAssumption, Zenon
    DEF TypeOK, WaitRefreshes, PhaseOK, Threads, ClientPhases, PollerPhases
  <2> QED  BY <1>0, <1>21, TypeFrame, <2>1, <2>2, Zenon
           DEF TypeOK, WaitRefreshes, sync, rest, local, client
<1>22. ASSUME NEW c \in Clients, WaitEnds(c) PROVE TypeOK'
  <2>1. PhaseOK'
    BY <1>0, <1>22, GotoType, ThreadsAssumption, Zenon
    DEF TypeOK, WaitEnds, PhaseOK, Threads, ClientPhases, PollerPhases
  <2> QED  BY <1>0, <1>22, TypeFrame, <2>1
           DEF TypeOK, WaitEnds, sync, rest, local, client
<1>23. ASSUME NEW c \in Clients, WaitSleeps(c) PROVE TypeOK'
  <2>1. SyncOK'
    BY <1>0, <1>23, ThreadsAssumption
    DEF TypeOK, WaitSleeps, SyncOK, Threads, sync, lock, cancel
  <2> QED  BY <1>0, <1>23, TypeFrame, <2>1
           DEF TypeOK, WaitSleeps, sync, rest, local, client
<1>24. ASSUME NEW c \in Clients, WaitStartsRefresh(c) PROVE TypeOK'
  <2>1. StateOK'
    BY <1>0, <1>24, Zenon
    DEF TypeOK, WaitStartsRefresh, StateOK, etags, degr, main
  <2>2. ClientOK'
    BY <1>0, <1>24
    DEF TypeOK, WaitStartsRefresh, ClientOK, client, req
  <2>3. PhaseOK'
    BY <1>0, <1>24, GotoType, ThreadsAssumption, Zenon
    DEF TypeOK, WaitStartsRefresh, PhaseOK, Threads, ClientPhases, PollerPhases
  <2> QED  BY <1>0, <1>24, TypeFrame, <2>1, <2>2, <2>3, Zenon
           DEF TypeOK, WaitStartsRefresh, sync, rest, local, client
<1>25. ASSUME NEW c \in Clients, RefreshSettles(c) PROVE TypeOK'
  <2>1. SyncOK'
    BY <1>0, <1>25, ThreadsAssumption, Zenon
    DEF TypeOK, RefreshSettles, SyncOK, Threads, sync, lock, cancel
  <2>2. StateOK'
    BY <1>0, <1>25, Zenon
    DEF TypeOK, RefreshSettles, StateOK, etags, degr, main
  <2>3. PhaseOK'
    BY <1>0, <1>25, GotoType, ThreadsAssumption, Zenon
    DEF TypeOK, RefreshSettles, PhaseOK, Threads, ClientPhases, PollerPhases
  <2> QED  BY <1>0, <1>25, TypeFrame, <2>1, <2>2, <2>3, Zenon
           DEF TypeOK, RefreshSettles, sync, rest, local, client
<1>26. ASSUME NEW c \in Clients, PreemptionBudgetEnds(c) PROVE TypeOK'
  <2>1. SyncOK'
    BY <1>0, <1>26, ThreadsAssumption, Zenon
    DEF TypeOK, PreemptionBudgetEnds, SyncOK, Threads, sync, lock, cancel
  <2>2. ClientOK'
    BY <1>0, <1>26
    DEF TypeOK, PreemptionBudgetEnds, ClientOK, client, req
  <2> QED  BY <1>0, <1>26, TypeFrame, <2>1, <2>2
           DEF TypeOK, PreemptionBudgetEnds, sync, rest, local, client
<1>27. ASSUME NEW c \in Clients, WaitDeadline(c) PROVE TypeOK'
  <2>1. SyncOK'
    BY <1>0, <1>27, ThreadsAssumption, Zenon
    DEF TypeOK, WaitDeadline, SyncOK, Threads, sync, lock, cancel
  <2>2. ClientOK'
    BY <1>0, <1>27
    DEF TypeOK, WaitDeadline, ClientOK, client, req
  <2> QED  BY <1>0, <1>27, TypeFrame, <2>1, <2>2
           DEF TypeOK, WaitDeadline, sync, rest, local, client
<1>28. CASE RefreshInterval
  <2>1. StateOK'
    BY <1>0, <1>28
    DEF TypeOK, RefreshInterval, StateOK, etags, degr, main
  <2> QED  BY <1>0, <1>28, TypeFrame, <2>1
           DEF TypeOK, RefreshInterval, sync, rest, local, client
<1>29. CASE Close
  <2>1. SyncOK'
    BY <1>0, <1>29, ThreadsAssumption, Zenon
    DEF TypeOK, Close, SyncOK, CloseWith, Threads, sync, lock, cancel
  <2>2. StateOK'
    BY <1>0, <1>29, Zenon
    DEF TypeOK, Close, StateOK, CloseWith, etags, degr, main
  <2> QED  BY <1>0, <1>29, TypeFrame, <2>1, <2>2
           DEF TypeOK, Close, CloseWith, sync, rest, local, client
<1>30. CASE CloseCancels
  <2>1. SyncOK'
    BY <1>0, <1>30, ThreadsAssumption
    DEF TypeOK, CloseCancels, SyncOK, Threads, sync, lock, cancel
  <2>2. StateOK'
    BY <1>0, <1>30
    DEF TypeOK, CloseCancels, StateOK, etags, degr, main
  <2> QED  BY <1>0, <1>30, TypeFrame, <2>1, <2>2
           DEF TypeOK, CloseCancels, sync, rest, local, client
<1>31. CASE CloseReturns
  <2>1. StateOK'
    BY <1>0, <1>31
    DEF TypeOK, CloseReturns, StateOK, etags, degr, main
  <2> QED  BY <1>0, <1>31, TypeFrame, <2>1
           DEF TypeOK, CloseReturns, sync, rest, local, client
<1>32. CASE DeviceChanges
  <2>1. DeviceOK'
    BY <1>0, <1>32, OriginTypes
    DEF TypeOK, DeviceChanges, DeviceOK, device
  <2> QED  BY <1>0, <1>32, TypeFrame, <2>1
           DEF TypeOK, DeviceChanges, sync, rest, local, client
<1>33. CASE DeviceResets
  <2>1. DeviceOK'
    BY <1>0, <1>33
    DEF TypeOK, DeviceResets, DeviceOK, device
  <2> QED  BY <1>0, <1>33, TypeFrame, <2>1
           DEF TypeOK, DeviceResets, sync, rest, local, client
<1>34. CASE Finished
  <2> QED  BY <1>0, <1>34, TypeFrame, Zenon
           DEF TypeOK, Finished, vars, rest, local
<1>35. CASE UNCHANGED vars
  BY <1>0, <1>35, TypeFrame DEF TypeOK, vars, rest, local
<1>36. ASSUME NEW t \in Threads, PipeStep(t) PROVE TypeOK'
  BY <1>36, <1>10, <1>11, <1>12, <1>13, <1>14, <1>15 DEF PipeStep
<1>37. CASE PollerStep
  BY <1>37, <1>1, <1>2, <1>3, <1>4, <1>5, <1>6, <1>7, <1>8, <1>9, <1>36
  DEF PollerStep, Threads
<1>38. ASSUME NEW c \in Clients, ClientStep(c) PROVE TypeOK'
  BY <1>38, <1>17, <1>18, <1>19, <1>20, <1>21, <1>22, <1>23, <1>24, <1>25, <1>36
  DEF ClientStep, Threads
<1>39. CASE Timer
  BY <1>39, <1>26, <1>27, <1>28 DEF Timer
<1> QED
  BY <1>16, <1>29, <1>30, <1>31, <1>32, <1>33, <1>34, <1>35, <1>37, <1>38, <1>39
  DEF Next, Closer

\* Moving one client in or out of the waiting requests changes their number
\* by one; every other move leaves it.
LEMMA WaitingFinite == IsFiniteSet(Waiting) /\ Cardinality(Waiting) \in Nat
BY FS_Subset, FS_CardinalityType, ThreadsAssumption DEF Waiting

LEMMA JoinsWaiting ==
  ASSUME PhaseOK, NEW c \in Clients, phase[c] # "acquire", Goto(c, "acquire")
  PROVE  Cardinality(Waiting') = Cardinality(Waiting) + 1
<1>1. Waiting' = Waiting \cup {c} /\ c \notin Waiting
  BY DEF Waiting, PhaseOK, Goto, Threads
<1> QED  BY <1>1, WaitingFinite, FS_AddElement, Zenon

LEMMA LeavesWaiting ==
  ASSUME PhaseOK, NEW c \in Clients, NEW p, phase[c] = "acquire", p # "acquire",
         Goto(c, p)
  PROVE  Cardinality(Waiting') = Cardinality(Waiting) - 1
<1>1. Waiting' = Waiting \ {c} /\ c \in Waiting
  BY DEF Waiting, PhaseOK, Goto, Threads
<1> QED  BY <1>1, WaitingFinite, FS_RemoveElement, Zenon

LEMMA KeepsWaiting ==
  ASSUME PhaseOK, NEW t \in Threads, NEW p, Goto(t, p),
         t = Poller \/ (phase[t] = "acquire" <=> p = "acquire")
  PROVE  Waiting' = Waiting
BY ThreadsAssumption DEF Waiting, PhaseOK, Goto, Threads

LEMMA NextWaiters == TypeInv /\ [Next]_vars => WaitersCounted'
<1> SUFFICES ASSUME TypeInv, [Next]_vars PROVE WaitersCounted'
  OBVIOUS
<1>0. PhaseOK /\ WaitersCounted /\ fgWaiters \in Nat /\ Poller \in Threads
  BY DEF TypeInv, TypeOK, SyncOK, Threads
<1>1. ASSUME UNCHANGED fgWaiters, Waiting' = Waiting PROVE WaitersCounted'
  BY <1>0, <1>1 DEF WaitersCounted
<1>2. ASSUME UNCHANGED <<fgWaiters, phase>> PROVE WaitersCounted'
  BY <1>1, <1>2 DEF Waiting
<1>3. CASE PollerStep
  <2> USE <1>0
  <2>1. UNCHANGED fgWaiters
    BY <1>3, Zenon DEF PollerStep, PipeStep, sync, lock, PollerStarts, AcquirePoller, PollerSends,
        PollerChecksClosed, PollerRegistersRead, PollReadDelivers, PollReadFails,
        PollerUnregistersRead, PollerNaps, OpenSession, CallFails, CallReads,
        TakePayload, Publish, ReleaseIo
  <2>2. UNCHANGED phase \/ \E p : Goto(Poller, p)
    BY <1>3, Zenon DEF PollerStep, PipeStep, sync, lock, PollerStarts, AcquirePoller, PollerSends,
        PollerChecksClosed, PollerRegistersRead, PollReadDelivers, PollReadFails,
        PollerUnregistersRead, PollerNaps, OpenSession, CallFails, CallReads,
        TakePayload, Publish, ReleaseIo
  <2> QED  BY <1>1, <1>2, <2>1, <2>2, KeepsWaiting
<1>4. ASSUME NEW t \in Threads, PipeStep(t) PROVE WaitersCounted'
  <2>1. UNCHANGED fgWaiters
    BY <1>4, Zenon DEF PipeStep, OpenSession, CallFails, CallReads, TakePayload,
        Publish, ReleaseIo, sync, lock
  <2>2. UNCHANGED phase \/ \E p \in {"reply", "call", "publish", "release", "nap",
                                     "settle", "idle"} : Goto(t, p)
    BY <1>4, Zenon DEF PipeStep, OpenSession, CallFails, CallReads, TakePayload,
        Publish, ReleaseIo, AfterRelease
  <2>3. phase[t] # "acquire"
    BY <1>4, Zenon DEF PipeStep, OpenSession, CallFails, CallReads, TakePayload,
        Publish, ReleaseIo
  <2> QED  BY <1>0, <1>1, <1>2, <2>1, <2>2, <2>3, KeepsWaiting
<1>5. ASSUME NEW c \in Clients, EnterForeground(c) PROVE WaitersCounted'
  <2>0. phase[c] = "enter"
    BY <1>5 DEF EnterForeground
  <2>1. CASE Grant(c, fgWaiters + 1)
    <3>1. fgWaiters' = fgWaiters /\ Goto(c, "call")
      BY <1>0, <2>1 DEF Grant, WaitersAfter
    <3>2. Waiting' = Waiting
      BY <1>0, <2>0, <3>1, KeepsWaiting DEF Threads
    <3> QED  BY <1>1, <3>1, <3>2
  <2>2. CASE SleepForIo(c, fgWaiters + 1, {})
    BY <1>0, <2>0, <2>2, JoinsWaiting, Zenon DEF SleepForIo, WaitersCounted
  <2> QED  BY <1>5, <2>1, <2>2 DEF EnterForeground
<1>6. ASSUME NEW c \in Clients, RetryForeground(c) PROVE WaitersCounted'
  <2>0. phase[c] = "acquire"
    BY <1>6 DEF RetryForeground
  <2>1. CASE Grant(c, fgWaiters)
    BY <1>0, <2>0, <2>1, LeavesWaiting DEF Grant, WaitersAfter, WaitersCounted
  <2>2. CASE SleepForIo(c, fgWaiters, asleep)
    BY <1>0, <1>1, <2>0, <2>2, KeepsWaiting, Zenon DEF SleepForIo, Threads
  <2>3. CASE GiveUp(c, fgWaiters)
    BY <1>0, <2>0, <2>3, LeavesWaiting, Zenon DEF GiveUp, WaitersAfter, WaitersCounted
  <2> QED  BY <1>6, <2>1, <2>2, <2>3 DEF RetryForeground
<1>7. ASSUME NEW c \in Clients,
             \/ CallWrites(c) \/ WaitDelivers(c) \/ WaitRefreshes(c) \/ WaitEnds(c)
             \/ WaitSleeps(c) \/ WaitStartsRefresh(c) \/ RefreshSettles(c) \/ Begin(c)
      PROVE  WaitersCounted'
  <2>1. UNCHANGED fgWaiters
    BY <1>7, Zenon DEF CallWrites, WaitDelivers, WaitRefreshes, WaitEnds, WaitSleeps,
        WaitStartsRefresh, RefreshSettles, Begin, sync, lock
  <2>2. UNCHANGED phase \/ \E p \in {"reply", "idle", "enter", "wait"} : Goto(c, p)
    BY <1>7, Zenon DEF CallWrites, WaitDelivers, WaitRefreshes, WaitEnds, WaitSleeps,
        WaitStartsRefresh, RefreshSettles, Begin
  <2>3. phase[c] # "acquire"
    BY <1>7, Zenon DEF CallWrites, WaitDelivers, WaitRefreshes, WaitEnds, WaitSleeps,
        WaitStartsRefresh, RefreshSettles, Begin, Awaits
  <2> QED  BY <1>0, <1>1, <1>2, <2>1, <2>2, <2>3, KeepsWaiting, Zenon DEF Threads
<1>8. CASE Timer \/ Close \/ Closer \/ DeviceChanges \/ DeviceResets \/ Finished
           \/ UNCHANGED vars
  BY <1>2, <1>8, Zenon DEF Timer, PreemptionBudgetEnds, WaitDeadline, RefreshInterval,
     Close, CloseWith, Closer, CloseCancels, CloseReturns, DeviceChanges,
     DeviceResets, Finished, vars, sync, lock
<1> QED  BY <1>3, <1>4, <1>5, <1>6, <1>7, <1>8 DEF Next, ClientStep, Threads

\* The fields of the coordinator keep their types, the history its bound, and
\* _foreground_waiters counts the requests that wait for the pipe.
THEOREM TypeCorrect == Spec => []TypeInv
<1>1. TypeInv /\ [Next]_vars => TypeInv'
  BY NextTypeOK, NextWaiters DEF TypeInv
<1> QED  BY <1>1, InitTypeInv, PTL DEF Spec

\* The type invariant the runs check, for every value of the constants.
THEOREM TypesHold == Spec => []TypeOK
<1>1. TypeInv => TypeOK
  BY DEF TypeInv
<1> QED  BY <1>1, TypeCorrect, PTL

=============================================================================
