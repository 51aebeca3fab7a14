-------------------------- MODULE CoordinatorEtags --------------------------
(***************************************************************************)
(* The coordinated ETag never goes back, the history ends at it, and every *)
(* delta is filed under the ETag it applies to.                            *)
(***************************************************************************)
EXTENDS CoordinatorThreads

\* A leaf of these proofs takes the SMT solver a second or less, on a busy machine
\* more; the leaves that need Zenon say so.
USE SMTT(30)

\* The order in which the device gives its ETags.
Leq(e, f) == e[1] < f[1] \/ (e[1] = f[1] /\ e[2] <= f[2])

\* The thread holds a response it has not published yet.
HasReply(t) ==
  IF t = Poller
  THEN phase[t] \in {"reply", "publish"} \/ (phase[t] = "readdone" /\ pollNext = "reply")
  ELSE phase[t] = "publish" \/ (phase[t] = "reply" /\ job[t] # "post")

\* Such a response is no older than anything published or polled from, and
\* its body is a whole datastore or the delta from the poller's ETag.
ReplyGood(t) ==
  LET e == reply[t].etag IN
  /\ e[1] >= 1 /\ Leq(latest, e) /\ Leq(pollEtag, e) /\ Leq(e, DeviceEtag)
  /\ IF t = Poller
     THEN reply[t].base \in {ZeroEtag, pollEtag} /\ (~reply[t].fresh => e = pollEtag)
     ELSE reply[t].base = ZeroEtag /\ reply[t].fresh

ReplyInv == \A t \in Threads : HasReply(t) => ReplyGood(t)

LatestInv ==
  /\ boot >= 1
  /\ latest = NoEtag \/ latest[1] >= 1
  /\ Leq(latest, DeviceEtag)
  /\ pollEtag # NoEtag /\ Leq(pollEtag, DeviceEtag)
  /\ latest = NoEtag \/ Leq(pollEtag, latest)

HistoryInv ==
  /\ latest = NoEtag => history = <<>>
  /\ HistoryEndsAtLatest
  /\ DeltasMatchTheirEtag

EtagInv == ReplyInv /\ LatestInv /\ HistoryInv

LEMMA LeqOrder ==
  /\ \A e, f, g \in Etags : Leq(e, f) /\ Leq(f, g) => Leq(e, g)
  /\ \A e, f \in Etags : Leq(e, f) /\ Leq(f, e) => e = f
  /\ \A e \in Etags : Leq(e, e) /\ Leq(NoEtag, e)
  /\ \A e \in Etags : e[1] >= 1 => Leq(ZeroEtag, e) /\ e # NoEtag /\ e # ZeroEtag
BY DEF Leq, Etags, NoEtag, ZeroEtag

LEMMA InitEtagInv == Init => EtagInv
<1> SUFFICES ASSUME Init PROVE EtagInv
  OBVIOUS
<1>1. \A t \in Threads : ~HasReply(t)
  BY DEF Init, HasReply
<1>2. LatestInv
  BY DEF Init, LatestInv, Leq, DeviceEtag, NoEtag, ZeroEtag
<1>3. HistoryInv
  BY DEF Init, HistoryInv, HistoryEndsAtLatest, DeltasMatchTheirEtag
<1> QED  BY <1>1, <1>2, <1>3 DEF EtagInv, ReplyInv

\* The types the steps below need.
LEMMA EtagFacts ==
  ASSUME TypeOK
  PROVE  /\ latest \in Etags /\ pollEtag \in Etags /\ DeviceEtag \in Etags
         /\ \A t \in Threads : reply[t].etag \in Etags
BY EtagTypes, TransitionTypes DEF TypeOK, StateOK, PollOK

\* The device moves on, responses are dropped, nothing is published.
LEMMA EtagFrame ==
  ASSUME TypeOK, TypeOK', EtagInv, UNCHANGED <<latest, history, pollEtag>>,
         boot' >= 1, Leq(DeviceEtag, DeviceEtag'),
         \A t \in Threads : HasReply(t)' => HasReply(t) /\ reply'[t] = reply[t]
  PROVE  EtagInv'
<1>0. /\ latest \in Etags /\ pollEtag \in Etags /\ DeviceEtag \in Etags
      /\ DeviceEtag' \in Etags /\ \A t \in Threads : reply[t].etag \in Etags
  <2>1. DeviceEtag' \in Etags
    BY DEF TypeOK, DeviceOK, DeviceEtag, Etags
  <2> QED  BY <2>1, EtagFacts
<1>1. ReplyInv'
  BY <1>0, LeqOrder DEF EtagInv, ReplyInv, ReplyGood
<1>2. LatestInv'
  BY <1>0, LeqOrder DEF EtagInv, LatestInv
<1>3. HistoryInv'
  BY DEF EtagInv, HistoryInv, HistoryEndsAtLatest, DeltasMatchTheirEtag
<1> QED  BY <1>1, <1>2, <1>3 DEF EtagInv

\* Appending to the deque keeps or drops its entries; the new one is last.
LEMMA PushElements ==
  ASSUME NEW h \in Seq(Transitions), Len(h) <= HistorySize, NEW x \in Transitions
  PROVE  LET g == Push(h, x) IN
         /\ g # <<>> /\ g[Len(g)] = x
         /\ \A i \in DOMAIN g : g[i] = x \/ \E j \in DOMAIN h : g[i] = h[j]
<1>1. CASE Len(h) < HistorySize
  BY <1>1 DEF Push
<1>2. CASE ~(Len(h) < HistorySize)
  <2>1. h # <<>> /\ Len(h) \in Nat \ {0}
    BY <1>2, BoundsAssumption
  <2> DEFINE k == Tail(h)
  <2>2. /\ k \in Seq(Transitions) /\ Len(k) = Len(h) - 1
        /\ \A i \in 1..Len(k) : k[i] = h[i + 1]
    BY <2>1
  <2>3. Push(h, x) = Append(k, x)
    BY <1>2 DEF Push
  <2>4. \A i \in 1..Len(k) : k[i] = h[i + 1] /\ i + 1 \in DOMAIN h
    BY <2>1, <2>2
  <2> HIDE DEF k
  <2> DEFINE g == Append(k, x)
  <2>5. /\ g \in Seq(Transitions) /\ Len(g) = Len(k) + 1 /\ Len(k) \in Nat
        /\ g[Len(k) + 1] = x
        /\ \A i \in 1 .. Len(k) : g[i] = k[i]
    BY <2>2
  <2> HIDE DEF g
  <2>6. g # <<>> /\ DOMAIN g = 1 .. Len(k) + 1
    BY <2>5
  <2>7. \A i \in DOMAIN g : g[i] = x \/ \E j \in DOMAIN h : g[i] = h[j]
    <3>1. \A i \in DOMAIN g : i \in 1 .. Len(k) \/ i = Len(k) + 1
      BY <2>5, <2>6
    <3> QED  BY <2>4, <2>5, <3>1
  <2> QED  BY <2>3, <2>5, <2>6, <2>7 DEF g
<1> QED  BY <1>1, <1>2

LEMMA NextEtag == TypeOK /\ TypeOK' /\ PipeInv /\ EtagInv /\ [Next]_vars => EtagInv'
<1> SUFFICES ASSUME TypeOK, TypeOK', PipeInv, EtagInv, [Next]_vars PROVE EtagInv'
  OBVIOUS
<1>0. /\ Poller \in Threads /\ Clients \subseteq Threads /\ Poller \notin Clients
      /\ latest \in Etags /\ pollEtag \in Etags /\ DeviceEtag \in Etags
      /\ PhaseOK /\ boot \in Nat /\ boot >= 1 /\ Leq(DeviceEtag, DeviceEtag)
  BY ThreadsAssumption, EtagFacts, LeqOrder
  DEF TypeOK, DeviceOK, EtagInv, LatestInv, Threads
<1>1. ASSUME UNCHANGED <<latest, history, pollEtag, boot, writers>>,
             \A t \in Threads : HasReply(t)' => HasReply(t) /\ reply'[t] = reply[t]
      PROVE  EtagInv'
  <2>1. UNCHANGED DeviceEtag
    BY <1>1 DEF DeviceEtag
  <2> QED  BY <1>0, <1>1, <2>1, EtagFrame
<1>2. ASSUME UNCHANGED <<latest, history, pollEtag, pollNext, reply, job, boot, writers>>,
             NEW t \in Threads, UNCHANGED phase \/ \E p : Goto(t, p) /\ p \notin {"reply", "publish", "readdone"}
      PROVE  EtagInv'
  <2>1. \A s \in Threads : HasReply(s)' => HasReply(s)
    BY <1>0, <1>2 DEF HasReply, Goto, PhaseOK
  <2> QED  BY <1>1, <1>2, <2>1
<1>3. CASE \/ AcquirePoller \/ PollerSends \/ PollerChecksClosed
           \/ PollerRegistersRead \/ PollerNaps
  <2>1. UNCHANGED <<latest, history, pollEtag, pollNext, reply, job, boot, writers>>
    BY <1>3, Zenon DEF AcquirePoller, PollerSends, PollerChecksClosed, PollerRegistersRead,
        PollerNaps, rest, etags, device, local, poll, client, req
  <2>2. UNCHANGED phase \/ \E p : Goto(Poller, p) /\ p \notin {"reply", "publish", "readdone"}
    BY <1>3 DEF AcquirePoller, PollerSends, PollerChecksClosed, PollerRegistersRead, PollerNaps
  <2> QED  BY <1>0, <1>2, <2>1, <2>2
<1>4. CASE PollReadFails \/ PollerUnregistersRead
  <2>1. UNCHANGED <<latest, history, pollEtag, boot, writers, reply, job>>
    BY <1>4 DEF PollReadFails, PollerUnregistersRead, etags, device, local, poll, client, req
  <2>2. \A s \in Threads : HasReply(s)' => HasReply(s)
    BY <1>0, <1>4, Zenon DEF PollReadFails, PollerUnregistersRead, HasReply, Goto, PhaseOK,
       local, poll, client, req, TypeOK, PollOK
  <2> QED  BY <1>1, <2>1, <2>2
<1>5. CASE PollerStarts
  <2>1. /\ UNCHANGED <<latest, history, reply, boot, writers>>
        /\ \A s \in Threads : HasReply(s)' => HasReply(s) /\ s # Poller
    BY <1>0, <1>5 DEF PollerStarts, HasReply, Goto, PhaseOK, rest, etags, device, client, req
  <2>2. CASE UNCHANGED pollEtag
    BY <1>1, <2>1, <2>2
  <2>3. CASE pollEtag' = IF latest = NoEtag THEN ZeroEtag ELSE latest
    <3>1. ReplyInv'
      BY <1>0, <2>1, <2>3, EtagFacts, LeqOrder, Zenon DEF EtagInv, ReplyInv, ReplyGood, DeviceEtag
    <3>2. LatestInv'
      BY <1>0, <2>1, <2>3, LeqOrder DEF EtagInv, LatestInv, DeviceEtag, Leq, ZeroEtag, NoEtag
    <3>3. HistoryInv'
      BY <2>1 DEF EtagInv, HistoryInv, HistoryEndsAtLatest, DeltasMatchTheirEtag
    <3> QED  BY <3>1, <3>2, <3>3 DEF EtagInv
  <2> QED  BY <1>5, <2>2, <2>3 DEF PollerStarts
<1>6. ASSUME NEW t \in Threads, UNCHANGED <<latest, history, pollEtag, boot, writers>>,
             UNCHANGED job, UNCHANGED pollNext \/ t = Poller,
             \E p : Goto(t, p), NEW r, reply' = [reply EXCEPT ![t] = r],
             r.etag = DeviceEtag, 
             IF t = Poller THEN r.base \in {ZeroEtag, pollEtag} /\ (~r.fresh => r.etag = pollEtag)
             ELSE r.base = ZeroEtag /\ r.fresh
      PROVE  EtagInv'
  <2>1. UNCHANGED DeviceEtag /\ DeviceEtag[1] = boot
    BY <1>6 DEF DeviceEtag
  <2>2. reply'[t] = r /\ \A s \in Threads \ {t} : reply'[s] = reply[s] /\ (HasReply(s)' => HasReply(s))
    BY <1>0, <1>6, Zenon DEF TypeOK, ReplyOK, PhaseOK, Goto, HasReply
  <2>3. \A s \in Threads \ {t} : HasReply(s)' => ReplyGood(s)'
    BY <1>6, <2>1, <2>2, Zenon DEF EtagInv, ReplyInv, ReplyGood
  <2>4. ReplyGood(t)'
    BY <1>0, <1>6, <2>1, <2>2, Zenon DEF ReplyGood, EtagInv, LatestInv
  <2>5. LatestInv' /\ HistoryInv'
    BY <1>6, <2>1 DEF EtagInv, LatestInv, HistoryInv, HistoryEndsAtLatest, DeltasMatchTheirEtag
  <2> QED  BY <2>3, <2>4, <2>5 DEF EtagInv, ReplyInv
<1>7. ASSUME NEW t \in Threads, CallReads(t) PROVE EtagInv'
  <2> DEFINE r == Reply(DeviceEtag, ZeroEtag, TRUE)
  <2>1. r.etag = DeviceEtag /\ r.base = ZeroEtag /\ r.fresh
    BY DEF Reply
  <2>2. UNCHANGED <<latest, history, pollEtag, pollNext, boot, writers, job>>
        /\ reply' = [reply EXCEPT ![t] = r] /\ \E p : Goto(t, p)
    BY <1>7, Zenon DEF CallReads, rest, etags, device, client, req, poll
  <2> HIDE DEF r
  <2> QED  BY <1>6, <2>1, <2>2, Zenon
<1>8. CASE PollReadDelivers
  <2>1. UNCHANGED <<latest, history, pollEtag, boot, writers, job>> /\ Goto(Poller, "readdone")
    BY <1>8, Zenon DEF PollReadDelivers, rest, etags, device, client, req, poll
  <2>2. CASE pollNext' # "reply" /\ UNCHANGED reply
    <3>1. \A s \in Threads : HasReply(s)' => HasReply(s)
      BY <1>0, <2>1, <2>2 DEF HasReply, Goto, PhaseOK
    <3> QED  BY <1>1, <2>1, <2>2, <3>1
  <2>3. CASE reply' = [reply EXCEPT ![Poller] = PollReply]
    <3>1. PollReply.etag = DeviceEtag /\ PollReply.base \in {ZeroEtag, pollEtag}
          /\ (~PollReply.fresh => PollReply.etag = pollEtag)
      BY DEF PollReply, Reply
    <3> QED  BY <1>0, <1>6, <2>1, <2>3, <3>1, Zenon
  <2> QED  BY <1>8, <2>2, <2>3 DEF PollReadDelivers
<1>9. ASSUME UNCHANGED <<latest, history, pollEtag>>,
             \/ UNCHANGED <<boot, writers>>
             \/ \E x \in Origins : UNCHANGED boot /\ writers' = Append(writers, x)
             \/ boot' = boot + 1 /\ writers' = <<>>,
             \A s \in Threads : HasReply(s)' => HasReply(s) /\ reply'[s] = reply[s]
      PROVE  EtagInv'
  <2>1. boot' >= 1 /\ Leq(DeviceEtag, DeviceEtag')
    BY <1>0, <1>9 DEF DeviceEtag, Leq, TypeOK, DeviceOK
  <2> QED  BY <1>9, <2>1, EtagFrame, Zenon
<1>10. ASSUME NEW t \in Threads,
              OpenSession(t) \/ CallFails(t) \/ (t \in Clients /\ CallWrites(t))
       PROVE  EtagInv'
  <2>1. UNCHANGED <<latest, history, pollEtag, pollNext, reply, job>>
    BY <1>10, Zenon DEF OpenSession, CallFails, CallWrites, etags, poll, local, req
  <2>2. \/ UNCHANGED <<boot, writers>>
        \/ \E x \in Origins : UNCHANGED boot /\ writers' = Append(writers, x)
    <3>1. t # Poller => Ident(t) \in Origins
      BY OriginTypes DEF Threads
    <3> QED  BY <1>0, <1>10, <3>1, Zenon DEF OpenSession, CallFails, CallWrites
  <2>3. CASE OpenSession(t) \/ CallFails(t)
    <3>1. \A s \in Threads : HasReply(s)' => HasReply(s)
      BY <1>0, <2>1, <2>3 DEF OpenSession, CallFails, HasReply, Goto, PhaseOK
    <3> QED  BY <1>9, <2>1, <2>2, <3>1
  <2>4. CASE t \in Clients /\ CallWrites(t)
    <3>1. \A s \in Threads : HasReply(s)' => HasReply(s)
      BY <1>0, <2>1, <2>4 DEF CallWrites, HasReply, Goto, PhaseOK
    <3> QED  BY <1>9, <2>1, <2>2, <3>1
  <2> QED  BY <1>10, <2>3, <2>4
<1>11. CASE DeviceChanges \/ DeviceResets
  <2>1. UNCHANGED <<latest, history, pollEtag, pollNext, reply, job, phase>>
    BY <1>11 DEF DeviceChanges, DeviceResets, etags, local, poll, req
  <2>2. \A s \in Threads : HasReply(s)' => HasReply(s)
    BY <2>1 DEF HasReply
  <2> QED  BY <1>9, <1>11, <2>1, <2>2, OriginTypes DEF DeviceChanges, DeviceResets
<1>12. ASSUME NEW t \in Threads, TakePayload(t) PROVE EtagInv'
  <2>1. UNCHANGED <<pollEtag, pollNext, boot, writers, reply>>
    BY <1>12 DEF TakePayload, poll, device
  <2>2. \A s \in Threads : HasReply(s)' => HasReply(s)
    <3>1. ASSUME NEW s \in Threads, s # t PROVE HasReply(s)' => HasReply(s)
      <4>1. DOMAIN job = Clients /\ (s = Poller \/ s \in Clients)
        BY DEF TypeOK, ClientOK, Threads
      <4>2. phase'[s] = phase[s] /\ (s # Poller => job'[s] = job[s])
        BY <1>0, <1>12, <3>1, <4>1 DEF TakePayload, Goto, PhaseOK
      <4> QED  BY <2>1, <4>2 DEF HasReply
    <3>2. HasReply(t)' => HasReply(t)
      BY <1>0, <1>12, <2>1, Zenon
      DEF TakePayload, HasReply, Goto, PhaseOK, TypeOK, ClientOK, Threads
    <3> QED  BY <3>1, <3>2
  <2>3. CASE UNCHANGED <<latest, history>>
    BY <1>1, <2>1, <2>2, <2>3
  <2>4. CASE latest' = NoEtag /\ history' = <<>>
    <3>1. UNCHANGED DeviceEtag
      BY <2>1 DEF DeviceEtag
    <3>2. ReplyInv'
      BY <1>0, <2>1, <2>2, <2>4, <3>1, EtagFacts, LeqOrder, Zenon DEF EtagInv, ReplyInv, ReplyGood
    <3>3. LatestInv'
      BY <1>0, <2>1, <2>4, <3>1, LeqOrder DEF EtagInv, LatestInv
    <3>4. HistoryInv'
      BY <2>4 DEF HistoryInv, HistoryEndsAtLatest, DeltasMatchTheirEtag
    <3> QED  BY <3>2, <3>3, <3>4 DEF EtagInv
  <2> QED  BY <1>12, <2>3, <2>4 DEF TakePayload, ResetOnNewSession, etags
<1>13. ASSUME NEW t \in Threads, Publish(t) PROVE EtagInv'
  <2>1. UNCHANGED <<pollEtag, pollNext, reply, job, boot, writers>> /\ Goto(t, "release")
        /\ phase[t] = "publish" /\ UNCHANGED DeviceEtag
    BY <1>13, Zenon DEF Publish, local, poll, req, device, DeviceEtag
  <2>2. CASE UNCHANGED <<latest, history>>
    BY <1>2, <2>1, <2>2
  <2>3. CASE /\ latest' = reply[t].etag
             /\ history' = IF reply[t].fresh /\ FromEtag(t) \notin {NoEtag, reply[t].etag}
                           THEN Push(history, Transition(t)) ELSE history
    <3>1. ReplyGood(t) /\ reply[t].etag \in Etags /\ latest' \in Etags
      BY <2>1, <2>3, EtagFacts, Zenon DEF EtagInv, ReplyInv, HasReply
    <3>2. \A s \in Threads : ~HasReply(s)'
      <4>1. \A s \in Threads \ {t} : ~HoldsPipe(s)
        BY <2>1 DEF PipeInv, OwnerInv, HoldsPipe, Threads
      <4> QED  BY <1>0, <2>1, <4>1 DEF HasReply, HoldsPipe, Goto, PhaseOK
    <3>3. LatestInv'
      BY <1>0, <2>1, <2>3, <3>1, Zenon DEF ReplyGood, EtagInv, LatestInv
    <3>4. HistoryInv'
      <4>1. latest' # NoEtag
        BY <2>3, <3>1, LeqOrder, Zenon DEF ReplyGood
      <4>2. CASE ~(reply[t].fresh /\ FromEtag(t) \notin {NoEtag, reply[t].etag})
        <5>1. history' = history
          BY <2>3, <4>2
        <5>2. latest \in {NoEtag, reply[t].etag}
          <6>1. CASE t # Poller
            BY <3>1, <4>2, <6>1 DEF ReplyGood, FromEtag
          <6>2. CASE t = Poller
            <7>1. reply[t].etag = pollEtag
              BY <3>1, <4>2, <6>2, Zenon DEF ReplyGood, FromEtag, EtagInv, LatestInv
            <7>2. latest = NoEtag \/ (Leq(latest, pollEtag) /\ Leq(pollEtag, latest))
              BY <3>1, <7>1 DEF ReplyGood, EtagInv, LatestInv
            <7> QED  BY <1>0, <7>1, <7>2, LeqOrder
          <6> QED  BY <6>1, <6>2
        <5> QED  BY <2>3, <4>1, <5>1, <5>2, Zenon
                 DEF EtagInv, HistoryInv, HistoryEndsAtLatest, DeltasMatchTheirEtag
      <4>3. CASE reply[t].fresh /\ FromEtag(t) \notin {NoEtag, reply[t].etag}
        <5> DEFINE x == Transition(t)
        <5>1. history' = Push(history, x)
          BY <2>3, <4>3
        <5>2. /\ history \in Seq(Transitions) /\ Len(history) <= HistorySize
              /\ x \in Transitions
          BY TransitionTypes DEF TypeOK, StateOK
        <5>3. x.to = reply[t].etag /\ x.base \in {ZeroEtag, x.from}
          BY <3>1, Zenon DEF Transition, ReplyGood, FromEtag
        <5>4. \A i \in DOMAIN history : history[i].base \in {ZeroEtag, history[i].from}
          BY DEF EtagInv, HistoryInv, DeltasMatchTheirEtag
        <5> HIDE DEF x
        <5>5. DeltasMatchTheirEtag'
          <6>1. \A i \in DOMAIN history' :
                  history'[i] = x \/ \E j \in DOMAIN history : history'[i] = history[j]
            BY <5>1, <5>2, PushElements
          <6> QED  BY <5>3, <5>4, <6>1 DEF DeltasMatchTheirEtag
        <5>6. HistoryEndsAtLatest'
          BY <2>3, <5>1, <5>2, <5>3, PushElements, Zenon DEF HistoryEndsAtLatest
        <5> QED  BY <4>1, <5>5, <5>6 DEF HistoryInv
      <4> QED  BY <4>2, <4>3
    <3> QED  BY <3>2, <3>3, <3>4 DEF EtagInv, ReplyInv
  <2> QED  BY <1>13, <2>2, <2>3, Zenon DEF Publish
<1>14. ASSUME NEW t \in Threads, ReleaseIo(t) PROVE EtagInv'
  <2>1. UNCHANGED <<latest, history, pollEtag, pollNext, boot, writers, job>>
    BY <1>14, Zenon DEF ReleaseIo, rest, etags, device, poll
  <2>2. \A s \in Threads : HasReply(s)' => HasReply(s) /\ reply'[s] = reply[s]
    BY <1>0, <1>14, <2>1, Zenon DEF ReleaseIo, AfterRelease, HasReply, Goto, PhaseOK, TypeOK, ReplyOK
  <2> QED  BY <1>1, <2>1, <2>2, Zenon
<1>15. ASSUME NEW c \in Clients,
              \/ EnterForeground(c) \/ RetryForeground(c) \/ Begin(c) \/ WaitDelivers(c)
              \/ WaitRefreshes(c) \/ WaitEnds(c) \/ WaitSleeps(c)
              \/ WaitStartsRefresh(c) \/ RefreshSettles(c)
       PROVE  EtagInv'
  <2>1. UNCHANGED <<latest, history, pollEtag, pollNext, reply, boot, writers>>
    BY <1>15, Zenon DEF EnterForeground, RetryForeground, Begin, WaitDelivers, WaitRefreshes,
        WaitEnds, WaitSleeps, WaitStartsRefresh, RefreshSettles, rest, etags, device,
        local, poll
  <2>2. UNCHANGED job \/ \E r : job' = [job EXCEPT ![c] = r]
    BY <1>15, Zenon DEF EnterForeground, RetryForeground, Begin, WaitDelivers, WaitRefreshes,
        WaitEnds, WaitSleeps, WaitStartsRefresh, RefreshSettles, local, req
  <2>3. \/ UNCHANGED <<phase, job>>
        \/ \E p \in {"call", "acquire", "settle", "idle", "enter", "wait"} : Goto(c, p)
    <3>1. CASE EnterForeground(c)
      BY <3>1, Zenon DEF EnterForeground, Grant, SleepForIo
    <3>2. CASE RetryForeground(c)
      BY <3>2, Zenon DEF RetryForeground, Grant, SleepForIo, GiveUp
    <3>3. CASE Begin(c)
      BY <3>3, Zenon DEF Begin
    <3> QED  BY <1>15, <3>1, <3>2, <3>3, Zenon
             DEF WaitDelivers, WaitRefreshes, WaitEnds, WaitSleeps, WaitStartsRefresh,
                 RefreshSettles, local, req
  <2>4. \A s \in Clients \ {c} : job'[s] = job[s]
    BY <2>2 DEF TypeOK, ClientOK
  <2>5. \A s \in Threads : HasReply(s)' => HasReply(s)
    BY <1>0, <2>1, <2>3, <2>4 DEF HasReply, Goto, PhaseOK, Threads
  <2> QED  BY <1>1, <2>1, <2>5
<1>16. CASE Timer \/ Close \/ Closer \/ Finished \/ UNCHANGED vars
  <2>1. UNCHANGED <<latest, history, pollEtag, pollNext, reply, job, boot, writers, phase>>
    BY <1>16, Zenon DEF Timer, PreemptionBudgetEnds, WaitDeadline, RefreshInterval, Close,
       CloseWith, Closer, CloseCancels, CloseReturns, Finished, vars, rest, etags,
       device, local, poll, req
  <2> QED  BY <1>0, <1>2, <2>1
<1>17. ASSUME NEW t \in Threads, PipeStep(t) PROVE EtagInv'
  BY <1>7, <1>10, <1>12, <1>13, <1>14, <1>17 DEF PipeStep
<1>18. CASE PollerStep
  BY <1>0, <1>3, <1>4, <1>5, <1>8, <1>17, <1>18 DEF PollerStep
<1>19. ASSUME NEW c \in Clients, Begin(c) \/ ClientStep(c) PROVE EtagInv'
  BY <1>0, <1>10, <1>15, <1>17, <1>19 DEF ClientStep
<1> QED  BY <1>11, <1>16, <1>18, <1>19 DEF Next

\* The inductive invariant of the ETags: what the pipe owner still has to
\* publish is at least as new as _latest_etag, and each body fits its ETag.
THEOREM EtagInvariant == Spec => []EtagInv
<1>1. TypeInv /\ TypeInv' /\ PipeInv /\ EtagInv /\ [Next]_vars => EtagInv'
  BY NextEtag DEF TypeInv
<1> QED  BY <1>1, InitEtagInv, TypeCorrect, PipeInvariant, PTL DEF Spec

\* A body in the history is the device's delta from exactly the ETag it is
\* filed under, or a whole datastore, although the poller captures its ETag
\* before it acquires the pipe (_poll_loop, _publish_payload).
THEOREM DeltasApply == Spec => []DeltasMatchTheirEtag
<1>1. EtagInv => DeltasMatchTheirEtag
  BY DEF EtagInv, HistoryInv
<1> QED  BY <1>1, EtagInvariant, PTL

\* The newest transition of the history leads to _latest_etag.
THEOREM HistoryLeadsToLatest == Spec => []HistoryEndsAtLatest
<1>1. EtagInv => HistoryEndsAtLatest
  BY DEF EtagInv, HistoryInv
<1> QED  BY <1>1, EtagInvariant, PTL

\* Only these steps write _latest_etag.
LEMMA LatestWriters ==
  ASSUME Next, latest' # latest
  PROVE  \E t \in Threads : TakePayload(t) \/ Publish(t)
<1>1. CASE PollerStep
  BY <1>1, Zenon DEF PollerStep, PipeStep, PollerStarts, AcquirePoller, PollerSends,
     PollerChecksClosed, PollerRegistersRead, PollReadDelivers, PollReadFails,
     PollerUnregistersRead, PollerNaps, OpenSession, CallFails, CallReads, ReleaseIo,
     rest, etags, Threads
<1>2. ASSUME NEW c \in Clients, Begin(c) \/ ClientStep(c)
      PROVE  \E t \in Threads : TakePayload(t) \/ Publish(t)
  BY <1>2, Zenon DEF ClientStep, PipeStep, Begin, EnterForeground, RetryForeground,
     OpenSession, CallFails, CallReads, CallWrites, ReleaseIo, WaitDelivers,
     WaitRefreshes, WaitEnds, WaitSleeps, WaitStartsRefresh, RefreshSettles,
     rest, etags, Threads
<1>3. ~(Timer \/ Close \/ Closer \/ DeviceChanges \/ DeviceResets \/ Finished)
  BY Zenon DEF Timer, PreemptionBudgetEnds, WaitDeadline, RefreshInterval, Close,
     CloseWith, Closer, CloseCancels, CloseReturns, DeviceChanges, DeviceResets,
     Finished, vars, rest, etags
<1> QED  BY <1>1, <1>2, <1>3 DEF Next

\* The coordinated ETag of a boot never goes back: responses are published in
\* the order the device gave them, since publication precedes _release_io.
THEOREM LatestIsMonotone == Spec => LatestNeverGoesBack
<1>1. TypeInv /\ EtagInv /\ [Next]_vars => [~Before(latest', latest)]_vars
  <2> SUFFICES ASSUME TypeInv, EtagInv, Next PROVE ~Before(latest', latest)
    OBVIOUS
  <2>0. TypeOK /\ latest \in Etags
    BY EtagFacts DEF TypeInv
  <2>1. CASE latest' = latest
    BY <2>0, <2>1 DEF Before, Etags
  <2>2. ASSUME NEW t \in Threads, TakePayload(t), latest' # latest
        PROVE  ~Before(latest', latest)
    <3>1. latest' = NoEtag
      BY <2>2 DEF TakePayload, ResetOnNewSession, etags
    <3>2. latest = NoEtag \/ latest[1] >= 1
      BY DEF EtagInv, LatestInv
    <3> QED  BY <2>0, <3>1, <3>2 DEF Before, NoEtag, Etags
  <2>3. ASSUME NEW t \in Threads, Publish(t), latest' # latest
        PROVE  ~Before(latest', latest)
    <3>1. latest' = reply[t].etag /\ HasReply(t)
      BY <2>3, Zenon DEF Publish, HasReply
    <3>2. Leq(latest, latest')
      BY <3>1, Zenon DEF EtagInv, ReplyInv, ReplyGood
    <3>3. latest' \in Etags
      BY <2>0, <3>1, EtagFacts
    <3> QED  BY <2>0, <3>2, <3>3 DEF Leq, Before, Etags
  <2> QED  BY <2>1, <2>2, <2>3, LatestWriters
<1> QED  BY <1>1, TypeCorrect, EtagInvariant, PTL DEF Spec, LatestNeverGoesBack

=============================================================================
