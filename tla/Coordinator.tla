---------------------------- MODULE Coordinator ----------------------------
(***************************************************************************)
(* DatastoreCoordinator of motu_proxy/datastore.py: one background poller  *)
(* thread, the HTTP handler threads (Clients) and the thread that shuts    *)
(* the proxy down share one USB control pipe, one condition variable and   *)
(* one ETag history.                                                       *)
(*                                                                         *)
(* Every `with self._condition` block is one step.  `condition.wait` ends  *)
(* a step: the thread joins `asleep` and has no step of its own until a    *)
(* notify_all empties that set or its timer fires.  The datastore below    *)
(* (ManagedDatastore and the device) is reduced to a session that lives,   *)
(* dies and is reopened, and a device whose ETag is <<boot, version>>.     *)
(***************************************************************************)
EXTENDS Naturals, Sequences, FiniteSets, FiniteSetsExt

CONSTANTS Clients,         \* HTTP handler threads, each with its own client id
          Anonymous,       \* the clients that send no client id
          Returning,       \* those that hold an ETag from an earlier proxy run
          Poller,          \* the thread running _poll_loop
          NoClient,        \* origin of a change no proxy client is known for
          NativeLongPoll,  \* foreground_preemptive_native_long_poll_available
          HistorySize,     \* history_size, the deque's maxlen
          Requests,        \* what clients may ask for
          MayClose,        \* whether the proxy is shut down in this model
          MaxRequests,     \* bound: requests per client
          MaxVersion,      \* bound: changes of the datastore per device boot
          MaxFaults,       \* bound: losses, failed opens, missing replies
          MaxParts         \* bound: partial reads of one poll response

ASSUME ThreadsAssumption ==
  /\ IsFiniteSet(Clients)
  /\ Poller \notin Clients
  /\ NoClient \notin Clients
  /\ Anonymous \subseteq Clients
  /\ Returning \subseteq Clients

\* wait_for_change on the poll path, on the poll path with query fields that
\* rule out a cached answer, and on another path.
Waits == {"waitPoll", "waitQuery", "waitOther"}

ASSUME BoundsAssumption ==
  /\ NativeLongPoll \in BOOLEAN
  /\ MayClose \in BOOLEAN
  /\ HistorySize \in Nat \ {0}
  /\ Requests \subseteq {"read", "other", "post"} \cup Waits
  /\ {MaxRequests, MaxVersion, MaxFaults, MaxParts} \subseteq Nat

VARIABLES
  ioOwner,          \* _io_owner; _io_busy is ioOwner # "none"
  fgWaiters,        \* _foreground_waiters
  activeRead,       \* _active_poll_read is not None
  cancelRequested,  \* _active_poll_cancel_requested
  readCancelled,    \* cancel() was called on the poller's current read
  closed,           \* _closed
  asleep,           \* threads inside condition.wait, not yet notified
  degradedBusy,     \* _degraded_refresh_in_progress
  refreshDue,       \* now >= _next_degraded_refresh
  latest,           \* _latest_etag
  history,          \* _history, oldest first
  coordGen,         \* _datastore_session_generation
  phase,            \* where each thread is
  job,              \* the datastore operation a client is carrying out
  reply,            \* the response a thread holds
  result,           \* how a client's datastore operation ended
  pollEtag,         \* etag local to an iteration of _poll_loop
  pollNext,         \* where the poller goes when its read is unregistered
  parts,            \* partial reads of this poll so far
  deadline,         \* preemption_deadline of a client
  ask,              \* path and If-None-Match of a waiting client
  expired,          \* clients whose HTTP wait deadline has passed
  known,            \* the ETag a client last received
  left,             \* requests a client may still make
  closing,          \* progress of the thread in close()
  closeTarget,      \* the read close() captured is still the current one
  sess,             \* ManagedDatastore's session
  gen,              \* ManagedDatastore.session_generation
  boot, writers,    \* the device: boot number, origin of each change since
  faults            \* faults so far

lock   == <<ioOwner, fgWaiters, closed>>
cancel == <<activeRead, cancelRequested, readCancelled>>
sync   == <<lock, cancel, asleep>>
etags  == <<latest, history, coordGen>>
degr   == <<degradedBusy, refreshDue>>
main   == <<closing, closeTarget>>
device == <<sess, gen, boot, writers, faults>>
rest   == <<etags, degr, main, device>>
poll   == <<pollEtag, pollNext, parts>>
req    == <<job, result, ask, expired, known, left>>
client == <<req, deadline>>
local  == <<poll, req, deadline, reply>>
vars   == <<sync, rest, local, phase>>

Threads == Clients \cup {Poller}

\* ETags are pairs, so those of different boots of the device differ.
NoEtag   == <<0, 0>>                    \* None
ZeroEtag == <<0, 1>>                    \* "0": ask for the whole datastore
DeviceEtag == <<boot, Len(writers)>>

\* A response: its ETag, the ETag its body is a delta from ("0" for a whole
\* datastore), and whether it carries a body (200) or not (304).
Reply(etag, base, fresh) == [etag |-> etag, base |-> base, fresh |-> fresh]
NoReply == Reply(NoEtag, NoEtag, FALSE)

Ident(c) == IF c \in Anonymous THEN NoClient ELSE c

Init ==
  /\ ioOwner = "none" /\ fgWaiters = 0
  /\ activeRead = FALSE /\ cancelRequested = FALSE /\ readCancelled = FALSE
  /\ closed = FALSE /\ asleep = {}
  /\ degradedBusy = FALSE /\ refreshDue = TRUE
  /\ latest = NoEtag /\ history = <<>> /\ coordGen = 0
  /\ phase = [t \in Threads |->
                IF t # Poller THEN "idle"
                ELSE IF NativeLongPoll THEN "top" ELSE "done"]
  /\ job = [c \in Clients |-> "none"]
  /\ reply = [t \in Threads |-> NoReply]
  /\ result = [c \in Clients |-> "ok"]
  /\ pollEtag = ZeroEtag /\ pollNext = "release" /\ parts = 0
  /\ deadline = [c \in Clients |-> "none"]
  /\ ask = [c \in Clients |-> [path |-> "waitPoll", etag |-> ZeroEtag]]
  /\ expired = {}
  /\ left = [c \in Clients |-> MaxRequests]
  /\ closing = "no" /\ closeTarget = FALSE
  /\ sess = "none" /\ gen = 0
  /\ boot = 1 /\ writers = <<>> /\ faults = 0
  /\ known = [c \in Clients |-> IF c \in Returning THEN DeviceEtag ELSE ZeroEtag]

Goto(t, p) == phase' = [phase EXCEPT ![t] = p]

-----------------------------------------------------------------------------
(* The device and the datastore session under the coordinator.             *)

\* A change made at the front panel or by another controller.
DeviceChanges ==
  /\ Len(writers) < MaxVersion
  /\ writers' = Append(writers, NoClient)
  /\ UNCHANGED <<sync, local, etags, degr, main, phase, sess, gen, boot,
                 faults>>

\* A power cycle: the open session is dead, and nobody knows it yet.
DeviceResets ==
  /\ faults < MaxFaults
  /\ faults' = faults + 1
  /\ boot' = boot + 1
  /\ writers' = <<>>
  /\ sess' = IF sess = "live" THEN "dead" ELSE sess
  /\ UNCHANGED <<sync, local, etags, degr, main, phase, gen>>

\* ManagedDatastore._ensure_session opens a new session inside the call.
NextGeneration == gen + 1

OpenSession(t) ==
  /\ phase[t] = "call"
  /\ sess = "none"
  /\ sess' = "live"
  /\ gen' = NextGeneration
  /\ UNCHANGED <<sync, local, etags, degr, main, phase, boot, writers,
                 faults>>

\* An operation on a session that turns out to be gone discards it; a healthy
\* session may also be lost, stay silent or answer with malformed frames.
Fault == faults < MaxFaults /\ faults' = faults + 1

\* The exception and the session an unsuccessful datastore call leaves.
Failure(why) ==
  \/ sess = "none" /\ sess' = sess /\ Fault
  \/ sess = "dead" /\ why = "caught" /\ sess' = "none" /\ UNCHANGED faults
  \/ sess = "live" /\ why = "caught" /\ sess' \in {"live", "none"} /\ Fault
  \/ sess = "live" /\ why = "other" /\ sess' = sess /\ Fault

\* datastore.get or datastore.post raises.  A write that got no reply may
\* have reached the device all the same.
CallFails(t) ==
  /\ phase[t] = "call"
  /\ \E why \in {"caught", "other"} :
       /\ Failure(why)
       /\ result' = IF t = Poller \/ job[t] = "postread" THEN result
                    ELSE [result EXCEPT ![t] = why]
  /\ \/ UNCHANGED writers
     \/ /\ t # Poller /\ job[t] = "post"
        /\ sess = "live" /\ Len(writers) < MaxVersion
        /\ writers' = Append(writers, Ident(t))
  /\ Goto(t, "release")
  /\ UNCHANGED <<sync, etags, degr, poll, main, reply, gen, boot, job,
                 deadline, ask, expired, known, left>>

\* datastore.get(..., etag="0"): the whole datastore.
CallReads(t) ==
  /\ phase[t] = "call" /\ sess = "live"
  /\ IF t = Poller THEN pollEtag = ZeroEtag ELSE job[t] # "post"
  /\ reply' = [reply EXCEPT ![t] = Reply(DeviceEtag, ZeroEtag, TRUE)]
  /\ Goto(t, "reply")
  /\ UNCHANGED <<rest, sync, client, poll>>

\* datastore.post; writing the value already there changes nothing.
CallWrites(c) ==
  /\ phase[c] = "call" /\ sess = "live" /\ job[c] = "post"
  /\ \/ UNCHANGED writers
     \/ Len(writers) < MaxVersion /\ writers' = Append(writers, Ident(c))
  /\ Goto(c, "reply")
  /\ UNCHANGED <<sync, local, etags, degr, main, sess, gen, boot, faults>>

-----------------------------------------------------------------------------
(* Ownership of the USB pipe.                                               *)

\* _request_active_poll_cancel_locked returns a read for the caller to cancel.
CancelWanted == activeRead /\ ~cancelRequested

\* The finally clause of _acquire_foreground_io; w counts the caller.
WaitersAfter(w) == w - 1

\* _acquire_foreground_io leaves its loop.
Grant(c, w) ==
  /\ ioOwner = "none"
  /\ ioOwner' = "foreground"
  /\ fgWaiters' = WaitersAfter(w)
  /\ asleep' = {}
  /\ deadline' = [deadline EXCEPT ![c] = "none"]
  /\ Goto(c, "call")
  /\ UNCHANGED <<cancelRequested, readCancelled, result>>

\* Cancelling the poller's read starts the caller's preemption budget.
PreemptPoller(c) ==
  IF ioOwner = "poller" /\ CancelWanted
  THEN /\ cancelRequested' = TRUE
       /\ readCancelled' = TRUE
       /\ deadline' = [deadline EXCEPT ![c] = IF @ = "none" THEN "armed" ELSE @]
  ELSE UNCHANGED <<cancelRequested, readCancelled, deadline>>

\* The pipe is busy: wait, with `sleepers` the threads already waiting.
SleepForIo(c, w, sleepers) ==
  /\ ioOwner # "none"
  /\ ioOwner = "poller" => deadline[c] # "expired"
  /\ PreemptPoller(c)
  /\ fgWaiters' = w
  /\ asleep' = sleepers \cup {c}
  /\ Goto(c, "acquire")
  /\ UNCHANGED <<ioOwner, result>>

\* "foreground preemption budget exceeded": DatastoreTimeout.
GiveUp(c, w) ==
  /\ ioOwner = "poller" /\ deadline[c] = "expired"
  /\ IF CancelWanted THEN cancelRequested' = TRUE /\ readCancelled' = TRUE
                     ELSE UNCHANGED <<cancelRequested, readCancelled>>
  /\ deadline' = [deadline EXCEPT ![c] = "none"]
  /\ result' = [result EXCEPT ![c] = "caught"]
  /\ fgWaiters' = WaitersAfter(w)
  /\ asleep' = {}
  /\ Goto(c, IF job[c] = "degraded" THEN "settle" ELSE "idle")
  /\ UNCHANGED ioOwner

EnterForeground(c) ==
  /\ phase[c] = "enter"
  /\ Grant(c, fgWaiters + 1) \/ SleepForIo(c, fgWaiters + 1, {})
  /\ UNCHANGED <<rest, poll, activeRead, closed, reply, job, ask, expired,
                 known, left>>

RetryForeground(c) ==
  /\ phase[c] = "acquire" /\ c \notin asleep
  /\ \/ Grant(c, fgWaiters)
     \/ SleepForIo(c, fgWaiters, asleep)
     \/ GiveUp(c, fgWaiters)
  /\ UNCHANGED <<rest, poll, activeRead, closed, reply, job, ask, expired,
                 known, left>>

PreemptionBudgetEnds(c) ==
  /\ phase[c] = "acquire" /\ deadline[c] = "armed"
  /\ deadline' = [deadline EXCEPT ![c] = "expired"]
  /\ asleep' = asleep \ {c}
  /\ UNCHANGED <<rest, lock, cancel, poll, req, phase, reply>>

PollerMayAcquire_IgnoresOwner == fgWaiters = 0
PollerMayAcquire_IgnoresWaiters == ioOwner = "none"
PollerMayAcquire == ioOwner = "none" /\ fgWaiters = 0

\* _acquire_poller_io
AcquirePoller ==
  /\ phase[Poller] = "acquire" /\ Poller \notin asleep
  /\ \/ closed /\ Goto(Poller, "done") /\ UNCHANGED <<ioOwner, asleep>>
     \/ /\ ~closed /\ PollerMayAcquire
        /\ ioOwner' = "poller" /\ Goto(Poller, "call") /\ UNCHANGED asleep
     \/ /\ ~closed /\ ~PollerMayAcquire
        /\ asleep' = asleep \cup {Poller} /\ UNCHANGED <<ioOwner, phase>>
  /\ UNCHANGED <<rest, local, cancel, fgWaiters, closed>>

\* Where a thread goes once _release_io has run: a client answers its HTTP
\* request, or finishes the degraded refresh it made inside wait_for_change.
AfterRelease_LossEndsPolling(t) ==
  IF t = Poller THEN IF sess = "none" THEN "done" ELSE "nap"
  ELSE IF job[t] = "degraded" THEN "settle" ELSE "idle"
AfterRelease(t) == IF t = Poller THEN "nap"
                   ELSE IF job[t] = "degraded" THEN "settle" ELSE "idle"

\* Threads still waiting after _release_io.
SleepersAfterRelease == {}

\* _release_io, and the ETag the client takes from a successful read.
ReleaseIo(t) ==
  /\ phase[t] = "release"
  /\ ioOwner' = "none"
  /\ activeRead' = FALSE /\ cancelRequested' = FALSE
  /\ asleep' = SleepersAfterRelease
  /\ Goto(t, AfterRelease(t))
  /\ known' = IF t # Poller /\ job[t] \in {"read", "other"} /\ result[t] = "ok"
              THEN [known EXCEPT ![t] = reply[t].etag] ELSE known
  /\ reply' = [reply EXCEPT ![t] = NoReply]
  /\ UNCHANGED <<rest, poll, fgWaiters, readCancelled, closed, job,
                 result, deadline, ask, expired, left>>

-----------------------------------------------------------------------------
(* Responses become coordinated state.                                      *)

\* _reset_if_session_generation_changed, called by _payload_from_response.
ResetOnNewSession_KeepsHistory ==
  IF coordGen = gen
  THEN UNCHANGED <<etags, asleep>>
  ELSE coordGen' = gen /\ latest' = NoEtag /\ asleep' = {} /\ UNCHANGED history
ResetOnNewSession ==
  IF coordGen = gen
  THEN UNCHANGED <<etags, asleep>>
  ELSE /\ coordGen' = gen
       /\ latest' = NoEtag
       /\ history' = <<>>
       /\ asleep' = {}

\* _payload_from_response; after a write, post() goes on to read the poll path.
TakePayload(t) ==
  /\ phase[t] = "reply"
  /\ ResetOnNewSession
  /\ IF t # Poller /\ job[t] = "post"
     THEN Goto(t, "call") /\ job' = [job EXCEPT ![t] = "postread"]
     ELSE Goto(t, "publish") /\ UNCHANGED job
  /\ UNCHANGED <<lock, cancel, degr, poll, main, device, reply, result,
                 deadline, ask, expired, known, left>>

\* The poller names the ETag its request carried; other callers take the
\* latest ETag the coordinator knows.
FromEtag_AlwaysLatest(t) == latest
FromEtag(t) == IF t = Poller THEN pollEtag ELSE latest

\* Only a write's own refresh is published with an origin.
Origin(t) == IF t # Poller /\ job[t] = "postread" THEN Ident(t) ELSE NoClient

\* deque(maxlen=history_size).append
Push_Unbounded(h, x) == Append(h, x)
Push(h, x) == Append(IF Len(h) < HistorySize THEN h ELSE Tail(h), x)

Transition(t) == [from |-> FromEtag(t), to |-> reply[t].etag,
                  base |-> reply[t].base, origin |-> Origin(t)]

\* Threads still waiting after _publish_payload.
SleepersAfterPublish_NoNotify == asleep
SleepersAfterPublish == {}

\* A 200 or 304 of the device carries an ETag: the early return of
\* _publish_payload for a payload without one is not modelled.
Publish(t) ==
  /\ phase[t] = "publish"
  /\ IF t # Poller /\ job[t] = "other"
     THEN UNCHANGED <<latest, history, asleep>>
     ELSE /\ history' = IF reply[t].fresh /\ FromEtag(t) \notin {NoEtag, reply[t].etag}
                        THEN Push(history, Transition(t)) ELSE history
          /\ latest' = reply[t].etag
          /\ asleep' = SleepersAfterPublish
  /\ Goto(t, "release")
  /\ UNCHANGED <<local, lock, cancel, degr, main, device, coordGen>>

-----------------------------------------------------------------------------
(* _poll_loop.                                                              *)

\* Top of the loop: the ETag to poll from is read before the pipe is acquired.
PollerStarts ==
  /\ phase[Poller] = "top"
  /\ IF closed
     THEN Goto(Poller, "done") /\ UNCHANGED pollEtag
     ELSE /\ Goto(Poller, "acquire")
          /\ pollEtag' = IF latest = NoEtag THEN ZeroEtag ELSE latest
  /\ UNCHANGED <<rest, sync, client, reply, pollNext, parts>>

\* The long-poll GET is written; an initial refresh is CallReads instead.
PollerSends ==
  /\ phase[Poller] = "call" /\ sess = "live" /\ pollEtag # ZeroEtag
  /\ parts' = 0
  /\ Goto(Poller, "listen")
  /\ UNCHANGED <<rest, sync, client, reply, pollEtag, pollNext>>

\* should_cancel, asked before each logical frame is read; an initial refresh
\* asks it too.
PollerChecksClosed ==
  /\ \/ /\ phase[Poller] = "listen"
        /\ Goto(Poller, IF closed THEN "release" ELSE "begin")
     \/ /\ phase[Poller] = "call" /\ sess = "live" /\ pollEtag = ZeroEtag /\ closed
        /\ Goto(Poller, "release")
  /\ UNCHANGED <<rest, sync, local>>

\* A read that is registered while a foreground request waits is cancelled.
CancelOnRegister_Never == FALSE
CancelOnRegister == fgWaiters > 0

\* read_started(read): _set_active_poll_read registers the read.
PollerRegistersRead ==
  /\ phase[Poller] = "begin"
  /\ activeRead' = TRUE
  /\ cancelRequested' = CancelOnRegister
  /\ readCancelled' = CancelOnRegister
  /\ asleep' = {}
  /\ Goto(Poller, "reading")
  /\ UNCHANGED <<rest, local, lock>>

\* The response to If-None-Match: pollEtag.  ETags of another boot mean
\* nothing to the device, which then sends the whole datastore.
PollReply ==
  IF pollEtag = DeviceEtag THEN Reply(DeviceEtag, DeviceEtag, FALSE)
  ELSE Reply(DeviceEtag, IF pollEtag[1] = boot THEN pollEtag ELSE ZeroEtag, TRUE)

\* read.read() returns part of the response, in the middle of a logical
\* frame ("begin") or at the end of one ("listen"), or its last part.
PollReadDelivers ==
  /\ phase[Poller] = "reading" /\ ~readCancelled /\ sess = "live"
  /\ \/ /\ parts < MaxParts /\ parts' = parts + 1
        /\ pollNext' \in {"begin", "listen"}
        /\ UNCHANGED reply
     \/ /\ pollNext' = "reply"
        /\ reply' = [reply EXCEPT ![Poller] = PollReply]
        /\ parts' = 0
  /\ Goto(Poller, "readdone")
  /\ UNCHANGED <<rest, sync, client, pollEtag>>

\* read.read() raises InterruptedError (cancelled), times out, or finds the
\* device gone.
PollReadFails ==
  /\ phase[Poller] = "reading"
  /\ IF readCancelled THEN UNCHANGED <<sess, faults>>
     ELSE \E why \in {"caught", "other"} : Failure(why)
  /\ pollNext' = "release" /\ parts' = 0
  /\ Goto(Poller, "readdone")
  /\ UNCHANGED <<sync, client, etags, degr, main, reply, pollEtag,
                 gen, boot, writers>>

\* read_started(None): the read is unregistered.
PollerUnregistersRead ==
  /\ phase[Poller] = "readdone"
  /\ activeRead' = FALSE /\ cancelRequested' = FALSE /\ readCancelled' = FALSE
  /\ asleep' = {}
  /\ closeTarget' = FALSE
  /\ Goto(Poller, pollNext) /\ pollNext' = "release"
  /\ UNCHANGED <<client, reply, pollEtag, parts, lock, etags, degr, device, closing>>

\* The pause between polls, or the end of the thread.
PollerNaps ==
  /\ phase[Poller] = "nap"
  /\ Goto(Poller, IF closed THEN "done" ELSE "top")
  /\ UNCHANGED <<rest, sync, local>>

-----------------------------------------------------------------------------
(* Requests of HTTP handler threads.                                        *)

\* get, read, post or wait_for_change is called.
Begin(c) ==
  /\ phase[c] = "idle" /\ left[c] > 0
  /\ left' = [left EXCEPT ![c] = @ - 1]
  /\ result' = [result EXCEPT ![c] = "ok"]
  /\ expired' = expired \ {c}
  /\ \E r \in Requests :
       IF r \in Waits
       THEN /\ ask' = [ask EXCEPT ![c] = [path |-> r, etag |-> known[c]]]
            /\ Goto(c, "wait") /\ UNCHANGED job
       ELSE /\ job' = [job EXCEPT ![c] = r]
            /\ Goto(c, "enter") /\ UNCHANGED ask
  /\ UNCHANGED <<rest, sync, poll, reply, deadline, known>>

\* _find_wait_outcome_locked: the newest transition from etag that is not the
\* client's own; else whether a direct read is called for.  Of its own
\* transitions from etag the oldest decides.
Matches(etag) == {i \in DOMAIN history : history[i].from = etag}
Visible(etag, id) == {i \in Matches(etag) : id = NoClient \/ history[i].origin # id}
WaitOutcome(etag, id) ==
  IF Visible(etag, id) # {} THEN "cached"
  ELSE IF Matches(etag) # {}
       THEN IF latest # history[Min(Matches(etag))].to THEN "refresh" ELSE "stay"
       ELSE IF latest \notin {NoEtag, etag} THEN "refresh" ELSE "stay"

Outcome(c) == WaitOutcome(ask[c].etag, Ident(c))
Awaits(c) == phase[c] = "wait" /\ c \notin asleep
MustEnd_OnlyClosed(c) == closed
MustEnd(c) == closed \/ c \in expired

\* A cached transition answers a wait on the poll path.
WaitDelivers(c) ==
  /\ Awaits(c) /\ Outcome(c) = "cached" /\ ask[c].path = "waitPoll"
  /\ known' = [known EXCEPT ![c] =
                 history[Max(Visible(ask[c].etag, Ident(c)))].to]
  /\ Goto(c, "idle")
  /\ UNCHANGED <<rest, sync, poll, reply, job, result, deadline, ask,
                 expired, left>>

\* Otherwise a known change is answered by a direct read of the path.
WaitRefreshes(c) ==
  /\ Awaits(c)
  /\ \/ Outcome(c) = "refresh"
     \/ Outcome(c) = "cached" /\ ask[c].path # "waitPoll"
  /\ job' = [job EXCEPT ![c] = IF ask[c].path = "waitOther" THEN "other" ELSE "read"]
  /\ result' = [result EXCEPT ![c] = "ok"]
  /\ Goto(c, "enter")
  /\ UNCHANGED <<rest, sync, poll, reply, deadline, ask, expired, known,
                 left>>

\* 304 at the HTTP deadline, or at once when the coordinator is closed.
WaitEnds(c) ==
  /\ Awaits(c) /\ Outcome(c) = "stay" /\ MustEnd(c)
  /\ Goto(c, "idle")
  /\ UNCHANGED <<rest, sync, local>>

WaitSleeps(c) ==
  /\ Awaits(c) /\ Outcome(c) = "stay" /\ ~MustEnd(c)
  /\ NativeLongPoll \/ degradedBusy
  /\ asleep' = asleep \cup {c}
  /\ UNCHANGED <<rest, local, lock, cancel, phase>>

\* Degraded mode: one waiter at a time reads the poll path for everyone.
RefreshFree_IgnoresBusy == refreshDue
RefreshFree == refreshDue /\ ~degradedBusy

WaitStartsRefresh(c) ==
  /\ Awaits(c) /\ Outcome(c) = "stay" /\ ~MustEnd(c)
  /\ ~NativeLongPoll /\ RefreshFree
  /\ degradedBusy' = TRUE
  /\ refreshDue' = FALSE
  /\ job' = [job EXCEPT ![c] = "degraded"]
  /\ result' = [result EXCEPT ![c] = "ok"]
  /\ Goto(c, "enter")
  /\ UNCHANGED <<sync, etags, poll, main, device, reply, deadline, ask,
                 expired, known, left>>

\* The finally clause of that refresh; an exception it does not catch ends
\* the request.
RefreshSettles(c) ==
  /\ phase[c] = "settle"
  /\ degradedBusy' = FALSE
  /\ asleep' = {}
  /\ Goto(c, IF result[c] = "other" THEN "idle" ELSE "wait")
  /\ UNCHANGED <<local, lock, cancel, etags, main, device, refreshDue>>

\* The client is inside the degraded refresh of its wait_for_change.
Refreshing(c) == job[c] = "degraded" /\ phase[c] \notin {"idle", "wait"}

\* Timers: the HTTP wait deadline, which passes during a refresh too, and the
\* degraded refresh interval.
WaitDeadline(c) ==
  /\ phase[c] = "wait" \/ Refreshing(c)
  /\ c \notin expired
  /\ expired' = expired \cup {c}
  /\ asleep' = IF phase[c] = "wait" THEN asleep \ {c} ELSE asleep
  /\ UNCHANGED <<rest, lock, cancel, poll, phase, reply, job, result,
                 deadline, ask, known, left>>

RefreshInterval ==
  /\ ~NativeLongPoll /\ ~refreshDue
  /\ refreshDue' = TRUE
  /\ UNCHANGED <<sync, local, etags, main, device, degradedBusy, phase>>

-----------------------------------------------------------------------------
(* close().                                                                 *)

\* Under the lock: close, claim the right to cancel the read, wake everybody.
CloseWith(flag) ==
  /\ MayClose /\ closing = "no"
  /\ closed' = flag
  /\ asleep' = {}
  /\ IF CancelWanted
     THEN cancelRequested' = TRUE /\ closeTarget' = TRUE /\ closing' = "cancel"
     ELSE closing' = "join" /\ UNCHANGED <<cancelRequested, closeTarget>>
  /\ UNCHANGED <<local, etags, degr, device, ioOwner, fgWaiters,
                 activeRead, readCancelled, phase>>

Close_OnlyCancels == CloseWith(closed)
Close == CloseWith(TRUE)

\* Outside the lock: cancel the captured read, which may be over by now.
CloseCancels ==
  /\ closing = "cancel"
  /\ closing' = "join"
  /\ readCancelled' = (readCancelled \/ closeTarget)
  /\ UNCHANGED <<local, lock, etags, degr, device, activeRead,
                 cancelRequested, asleep, closeTarget, phase>>

\* worker.join() returns.
CloseReturns ==
  /\ closing = "join" /\ phase[Poller] = "done"
  /\ closing' = "done"
  /\ UNCHANGED <<sync, local, etags, degr, device, closeTarget, phase>>

\* Nothing is left to do; without this step a finished run looks like deadlock.
Finished ==
  /\ phase[Poller] = "done"
  /\ \A c \in Clients : phase[c] = "idle" /\ left[c] = 0
  /\ MayClose => closing = "done"
  /\ UNCHANGED vars

-----------------------------------------------------------------------------
\* What a thread that holds the pipe does, whoever it is.
PipeStep(t) == \/ OpenSession(t) \/ CallFails(t) \/ CallReads(t)
               \/ TakePayload(t) \/ Publish(t) \/ ReleaseIo(t)

PollerStep == \/ PollerStarts \/ AcquirePoller \/ PipeStep(Poller)
              \/ PollerSends \/ PollerChecksClosed \/ PollerRegistersRead
              \/ PollReadDelivers \/ PollReadFails \/ PollerUnregistersRead
              \/ PollerNaps

\* What a client does once it has begun a request, timers aside.
ClientStep(c) == \/ EnterForeground(c) \/ RetryForeground(c)
                 \/ PipeStep(c) \/ CallWrites(c)
                 \/ WaitDelivers(c) \/ WaitRefreshes(c) \/ WaitEnds(c)
                 \/ WaitSleeps(c) \/ WaitStartsRefresh(c) \/ RefreshSettles(c)

Timer == \/ \E c \in Clients : PreemptionBudgetEnds(c) \/ WaitDeadline(c)
         \/ RefreshInterval

Closer == CloseCancels \/ CloseReturns

Next ==
  \/ PollerStep
  \/ \E c \in Clients : Begin(c) \/ ClientStep(c)
  \/ Timer
  \/ Close \/ Closer
  \/ DeviceChanges \/ DeviceResets
  \/ Finished

Spec == Init /\ [][Next]_vars

\* Threads are scheduled and a timer that is set fires; requests, changes of
\* the device, faults and the shutdown need not happen.
Fairness ==
  /\ WF_vars(PollerStep)
  /\ \A c \in Clients : WF_vars(ClientStep(c)) /\ WF_vars(WaitDeadline(c))
  /\ WF_vars(RefreshInterval)
  /\ WF_vars(Closer)

FairSpec == Spec /\ Fairness

-----------------------------------------------------------------------------
(* Properties.                                                              *)

ClientPhases == {"idle", "enter", "acquire", "call", "reply", "publish",
                 "release", "wait", "settle"}
PollerPhases == {"top", "acquire", "call", "listen", "begin", "reading",
                 "readdone", "reply", "publish", "release", "nap", "done"}

Etags == Nat \X Nat
Replies == [etag : Etags, base : Etags, fresh : BOOLEAN]
Origins == Clients \cup {NoClient}
Transitions == [from : Etags, to : Etags, base : Etags, origin : Origins]

SyncOK ==
  /\ ioOwner \in {"none", "foreground", "poller"}
  /\ fgWaiters \in Nat
  /\ activeRead \in BOOLEAN /\ cancelRequested \in BOOLEAN
  /\ readCancelled \in BOOLEAN /\ closed \in BOOLEAN
  /\ asleep \subseteq Threads

StateOK ==
  /\ degradedBusy \in BOOLEAN /\ refreshDue \in BOOLEAN
  /\ latest \in Etags /\ coordGen \in Nat
  /\ history \in Seq(Transitions) /\ Len(history) <= HistorySize
  /\ closing \in {"no", "cancel", "join", "done"} /\ closeTarget \in BOOLEAN

DeviceOK ==
  /\ sess \in {"none", "live", "dead"} /\ gen \in Nat
  /\ boot \in Nat /\ writers \in Seq(Origins) /\ faults \in Nat

PhaseOK ==
  /\ phase \in [Threads -> ClientPhases \cup PollerPhases]
  /\ \A c \in Clients : phase[c] \in ClientPhases
  /\ phase[Poller] \in PollerPhases

PollOK ==
  /\ pollEtag \in Etags /\ parts \in Nat
  /\ pollNext \in {"begin", "listen", "reply", "release"}

ReplyOK == reply \in [Threads -> Replies]

ClientOK ==
  /\ job \in [Clients -> {"none", "read", "other", "post", "postread", "degraded"}]
  /\ result \in [Clients -> {"ok", "caught", "other"}]
  /\ deadline \in [Clients -> {"none", "armed", "expired"}]
  /\ ask \in [Clients -> [path : Waits, etag : Etags]]
  /\ expired \subseteq Clients
  /\ known \in [Clients -> Etags] /\ left \in [Clients -> Nat]

\* The fields of DatastoreCoordinator and the locals of its threads keep
\* their types, and the history its bound.
TypeOK == /\ SyncOK /\ StateOK /\ DeviceOK /\ PhaseOK
          /\ PollOK /\ ReplyOK /\ ClientOK

\* The thread is between acquiring and releasing the pipe.
HoldsPipe(t) == phase[t] \in {"call", "listen", "begin", "reading", "readdone",
                              "reply", "publish", "release"}

\* The single USB pipe: no two threads are ever inside a datastore operation
\* or between its response and its publication, whatever is cancelled, times
\* out or fails (_io_busy, _io_owner).
PipeExclusive ==
  \A s, t \in Threads : HoldsPipe(s) /\ HoldsPipe(t) => s = t

\* A registered long-poll read never outlives the arrival of a foreground
\* request uncancelled: whichever of the two comes first, the other sees it
\* (_set_active_poll_read against _acquire_foreground_io).
WaitingRequestCancelsPoll ==
  activeRead /\ fgWaiters > 0 => cancelRequested

\* No lost wakeup: a thread inside condition.wait that nobody has notified
\* has nothing to do.  Every change a waiting thread waits for is announced.
NoLostWakeup ==
  \A t \in asleep :
    IF t = Poller THEN ~closed /\ ~PollerMayAcquire
    ELSE IF phase[t] = "acquire" THEN ioOwner # "none"
    ELSE /\ Outcome(t) = "stay" /\ ~MustEnd(t)
         /\ NativeLongPoll \/ degradedBusy

\* A cached body applies to the ETag it is filed under: it is the device's
\* delta from exactly that ETag, or a whole datastore.
DeltasMatchTheirEtag ==
  \A i \in DOMAIN history : history[i].base \in {ZeroEtag, history[i].from}

\* The newest transition leads to the ETag the coordinator holds for current.
HistoryEndsAtLatest ==
  history # <<>> => history[Len(history)].to = latest

\* e is older than f, both of the same boot of the device.
Before(e, f) == e[1] = f[1] /\ e[2] < f[2]

\* Within a session the coordinated ETag never goes back: responses are
\* published in the order the device gave them (publish before release).
LatestNeverGoesBack ==
  [][ ~Before(latest', latest) ]_vars

\* The degraded refresh is single flight, and its flag is never left set: it
\* is up exactly while one client is between taking it and its finally clause
\* (_degraded_refresh_in_progress).
DegradedRefreshIsSingle ==
  /\ \A b, c \in Clients : Refreshing(b) /\ Refreshing(c) => b = c
  /\ degradedBusy <=> \E c \in Clients : Refreshing(c)

\* Every foreground request gets the pipe or gives up: neither the poller nor
\* a lost wakeup keeps it waiting for ever (_acquire_foreground_io).
ForegroundServed ==
  \A c \in Clients : phase[c] = "acquire" ~> phase[c] # "acquire"

\* Every wait_for_change returns, in native and in degraded mode.
WaitersAnswered == \A c \in Clients : phase[c] = "wait" ~> phase[c] = "idle"

\* Once the device rests, the coordinated ETag becomes and stays the device's:
\* preemption, failures and reconnects never leave the poller behind for good.
CatchesUp == <>[](closed \/ latest = DeviceEtag)

\* close() returns: the poller always notices, wherever it is.
CloseCompletes == closing # "no" ~> closing = "done"

-----------------------------------------------------------------------------
(* What the documentation says, and the code does not do.                   *)

\* Who made the changes a client that waits from ask[c].etag has not seen and
\* the coordinator has.
Unseen(c) ==
  LET e == ask[c].etag
  IN  IF e[1] = boot /\ latest[1] = boot
      THEN {writers[i] : i \in e[2] + 1 .. latest[2]} ELSE {}

\* "does not wake that client's waiter solely for the write it can identify as
\* originating from the same client": a waiter that has changes of others
\* before it is not left waiting.
ForeignChangesWake ==
  \A c \in Clients :
    phase[c] = "wait" /\ ~(Unseen(c) \subseteq {Ident(c)}) => Outcome(c) # "stay"

\* "discards stale datastore ETag and delta history from the previous USB
\* session": no transition leads from an ETag of an earlier boot.
HistoryWithinSession ==
  \A i \in DOMAIN history :
    history[i].from = ZeroEtag \/ history[i].from[1] = history[i].to[1]

\* "sends the foreground operation within the configured foreground
\* preemption budget": a request that waits for a long-poll read to be
\* cancelled has a deadline.
PreemptionIsBounded ==
  \A c \in Clients \cap asleep :
    phase[c] = "acquire" /\ ioOwner = "poller" /\ activeRead => deadline[c] # "none"

=============================================================================
