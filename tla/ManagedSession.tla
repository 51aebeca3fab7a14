--------------------------- MODULE ManagedSession ---------------------------
(***************************************************************************)
(* ManagedDatastore of motu_proxy/datastore.py: opens the USB session on   *)
(* demand, drops it when the device is lost, spaces the attempts to open   *)
(* it again, and is closed by the thread that shuts the proxy down.        *)
(*                                                                         *)
(* The coordinator lets one thread at a time call get or post and read the *)
(* payload of its response, so there is one caller; _operation_lock is     *)
(* held in every phase but "idle" and "payload".  A block under            *)
(* _state_lock is one step.  Time is the time left until _next_retry_at.   *)
(***************************************************************************)
EXTENDS Naturals, FiniteSetsExt

CONSTANTS InitialDelay,  \* _initial_delay_s
          MaxDelay,      \* _max_delay_s
          ConfigDelay,   \* _configuration_error_retry_delay_s
          MaxFaults      \* bound: losses, and errors of a device that is there

ASSUME DelaysAssumption ==
  /\ {InitialDelay, MaxDelay, ConfigDelay, MaxFaults} \subseteq Nat
  /\ InitialDelay <= MaxDelay

VARIABLES
  plugged,    \* the device is there
  attached,   \* the session belongs to the device that is there
  handles,    \* device nodes open
  session,    \* _datastore and _context are not None
  gen,        \* _session_generation
  state,      \* _reconnect_state
  lastError,  \* _last_reconnect_error
  retryDelay, \* _retry_delay_s
  scheduled,  \* _scheduled_retry_delay_s
  wait,       \* max(0, _next_retry_at - now)
  closed,     \* _closed
  live,       \* whose response the session object holds
  kept,       \* whose response _remember_response_state kept
  pc,         \* where the caller is
  exc,        \* the exception it has caught
  opens,      \* times it has called the opener in this call
  sends,      \* times it has called the operation in this call
  factor,     \* 2 to the number of losses and failed opens since a session was
              \* last opened, counted until it has reached MaxDelay
  faults      \* faults so far

device == <<plugged, attached, faults>>
sched  == <<retryDelay, scheduled, wait, factor>>
conn   == <<session, gen, handles, state, lastError, closed>>
memory == <<live, kept>>
call   == <<pc, exc, opens, sends>>
vars   == <<device, sched, conn, memory, call>>

Init ==
  /\ plugged \in BOOLEAN /\ attached = FALSE /\ faults = 0
  /\ retryDelay = InitialDelay /\ scheduled = InitialDelay
  /\ wait = 0 /\ factor = 1
  /\ session = FALSE /\ gen = 0 /\ handles = 0
  /\ state = "unavailable" /\ lastError = "none" /\ closed = FALSE
  /\ live = "none" /\ kept = "none"
  /\ pc = "idle" /\ exc = "none" /\ opens = 0 /\ sends = 0

-----------------------------------------------------------------------------
(* The device and the clock.                                                *)

Unplug ==
  /\ plugged /\ faults < MaxFaults
  /\ plugged' = FALSE /\ attached' = FALSE /\ faults' = faults + 1
  /\ UNCHANGED <<sched, conn, memory, call>>

Plug ==
  /\ ~plugged
  /\ plugged' = TRUE
  /\ UNCHANGED <<attached, faults, sched, conn, memory, call>>

Tick ==
  /\ wait > 0
  /\ wait' = wait - 1
  /\ UNCHANGED <<device, retryDelay, scheduled, factor, conn, memory, call>>

\* An error of a device that is there.
Fault == faults < MaxFaults /\ faults' = faults + 1

-----------------------------------------------------------------------------
(* Exceptions, by what is_reconnectable_device_loss tells apart.            *)

Errors == {"NoDevice",    \* the classes of DeviceDiscoveryError it names
           "Unreadable",  \* DeviceDiscoveryError, device node not readable
           "Unplugged",   \* OSError with an errno of RECONNECTABLE_USB_ERRNOS
           "OsError",     \* any other OSError
           "ShortWrite",  \* ShortUsbWrite
           "NoResponse",  \* DatastoreNoResponse, DatastoreTimeout
           "Other"}       \* DatastoreCancelled, ShortUsbFrame, ...

IsLoss(e, duringOpen) ==
  \/ e \in {"NoDevice", "Unplugged", "ShortWrite"}
  \/ duringOpen /\ e = "NoResponse"

\* _schedule_retry_locked
NextDelay == Min({MaxDelay, Max({InitialDelay, 2 * retryDelay})})

ScheduleRetry ==
  /\ wait' = retryDelay /\ scheduled' = retryDelay
  /\ retryDelay' = NextDelay
  /\ factor' = IF factor < MaxDelay THEN 2 * factor ELSE factor
  /\ state' = "backoff"

\* _schedule_configuration_error_retry_locked
ScheduleConfigRetry ==
  /\ wait' = ConfigDelay /\ scheduled' = ConfigDelay
  /\ state' = "configuration_error"
  /\ UNCHANGED <<retryDelay, factor>>

-----------------------------------------------------------------------------
(* _call.                                                                   *)

\* Every response already held is now somebody else's.
Aged(who) == IF who = "mine" THEN "old" ELSE who

CallStarts ==
  /\ pc = "idle"
  /\ pc' = "ensure" /\ exc' = "none" /\ opens' = 0 /\ sends' = 0
  /\ live' = Aged(live) /\ kept' = Aged(kept)
  /\ UNCHANGED <<device, sched, conn>>

\* _ensure_session up to the call of the opener
Refused_Never == FALSE
Refused == closed

MayOpen == ~session /\ wait = 0

EnsureSession ==
  /\ pc = "ensure"
  /\ \/ /\ Refused
        /\ pc' = "idle" /\ UNCHANGED <<state, opens>>
     \/ /\ ~Refused /\ session
        /\ pc' = "operate" /\ UNCHANGED <<state, opens>>
     \/ /\ ~Refused /\ MayOpen
        /\ pc' = "open" /\ state' = "reconnecting" /\ opens' = opens + 1
     \/ /\ ~Refused /\ ~session /\ ~MayOpen
        /\ pc' = "idle"
        /\ state' = IF state = "configuration_error" THEN state ELSE "backoff"
        /\ UNCHANGED opens
  /\ UNCHANGED <<device, sched, session, gen, handles, lastError, closed,
                 memory, exc, sends>>

\* UsbFsTransport.__exit__
HandlesAfterExit_Leaks == handles
HandlesAfterExit == handles - 1

\* The opener raises e: the next attempt has to wait.
OpenRaises(e) ==
  /\ lastError' = e
  /\ IF IsLoss(e, TRUE) THEN ScheduleRetry ELSE ScheduleConfigRetry
  /\ pc' = "idle"
  /\ UNCHANGED <<plugged, attached, session, gen, closed, memory, exc, opens, sends>>

\* find_motu_device, in the sysfs entries of this moment
FindDevice ==
  /\ pc = "open"
  /\ \/ /\ plugged /\ pc' = "connect"
        /\ UNCHANGED <<device, sched, conn, memory, exc, opens, sends>>
     \/ \E e \in {"NoDevice", "Unreadable"} :
          /\ IF ~plugged /\ e = "NoDevice" THEN UNCHANGED faults ELSE Fault
          /\ OpenRaises(e) /\ UNCHANGED handles

\* UsbFsTransport.__enter__: open the device node, which may be gone by now
OpenNode ==
  /\ pc = "connect"
  /\ \/ /\ plugged
        /\ handles' = handles + 1 /\ attached' = TRUE /\ pc' = "claim"
        /\ UNCHANGED <<plugged, faults, sched, session, gen, state, lastError,
                       closed, memory, exc, opens, sends>>
     \/ \E e \in {"Unplugged", "OsError"} :
          /\ IF ~plugged /\ e = "Unplugged" THEN UNCHANGED faults ELSE Fault
          /\ OpenRaises(e) /\ UNCHANGED handles

\* ... and claim the interface, or close the node again
ClaimInterface ==
  /\ pc = "claim"
  /\ \/ /\ attached /\ pc' = "init"
        /\ UNCHANGED <<device, sched, conn, memory, exc, opens, sends>>
     \/ \E e \in {"Unplugged", "OsError"} :
          /\ IF ~attached /\ e = "Unplugged" THEN UNCHANGED faults ELSE Fault
          /\ OpenRaises(e) /\ handles' = handles - 1

\* MotuUsbDatastore.init; an exception leaves through the transport's __exit__
InitDevice ==
  /\ pc = "init"
  /\ \/ /\ attached /\ pc' = "install"
        /\ UNCHANGED <<device, sched, conn, memory, exc, opens, sends>>
     \/ \E e \in {"Unplugged", "OsError", "ShortWrite", "NoResponse", "Other"} :
          /\ IF ~attached /\ e = "Unplugged" THEN UNCHANGED faults ELSE Fault
          /\ OpenRaises(e) /\ handles' = HandlesAfterExit

\* The rest of _ensure_session: a context that is not needed any more is
\* exited, otherwise it becomes the session.
DelayAfterOpen_Kept == retryDelay
DelayAfterOpen == InitialDelay

NextGeneration_Same == gen
NextGeneration == gen + 1

InstallSession ==
  /\ pc = "install"
  /\ IF closed \/ session
     THEN /\ handles' = HandlesAfterExit
          /\ pc' = IF closed THEN "idle" ELSE "operate"
          /\ UNCHANGED <<sched, session, gen, state, lastError, live>>
     ELSE /\ session' = TRUE
          /\ gen' = NextGeneration
          /\ state' = "available" /\ lastError' = "none"
          /\ retryDelay' = DelayAfterOpen /\ scheduled' = InitialDelay
          /\ wait' = 0 /\ factor' = 1
          /\ live' = "none"
          /\ pc' = "operate" /\ UNCHANGED handles
  /\ UNCHANGED <<device, closed, kept, exc, opens, sends>>

OperationSucceeds ==
  /\ pc = "operate" /\ attached
  /\ sends' = sends + 1
  /\ live' = "mine"
  /\ pc' = "remember"
  /\ UNCHANGED <<device, sched, conn, kept, exc, opens>>

\* The operation fails before its response is collected or while it is.
OperationFails ==
  /\ pc = "operate"
  /\ \E e \in Errors \ {"NoDevice", "Unreadable"} :
       /\ IF ~attached /\ e \in {"Unplugged", "ShortWrite"} THEN UNCHANGED faults ELSE Fault
       /\ exc' = e
  /\ sends' = sends + 1
  /\ live' \in {live, "none"}
  /\ pc' = "remember"
  /\ UNCHANGED <<plugged, attached, sched, conn, kept, opens>>

\* _remember_response_state, on either path
AfterRemember_KeepsSession == IF exc = "none" THEN "payload" ELSE "idle"
AfterRemember ==
  IF exc = "none" THEN "payload" ELSE IF IsLoss(exc, FALSE) THEN "discard" ELSE "idle"

Remembered_Nothing == kept
Remembered == live

RememberResponse ==
  /\ pc = "remember"
  /\ kept' = Remembered
  /\ pc' = AfterRemember
  /\ UNCHANGED <<device, sched, conn, live, exc, opens, sends>>

\* _discard_after_loss; the request fails and is not repeated.
AfterLoss_Retries == "ensure"
AfterLoss == "idle"

DiscardAfterLoss ==
  /\ pc = "discard"
  /\ lastError' = exc
  /\ ScheduleRetry
  /\ session' = FALSE
  /\ handles' = HandlesAfterExit
  /\ pc' = AfterLoss
  /\ exc' = "none"
  /\ UNCHANGED <<device, gen, closed, memory, opens, sends>>

\* The coordinator takes last_response_payload after the call has returned.
Payload == IF session THEN live ELSE kept

TakePayload ==
  /\ pc = "payload"
  /\ pc' = "idle"
  /\ UNCHANGED <<device, sched, conn, memory, exc, opens, sends>>

\* close(), which waits for _operation_lock; closing the context may fail.
Close ==
  /\ pc \in {"idle", "payload"} /\ ~closed
  /\ closed' = TRUE
  /\ session' = FALSE
  /\ handles' = IF session THEN HandlesAfterExit ELSE handles
  /\ lastError' \in IF session /\ lastError = "none" THEN {"none", "OsError"} ELSE {lastError}
  /\ state' = "closed"
  /\ UNCHANGED <<device, sched, gen, memory, call>>

-----------------------------------------------------------------------------
Caller == \/ CallStarts \/ EnsureSession \/ FindDevice \/ OpenNode
          \/ ClaimInterface \/ InitDevice \/ InstallSession \/ OperationSucceeds \/ OperationFails
          \/ RememberResponse \/ DiscardAfterLoss \/ TakePayload

Next == Caller \/ Close \/ Unplug \/ Plug \/ Tick

Spec == Init /\ [][Next]_vars

\* The poller calls again and again; the clock runs; a device that is
\* unplugged comes back.
FairSpec == Spec /\ WF_vars(Caller) /\ WF_vars(Tick) /\ WF_vars(Plug)

-----------------------------------------------------------------------------
(* Properties.                                                              *)

States == {"unavailable", "reconnecting", "available", "backoff",
           "configuration_error", "closed"}
Pcs == {"idle", "ensure", "open", "connect", "claim", "init", "install", "operate", "remember", "discard",
        "payload"}

\* Types; every delay stays between the initial and the maximum one, and
\* status() reports no longer wait than the delay that was scheduled.
TypeOK ==
  /\ plugged \in BOOLEAN /\ attached \in BOOLEAN
  /\ session \in BOOLEAN /\ closed \in BOOLEAN
  /\ gen \in Nat /\ handles \in Nat /\ opens \in Nat /\ sends \in Nat
  /\ factor \in Nat \ {0} /\ faults \in Nat
  /\ retryDelay \in InitialDelay .. MaxDelay
  /\ scheduled \in (InitialDelay .. MaxDelay) \cup {ConfigDelay}
  /\ wait \in 0 .. scheduled
  /\ state \in States /\ pc \in Pcs
  /\ lastError \in Errors \cup {"none"} /\ exc \in Errors \cup {"none"}
  /\ live \in {"none", "old", "mine"} /\ kept \in {"none", "old", "mine"}

\* Every device node that was opened is closed exactly once, whichever step of
\* opening, using or closing a session fails: there is one per session, and one
\* more only while a new session is being set up.
HandlesMatchSession ==
  handles = (IF session THEN 1 ELSE 0)
            + (IF pc \in {"claim", "init", "install"} THEN 1 ELSE 0)

\* What status() says is true: available exactly with a session, closed for
\* good, and an error to show whenever attempts are being held back.
StatusIsTrue ==
  /\ state = "available" <=> session
  /\ closed <=> state = "closed"
  /\ state \in {"backoff", "configuration_error"} => lastError # "none"

\* The next delay is the initial one doubled for each loss and each failed
\* open since a session was opened, up to the maximum; configuration errors
\* in between neither reset nor advance it.
BackoffFollowsFailures == retryDelay = Min({MaxDelay, InitialDelay * factor})

\* A request opens at most one session and sends its operation at most once:
\* a write lost with the device is not replayed after the reconnect.
CallIsBounded == opens <= 1 /\ sends <= 1

\* The payload the coordinator takes is that of its own call, also when the
\* proxy is closed between the call and the taking.
PayloadIsOwn == pc = "payload" => Payload = "mine"

\* Once the device stays, the session comes back and stays, however long it
\* was away and whatever errors it gave.
Recovers == <>[](closed \/ (session /\ attached))

\* Sessions are the numbered sessions the coordinator relies on.
Numbered == INSTANCE DatastoreSession WITH generation <- gen
ImplementsDatastoreSession == Numbered!Spec

=============================================================================
