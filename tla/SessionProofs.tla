--------------------------- MODULE SessionProofs ---------------------------
(***************************************************************************)
(* A session with the device: the safety of ManagedDatastore, for delays   *)
(* of every length and any number of faults; what a scan of device.py      *)
(* finds in any sysfs; and what paths.py guarantees for paths of every     *)
(* length.                                                                 *)
(***************************************************************************)
EXTENDS ManagedSession, Paths, SysfsInputs, SequenceTheorems,
        WellFoundedInduction, TLAPS

\* A leaf of these proofs takes the SMT solver a second or less, on a busy machine
\* more; the leaves that need Zenon say so.
USE SMTT(30)

-----------------------------------------------------------------------------
(* ManagedDatastore.  Where the caller is says what _ensure_session and    *)
(* _call rely on between their blocks under _state_lock.                   *)


Opening == {"open", "connect", "claim", "init", "install"}
Using   == {"operate", "remember", "discard"}

\* With a call under way close() has to wait, so nobody else drops a session.
PlaceInv ==
  /\ pc \in Opening => ~session /\ ~closed
  /\ pc \in Using => session /\ ~closed
  /\ closed => ~session
  /\ pc = "discard" => exc # "none"

\* Attempts are held back only after an error.
WaitInv ==
  /\ session => wait = 0
  /\ ~session /\ wait > 0 => lastError # "none"

\* What the call has done so far, and whose response the session holds.
CallInv ==
  /\ CallIsBounded
  /\ pc = "ensure" => opens = 0
  /\ pc \in {"ensure", "operate"} \cup Opening => sends = 0
  /\ pc = "remember" /\ exc = "none" => live = "mine"
  /\ pc = "payload" => kept = "mine" /\ (session => live = "mine")

Inv == TypeOK /\ PlaceInv /\ HandlesMatchSession /\ StatusIsTrue /\ WaitInv /\ CallInv

-----------------------------------------------------------------------------
LEMMA MinOfTwo ==
  ASSUME NEW a \in Nat, NEW b \in Nat
  PROVE  Min({a, b}) = IF a <= b THEN a ELSE b
<1> DEFINE m == IF a <= b THEN a ELSE b
<1>1. m \in {a, b} /\ \A y \in {a, b} : m <= y
  OBVIOUS
<1>2. \A x \in {a, b} : (\A y \in {a, b} : x <= y) => x = m
  OBVIOUS
<1> QED  BY <1>1, <1>2 DEF Min

LEMMA MaxOfTwo ==
  ASSUME NEW a \in Nat, NEW b \in Nat
  PROVE  Max({a, b}) = IF a >= b THEN a ELSE b
<1> DEFINE m == IF a >= b THEN a ELSE b
<1>1. m \in {a, b} /\ \A y \in {a, b} : m >= y
  OBVIOUS
<1>2. \A x \in {a, b} : (\A y \in {a, b} : x >= y) => x = m
  OBVIOUS
<1> QED  BY <1>1, <1>2 DEF Max

\* The next delay is again one between the initial and the maximum one.
LEMMA RetryType ==
  ASSUME TypeOK
  PROVE  NextDelay \in InitialDelay .. MaxDelay
<1>1. /\ InitialDelay \in Nat /\ MaxDelay \in Nat /\ InitialDelay <= MaxDelay
      /\ retryDelay \in Nat /\ 2 * retryDelay \in Nat
  BY DelaysAssumption DEF TypeOK
<1>2. /\ Max({InitialDelay, 2 * retryDelay}) \in Nat
      /\ Max({InitialDelay, 2 * retryDelay}) >= InitialDelay
  BY <1>1, MaxOfTwo
<1> QED  BY <1>1, <1>2, MinOfTwo, SMTT(30) DEF NextDelay

LEMMA InitInv == Init => Inv
<1> SUFFICES ASSUME Init PROVE Inv
  OBVIOUS
<1>0. 0 \in 0 .. InitialDelay /\ InitialDelay \in InitialDelay .. MaxDelay /\ 1 \in Nat \ {0}
  BY DelaysAssumption
<1>1. TypeOK
  BY <1>0, Zenon DEF Init, TypeOK, States, Pcs, Errors
<1> QED
  BY <1>1 DEF Init, Inv, PlaceInv, Opening, Using, HandlesMatchSession, StatusIsTrue, WaitInv,
              CallInv, CallIsBounded

\* Both ways to wait after an error.
LEMMA RetryKeepsTypes ==
  ASSUME TypeOK, ScheduleRetry \/ ScheduleConfigRetry
  PROVE  /\ retryDelay' \in InitialDelay .. MaxDelay
         /\ scheduled' \in (InitialDelay .. MaxDelay) \cup {ConfigDelay}
         /\ wait' \in 0 .. scheduled' /\ factor' \in Nat \ {0}
         /\ state' \in {"backoff", "configuration_error"}
BY RetryType, DelaysAssumption DEF TypeOK, ScheduleRetry, ScheduleConfigRetry

\* A step of the opener that raises, having closed the node if it was open.
LEMMA RaisingKeepsInv ==
  ASSUME Inv, pc \in Opening, NEW e \in Errors, OpenRaises(e),
         faults' \in Nat,
         handles' = handles - (IF pc \in {"claim", "init", "install"} THEN 1 ELSE 0)
  PROVE  Inv'
<1>1. /\ retryDelay' \in InitialDelay .. MaxDelay
      /\ scheduled' \in (InitialDelay .. MaxDelay) \cup {ConfigDelay}
      /\ wait' \in 0 .. scheduled' /\ factor' \in Nat \ {0}
      /\ state' \in {"backoff", "configuration_error"}
  BY RetryKeepsTypes, Zenon DEF Inv, OpenRaises
<1>2. /\ e # "none" /\ ~session /\ ~closed /\ handles' = 0
  BY DEF Inv, PlaceInv, HandlesMatchSession, TypeOK, Errors, Opening
<1>3. TypeOK'
  BY <1>1, <1>2 DEF Inv, TypeOK, OpenRaises, memory, States, Pcs
<1> QED
  BY <1>1, <1>2, <1>3
  DEF Inv, OpenRaises, memory, PlaceInv, Opening, Using, HandlesMatchSession, StatusIsTrue,
      WaitInv, CallInv, CallIsBounded

LEMMA NextInv == Inv /\ [Next]_vars => Inv'
<1> SUFFICES ASSUME Inv, [Next]_vars PROVE Inv'
  OBVIOUS
<1>0. TypeOK
  BY DEF Inv
<1> USE DEF Inv, TypeOK, States, Pcs, PlaceInv, Opening, Using, HandlesMatchSession,
            StatusIsTrue, WaitInv, CallInv, CallIsBounded
<1>1. CASE CallStarts  BY <1>1 DEF CallStarts, Aged, device, sched, conn
<1>2. CASE EnsureSession
  BY <1>2 DEF EnsureSession, Refused, MayOpen, device, sched, memory
<1>3. CASE FindDevice
  <2>1. CASE pc' = "connect"
    BY <1>3, <2>1 DEF FindDevice, OpenRaises, device, sched, conn, memory
  <2>2. CASE pc' # "connect"
    <3>1. PICK e \in {"NoDevice", "Unreadable"} :
            /\ IF ~plugged /\ e = "NoDevice" THEN UNCHANGED faults ELSE Fault
            /\ OpenRaises(e) /\ UNCHANGED handles
      BY <1>3, <2>2 DEF FindDevice
    <3>2. faults' \in Nat
      BY <1>0, <3>1 DEF Fault
    <3> QED  BY <1>3, <3>1, <3>2, RaisingKeepsInv DEF FindDevice, Errors
  <2> QED  BY <2>1, <2>2
<1>4. CASE OpenNode
  <2>1. CASE pc' = "claim"
    BY <1>4, <2>1 DEF OpenNode, OpenRaises, sched, memory
  <2>2. CASE pc' # "claim"
    <3>1. PICK e \in {"Unplugged", "OsError"} :
            /\ IF ~plugged /\ e = "Unplugged" THEN UNCHANGED faults ELSE Fault
            /\ OpenRaises(e) /\ UNCHANGED handles
      BY <1>4, <2>2 DEF OpenNode
    <3>2. faults' \in Nat
      BY <1>0, <3>1 DEF Fault
    <3> QED  BY <1>4, <3>1, <3>2, RaisingKeepsInv DEF OpenNode, Errors
  <2> QED  BY <2>1, <2>2
<1>5. CASE ClaimInterface
  <2>1. CASE pc' = "init"
    BY <1>5, <2>1 DEF ClaimInterface, OpenRaises, device, sched, conn, memory
  <2>2. CASE pc' # "init"
    <3>1. PICK e \in {"Unplugged", "OsError"} :
            /\ IF ~attached /\ e = "Unplugged" THEN UNCHANGED faults ELSE Fault
            /\ OpenRaises(e) /\ handles' = handles - 1
      BY <1>5, <2>2 DEF ClaimInterface
    <3>2. faults' \in Nat
      BY <1>0, <3>1 DEF Fault
    <3> QED  BY <1>5, <3>1, <3>2, RaisingKeepsInv, Zenon DEF ClaimInterface, Errors
  <2> QED  BY <2>1, <2>2
<1>6. CASE InitDevice
  <2>1. CASE pc' = "install"
    BY <1>6, <2>1 DEF InitDevice, OpenRaises, device, sched, conn, memory
  <2>2. CASE pc' # "install"
    <3>1. PICK e \in {"Unplugged", "OsError", "ShortWrite", "NoResponse", "Other"} :
            /\ IF ~attached /\ e = "Unplugged" THEN UNCHANGED faults ELSE Fault
            /\ OpenRaises(e) /\ handles' = HandlesAfterExit
      BY <1>6, <2>2 DEF InitDevice
    <3>2. faults' \in Nat
      BY <1>0, <3>1 DEF Fault
    <3> QED  BY <1>6, <3>1, <3>2, RaisingKeepsInv, Zenon DEF InitDevice, HandlesAfterExit, Errors
  <2> QED  BY <2>1, <2>2
<1>7. CASE InstallSession
  <2>1. 0 \in 0 .. InitialDelay /\ InitialDelay \in InitialDelay .. MaxDelay
    BY DelaysAssumption
  <2>2. /\ session' /\ ~closed' /\ gen' = gen + 1 /\ state' = "available"
        /\ lastError' = "none" /\ retryDelay' = InitialDelay /\ scheduled' = InitialDelay
        /\ wait' = 0 /\ factor' = 1 /\ live' = "none" /\ pc' = "operate"
        /\ UNCHANGED <<plugged, attached, faults, handles, closed, kept, exc, opens, sends>>
    BY <1>7 DEF InstallSession, NextGeneration, DelayAfterOpen, device
  <2>3. TypeOK'
    BY <1>0, <2>1, <2>2
  <2> QED  BY <1>7, <2>2, <2>3 DEF InstallSession
<1>8. CASE OperationSucceeds
  BY <1>8 DEF OperationSucceeds, device, sched, conn
<1>9. CASE OperationFails
  BY <1>9 DEF OperationFails, Fault, Errors, sched, conn
<1>10. CASE RememberResponse
  BY <1>10 DEF RememberResponse, Remembered, AfterRemember, IsLoss, device, sched, conn
<1>11. CASE DiscardAfterLoss
  <2>1. /\ retryDelay' \in InitialDelay .. MaxDelay
        /\ scheduled' \in (InitialDelay .. MaxDelay) \cup {ConfigDelay}
        /\ wait' \in 0 .. scheduled' /\ factor' \in Nat \ {0} /\ state' = "backoff"
    BY <1>0, <1>11, RetryKeepsTypes DEF DiscardAfterLoss, ScheduleRetry
  <2>2. /\ lastError' = exc /\ ~session' /\ handles' = 0 /\ pc' = "idle" /\ exc' = "none"
        /\ exc # "none" /\ ~closed
        /\ UNCHANGED <<plugged, attached, faults, gen, closed, live, kept, opens, sends>>
        /\ session' = FALSE
    BY <1>11 DEF DiscardAfterLoss, AfterLoss, HandlesAfterExit, device, memory
  <2>3. TypeOK'
    BY <1>0, <2>1, <2>2, Zenon
  <2> QED  BY <2>1, <2>2, <2>3
<1>12. CASE TakePayload
  BY <1>12 DEF TakePayload, device, sched, conn, memory
<1>13. CASE Close
  <2>1. /\ pc \in {"idle", "payload"} /\ closed' = TRUE /\ session' = FALSE /\ handles' = 0
        /\ state' = "closed" /\ lastError' \in {lastError, "OsError"}
        /\ (~session => lastError' = lastError)
        /\ UNCHANGED <<plugged, attached, faults, sched, gen, memory, call>>
    BY <1>13 DEF Close, HandlesAfterExit, device
  <2>2. TypeOK'
    <3>1. closed' \in BOOLEAN /\ session' \in BOOLEAN
      BY <2>1, Zenon
    <3>2. lastError' \in Errors \cup {"none"} /\ handles' \in Nat /\ state' \in States
      BY <1>0, <2>1 DEF Errors
    <3>3. UNCHANGED <<plugged, attached, gen, opens, sends, factor, faults, retryDelay,
                      scheduled, wait, pc, exc, live, kept>>
      BY <2>1 DEF sched, memory, call
    <3> QED  BY <1>0, <3>1, <3>2, <3>3
  <2> QED  BY <2>1, <2>2 DEF sched, memory, call
<1>14. CASE Unplug \/ Plug
  <2>1. plugged' \in BOOLEAN /\ attached' \in BOOLEAN /\ faults' \in Nat
    <3>1. CASE Unplug
      <4>1. plugged' = FALSE /\ attached' = FALSE /\ faults' = faults + 1
        BY <3>1 DEF Unplug
      <4>2. faults' \in Nat
        BY <1>0, <4>1
      <4> QED  BY <4>1, <4>2, Zenon
    <3>2. CASE Plug
      BY <1>0, <3>2 DEF Plug
    <3> QED  BY <1>14, <3>1, <3>2
  <2>2. UNCHANGED <<sched, conn, memory, call>>
    BY <1>14 DEF Unplug, Plug
  <2>3. TypeOK'
    BY <1>0, <2>1, <2>2 DEF sched, conn, memory, call
  <2> QED  BY <2>2, <2>3 DEF sched, conn, memory, call
<1>16. CASE Tick
  <2>1. wait' \in 0 .. scheduled /\ wait > 0
    BY <1>0, <1>16, DelaysAssumption DEF Tick
  <2>2. UNCHANGED <<device, retryDelay, scheduled, factor, conn, memory, call>>
    BY <1>16 DEF Tick
  <2>3. TypeOK'
    BY <1>0, <2>1, <2>2 DEF device, conn, memory, call
  <2> QED  BY <2>1, <2>2, <2>3 DEF conn, memory, call
<1>15. CASE UNCHANGED vars
  BY <1>15 DEF vars, device, sched, conn, memory, call
<1> QED  BY <1>1, <1>2, <1>3, <1>4, <1>5, <1>6, <1>7, <1>8, <1>9, <1>10, <1>11, <1>12, <1>13,
            <1>14, <1>15, <1>16, Zenon DEF Next, Caller

\* The inductive invariant: where the caller is determines the session, the
\* device nodes and what the call has done.
THEOREM InvHolds == Spec => []Inv
BY InitInv, NextInv, PTL DEF Spec

\* Doubling the delay and then cutting it off at the maximum is doubling the
\* initial one once more and cutting that off.
LEMMA RetryDoubles ==
  ASSUME TypeOK, BackoffFollowsFailures, ScheduleRetry
  PROVE  BackoffFollowsFailures'
<1> DEFINE base == InitialDelay * factor
           next == InitialDelay * factor'
<1>1. /\ InitialDelay \in Nat /\ MaxDelay \in Nat /\ InitialDelay <= MaxDelay
      /\ factor \in Nat \ {0} /\ retryDelay \in Nat
  BY DelaysAssumption DEF TypeOK
<1>2. base \in Nat /\ base >= InitialDelay
  BY <1>1
<1>3. \/ next = 2 * base
      \/ next = base /\ (base >= MaxDelay \/ base = 0)
  <2>1. CASE factor < MaxDelay
    BY <1>1, <2>1 DEF ScheduleRetry
  <2>2. CASE ~(factor < MaxDelay) /\ InitialDelay # 0
    BY <1>1, <2>2 DEF ScheduleRetry
  <2>3. CASE ~(factor < MaxDelay) /\ InitialDelay = 0
    BY <1>1, <2>3 DEF ScheduleRetry
  <2> QED  BY <2>1, <2>2, <2>3
<1> HIDE DEF base, next
<1>4. retryDelay = IF MaxDelay <= base THEN MaxDelay ELSE base
  BY <1>1, <1>2, MinOfTwo DEF BackoffFollowsFailures, base
<1>5. Max({InitialDelay, 2 * retryDelay}) = IF InitialDelay >= 2 * retryDelay THEN InitialDelay
                                            ELSE 2 * retryDelay
  BY <1>1, MaxOfTwo
<1>6. next \in Nat
  BY <1>2, <1>3
<1>7. Min({MaxDelay, next}) = IF MaxDelay <= next THEN MaxDelay ELSE next
  BY <1>1, <1>6, MinOfTwo
<1> DEFINE wider == Max({InitialDelay, 2 * retryDelay})
<1>8. NextDelay = IF MaxDelay <= wider THEN MaxDelay ELSE wider
  BY <1>1, <1>5, MinOfTwo DEF NextDelay
<1>9. NextDelay = Min({MaxDelay, next})
  BY <1>1, <1>2, <1>3, <1>4, <1>5, <1>7, <1>8
<1> QED  BY <1>9 DEF BackoffFollowsFailures, ScheduleRetry, next

LEMMA NextBackoff == Inv /\ BackoffFollowsFailures /\ [Next]_vars => BackoffFollowsFailures'
<1> SUFFICES ASSUME Inv, BackoffFollowsFailures, [Next]_vars PROVE BackoffFollowsFailures'
  OBVIOUS
<1>1. CASE ScheduleRetry
  BY <1>1, RetryDoubles DEF Inv
<1>2. CASE UNCHANGED <<retryDelay, factor>>
  BY <1>2 DEF BackoffFollowsFailures
<1>3. CASE retryDelay' = InitialDelay /\ factor' = 1
  <2>1. Min({MaxDelay, InitialDelay * 1}) = InitialDelay
    BY DelaysAssumption, MinOfTwo
  <2> QED  BY <1>3, <2>1 DEF BackoffFollowsFailures
<1>4. ASSUME NEW e, OpenRaises(e) PROVE BackoffFollowsFailures'
  BY <1>1, <1>2, <1>4, Zenon DEF OpenRaises, ScheduleConfigRetry
<1>5. CASE FindDevice \/ OpenNode \/ ClaimInterface \/ InitDevice
  BY <1>2, <1>4, <1>5 DEF FindDevice, OpenNode, ClaimInterface, InitDevice, sched
<1>6. CASE InstallSession
  BY <1>2, <1>3, <1>6 DEF InstallSession, DelayAfterOpen, sched
<1>7. CASE DiscardAfterLoss
  BY <1>1, <1>7 DEF DiscardAfterLoss
<1>8. CASE \/ CallStarts \/ EnsureSession \/ OperationSucceeds \/ OperationFails
           \/ RememberResponse \/ TakePayload \/ Close \/ Unplug \/ Plug \/ Tick
           \/ UNCHANGED vars
  BY <1>2, <1>8, Zenon DEF CallStarts, EnsureSession, OperationSucceeds, OperationFails,
     RememberResponse, TakePayload, Close, Unplug, Plug, Tick, vars, sched
<1> QED  BY <1>5, <1>6, <1>7, <1>8 DEF Next, Caller

\* The delay before the next attempt is the initial one doubled for each loss
\* and each failed open since a session was opened, up to the maximum.
THEOREM BackoffIsExponential == Spec => []BackoffFollowsFailures
<1>1. Init => BackoffFollowsFailures
  <2>1. Min({MaxDelay, InitialDelay * 1}) = InitialDelay
    BY DelaysAssumption, MinOfTwo
  <2> QED  BY <2>1 DEF Init, BackoffFollowsFailures
<1> QED  BY <1>1, InvHolds, NextBackoff, PTL DEF Spec

\* Types; the delays stay between the initial and the maximum one.
THEOREM TypeCorrect == Spec => []TypeOK
<1>1. Inv => TypeOK
  BY DEF Inv
<1> QED  BY <1>1, InvHolds, PTL

\* Whichever steps fail and however often, as many device nodes are open as
\* sessions are installed or being set up.
THEOREM HandlesAreClosed == Spec => []HandlesMatchSession
<1>1. Inv => HandlesMatchSession
  BY DEF Inv
<1> QED  BY <1>1, InvHolds, PTL

\* status() tells the truth about the session, the close and the last error.
THEOREM StatusTellsTruth == Spec => []StatusIsTrue
<1>1. Inv => StatusIsTrue
  BY DEF Inv
<1> QED  BY <1>1, InvHolds, PTL

\* No request opens two sessions or sends its operation twice.
THEOREM NothingIsRepeated == Spec => []CallIsBounded
<1>1. Inv => CallIsBounded
  BY DEF Inv, CallInv
<1> QED  BY <1>1, InvHolds, PTL

\* The payload taken after a call is its own, also after a close() in between.
THEOREM PayloadBelongsToCall == Spec => []PayloadIsOwn
<1>1. Inv => PayloadIsOwn
  BY DEF Inv, CallInv, PayloadIsOwn, Payload
<1> QED  BY <1>1, InvHolds, PTL

\* ManagedDatastore implements the numbered sessions the coordinator is
\* written against.
THEOREM SessionsImplement == Spec => ImplementsDatastoreSession
<1>1. Init => Numbered!Init
  BY DEF Init, Numbered!Init
<1>2. Inv /\ [Next]_vars => [Numbered!Next]_<<session, gen>>
  <2> SUFFICES ASSUME Inv, [Next]_vars PROVE [Numbered!Next]_<<session, gen>>
    OBVIOUS
  <2>1. CASE InstallSession
    BY <2>1 DEF InstallSession, NextGeneration, Inv, PlaceInv, Opening, Numbered!Next,
                Numbered!Open
  <2>2. CASE DiscardAfterLoss
    BY <2>2, Zenon DEF DiscardAfterLoss, Inv, PlaceInv, Using, Numbered!Next, Numbered!Drop
  <2>3. CASE Close
    BY <2>3, Zenon DEF Close, Inv, TypeOK, Numbered!Next, Numbered!Drop
  <2>4. CASE \/ CallStarts \/ EnsureSession \/ FindDevice \/ OpenNode \/ ClaimInterface
             \/ InitDevice \/ OperationSucceeds \/ OperationFails \/ RememberResponse
             \/ TakePayload \/ Unplug \/ Plug \/ Tick \/ UNCHANGED vars
    BY <2>4, Zenon DEF CallStarts, EnsureSession, FindDevice, OpenNode, ClaimInterface, InitDevice,
                OperationSucceeds, OperationFails, RememberResponse, TakePayload, Unplug,
                Plug, Tick, OpenRaises, vars, device, conn
  <2> QED  BY <2>1, <2>2, <2>3, <2>4 DEF Next, Caller
<1> QED  BY <1>1, <1>2, InvHolds, PTL DEF Spec, ImplementsDatastoreSession, Numbered!Spec

-----------------------------------------------------------------------------
\* The first of some positions or addresses is one of them.
LEMMA MinOfSome ==
  ASSUME NEW S \in SUBSET Nat, S # {}
  PROVE  Min(S) \in S /\ \A y \in S : Min(S) <= y
<1> DEFINE R == OpToRel(<, Nat)
<1>1. IsWellFoundedOn(R, Nat)
  BY NatLessThanWellFounded, Zenon
<1>2. PICK x \in S : \A y \in S : <<y, x>> \notin R
  BY <1>1, WFMin, Zenon
<1>3. S \subseteq Nat
  OBVIOUS
<1>4. \A y \in S : ~(y < x)
  BY <1>2, <1>3, Zenon DEF OpToRel
<1>5. \A y \in S : x <= y
  BY <1>3, <1>4
<1> QED  BY <1>5, Zenon DEF Min

LEMMA MaxOfSome ==
  ASSUME NEW n \in Nat, NEW S \in SUBSET (1..n), S # {}
  PROVE  Max(S) \in S /\ \A y \in S : y <= Max(S)
<1> DEFINE D == {n - i : i \in S}
<1>1. \A y \in S : n - y \in D
  BY Zenon
<1>2. S \subseteq Int /\ D \in SUBSET Nat /\ D # {}
  <2>1. \A y \in S : y \in Int /\ n - y \in Nat
    OBVIOUS
  <2> QED  BY <1>1, <2>1, Zenon
<1>3. PICK x \in S : Min(D) = n - x
  <2>1. Min(D) \in D
    <3> HIDE DEF D
    <3> QED  BY <1>2, MinOfSome, Zenon
  <2> QED  BY <2>1, Zenon
<1> HIDE DEF D
<1>4. \A d \in D : Min(D) <= d
  BY <1>2, MinOfSome, Zenon
<1>5. ASSUME NEW y \in S PROVE x >= y
  <2>1. n - x <= n - y
    BY <1>1, <1>3, <1>4, Zenon
  <2>2. x \in Int /\ y \in Int
    BY <1>2
  <2> QED  BY <2>1, <2>2
<1>6. PICK z \in S : z = Max(S) /\ \A y \in S : z >= y
  BY <1>5, Zenon DEF Max
<1>7. ASSUME NEW y \in S PROVE y <= Max(S)
  <2>1. z \in Int /\ y \in Int /\ z >= y
    BY <1>2, <1>6, Zenon
  <2> QED  BY <1>6, <2>1
<1> QED  BY <1>6, <1>7, Zenon

\* A path starts with the tokens of its prefix.
LEMMA StartsWithTokens ==
  ASSUME NEW S, NEW p \in Seq(S), NEW q \in Seq(S)
  PROVE  StartsWith(p, q) <=> /\ Len(q) <= Len(p)
                              /\ \A i \in 1..Len(q) : p[i] = q[i]
<1>2. Len(p) \in Nat /\ Len(q) \in Nat
  OBVIOUS
<1>3. ASSUME Len(q) <= Len(p)
      PROVE  /\ SubSeq(p, 1, Len(q)) \in Seq(S)
             /\ Len(SubSeq(p, 1, Len(q))) = Len(q)
             /\ \A i \in 1..Len(q) : SubSeq(p, 1, Len(q))[i] = p[i]
  <2>1. \A i \in 1..Len(q) : p[i] \in S
    BY <1>2, <1>3, ElementOfSeq
  <2> QED  BY <1>2, <2>1, SubSeqProperties
<1>4. ASSUME Len(q) <= Len(p), \A i \in 1..Len(q) : p[i] = q[i]
      PROVE  SubSeq(p, 1, Len(q)) = q
  BY <1>3, <1>4, SeqEqual
<1> QED  BY <1>3, <1>4 DEF StartsWith

\* Paths of any names besides the tokens paths.py looks for, and those that have
\* been decoded once.
PathTokens(Words) ==
  Words \cup Uids \cup {"/", "%2F", "%252F", "blank", "%20", Host, "datastore", "apiversion", "meters"}
DecodedOnce(p) == \A i \in 1..Len(p) : p[i] \notin {"%252F", "%20"}

\* What NormalizePath returns: the datastore, a path below it, or one of the
\* two that are not in it.
Sendable(p) ==
  \/ Len(p) = 2 /\ p[1] = "/" /\ p[2] \in {"datastore", "apiversion", "meters"}
  \/ Len(p) >= 3 /\ p[1] = "/" /\ p[2] = "datastore" /\ p[3] = "/"

LEMMA PathPrefixes ==
  ASSUME NEW Words, NEW p \in Seq(PathTokens(Words))
  PROVE  /\ StartsWith(p, <<"/">>) <=> Len(p) >= 1 /\ p[1] = "/"
         /\ StartsWith(p, <<Host>>) <=> Len(p) >= 1 /\ p[1] = Host
         /\ \A u \in Uids : StartsWith(p, <<"/", u, "/">>) <=>
              Len(p) >= 3 /\ p[1] = "/" /\ p[2] = u /\ p[3] = "/"
         /\ StartsWith(p, DatastorePath \o <<"/">>) <=>
              Len(p) >= 3 /\ p[1] = "/" /\ p[2] = "datastore" /\ p[3] = "/"
<1> DEFINE T == PathTokens(Words)
<1>1. {"/", Host, "datastore"} \cup Uids \subseteq T
  BY DEF PathTokens
<1> HIDE DEF T
<1>2. p \in Seq(T)
  BY DEF T
<1>3. \A t \in T : StartsWith(p, <<t>>) <=> Len(p) >= 1 /\ p[1] = t
  <2> TAKE t \in T
  <2>1. <<t>> \in Seq(T) /\ Len(<<t>>) = 1 /\ <<t>>[1] = t
    OBVIOUS
  <2>2. 1..1 = {1}
    OBVIOUS
  <2>3. StartsWith(p, <<t>>) <=> /\ Len(<<t>>) <= Len(p)
                                 /\ \A i \in 1..Len(<<t>>) : p[i] = <<t>>[i]
    BY <1>2, <2>1, StartsWithTokens, Zenon
  <2> QED  BY <2>1, <2>2, <2>3
<1>4. \A q \in Seq(T) : Len(q) = 3 =>
        (StartsWith(p, q) <=> Len(p) >= 3 /\ p[1] = q[1] /\ p[2] = q[2] /\ p[3] = q[3])
  <2> SUFFICES ASSUME NEW q \in Seq(T), Len(q) = 3
               PROVE  StartsWith(p, q) <=>
                        Len(p) >= 3 /\ p[1] = q[1] /\ p[2] = q[2] /\ p[3] = q[3]
    OBVIOUS
  <2>1. 1..3 = {1, 2, 3}
    OBVIOUS
  <2> QED  BY <1>2, <2>1, StartsWithTokens
<1>5. StartsWith(p, <<"/">>) <=> Len(p) >= 1 /\ p[1] = "/"
  BY <1>1, <1>3
<1>6. StartsWith(p, <<Host>>) <=> Len(p) >= 1 /\ p[1] = Host
  BY <1>1, <1>3
<1>7. ASSUME NEW u \in Uids
      PROVE  StartsWith(p, <<"/", u, "/">>) <=>
               Len(p) >= 3 /\ p[1] = "/" /\ p[2] = u /\ p[3] = "/"
  <2> DEFINE q == <<"/", u, "/">>
  <2>1. "/" \in T /\ u \in T
    BY <1>1
  <2>2. q \in Seq(T) /\ Len(q) = 3 /\ q[1] = "/" /\ q[2] = u /\ q[3] = "/"
    BY <2>1
  <2> QED  BY <1>4, <2>2, Zenon
<1>8. StartsWith(p, DatastorePath \o <<"/">>) <=>
        Len(p) >= 3 /\ p[1] = "/" /\ p[2] = "datastore" /\ p[3] = "/"
  <2> DEFINE q == DatastorePath \o <<"/">>
  <2>1. "/" \in T /\ "datastore" \in T
    BY <1>1
  <2>2. DatastorePath \in Seq(T) /\ <<"/">> \in Seq(T)
    BY <2>1 DEF DatastorePath
  <2>3. Len(DatastorePath) = 2 /\ Len(<<"/">>) = 1
    BY DEF DatastorePath
  <2>4. DatastorePath[1] = "/" /\ DatastorePath[2] = "datastore" /\ <<"/">>[1] = "/"
    BY DEF DatastorePath
  <2>5. /\ q \in Seq(T) /\ Len(q) = Len(DatastorePath) + Len(<<"/">>)
        /\ \A i \in 1..Len(DatastorePath) + Len(<<"/">>) : q[i] =
             IF i <= Len(DatastorePath) THEN DatastorePath[i] ELSE <<"/">>[i - Len(DatastorePath)]
    BY <2>2, ConcatProperties
  <2> HIDE DEF q
  <2>6. q \in Seq(T) /\ Len(q) = 3 /\ q[1] = "/" /\ q[2] = "datastore" /\ q[3] = "/"
    BY <2>3, <2>4, <2>5
  <2> QED  BY <1>4, <2>6, Zenon DEF q
<1> QED  BY <1>5, <1>6, <1>7, <1>8

\* What is cut from the front leaves a path, with no slash encoded anew.
LEMMA SuffixIsPath ==
  ASSUME NEW S, NEW p \in Seq(S), NEW m \in Nat \ {0}
  PROVE  /\ SubSeq(p, m, Len(p)) \in Seq(S)
         /\ DecodedOnce(p) => DecodedOnce(SubSeq(p, m, Len(p)))
<1> DEFINE q == SubSeq(p, m, Len(p))
<1>1. Len(p) \in Nat /\ \A i \in m..Len(p) : p[i] \in S
  BY ElementOfSeq
<1>2. /\ q \in Seq(S) /\ Len(q) = (IF m <= Len(p) THEN Len(p) - m + 1 ELSE 0)
      /\ \A i \in 1..Len(p) - m + 1 : q[i] = p[m + i - 1]
  BY <1>1, SubSeqProperties
<1> HIDE DEF q
<1>3. \A i \in 1..Len(q) : i \in 1..Len(p) - m + 1 /\ m + i - 1 \in 1..Len(p)
  BY <1>1, <1>2
<1>4. DecodedOnce(p) => DecodedOnce(q)
  BY <1>2, <1>3 DEF DecodedOnce
<1> QED  BY <1>2, <1>4 DEF q

LEMMA StrippedPath ==
  ASSUME NEW Words, NEW p \in Seq(PathTokens(Words))
  PROVE  LET q == StripBlanks(p) IN
         /\ q \in Seq(PathTokens(Words))
         /\ Len(p) >= 1 /\ p[1] # "blank" =>
              /\ Len(q) >= 1 /\ Len(q) <= Len(p) /\ q[Len(q)] # "blank"
              /\ \A i \in 1..Len(q) : q[i] = p[i]
              /\ \A i \in 1..Len(p) : p[i] # "blank" => i <= Len(q)
<1> DEFINE T == PathTokens(Words)
           solid == {i \in DOMAIN p : p[i] # "blank"}
           q == StripBlanks(p)
           least == Min(solid)
           most == Max(solid)
<1> HIDE DEF T
<1>1. p \in Seq(T) /\ Len(p) \in Nat /\ DOMAIN p = 1..Len(p)
  BY LenProperties DEF T
<1>2. q = IF solid = {} THEN <<>> ELSE SubSeq(p, least, most)
  BY Zenon DEF StripBlanks
<1>3. solid \in SUBSET (1..Len(p)) /\ solid \in SUBSET Nat
      /\ \A i \in 1..Len(p) : i \in solid <=> p[i] # "blank"
  BY <1>1
<1> HIDE DEF q, solid
<1>4. CASE solid = {}
  BY <1>1, <1>2, <1>3, <1>4 DEF q, T
<1>5. CASE solid # {}
  <2>1. least \in solid /\ \A y \in solid : least <= y
    BY <1>3, <1>5, MinOfSome, Zenon
  <2>2. most \in solid /\ \A y \in solid : y <= most
    BY <1>1, <1>3, <1>5, MaxOfSome, Zenon
  <2> HIDE DEF least, most
  <2>3. least \in 1..Len(p) /\ most \in 1..Len(p) /\ least <= most
    BY <1>3, <2>1, <2>2
  <2>4. \A i \in least..most : p[i] \in T
    BY <1>1, <2>3, ElementOfSeq
  <2>5. /\ q \in Seq(T) /\ Len(q) = most - least + 1
        /\ \A i \in 1..most - least + 1 : q[i] = p[least + i - 1]
    BY <1>1, <1>2, <1>5, <2>3, <2>4, SubSeqProperties
  <2>6. ASSUME Len(p) >= 1, p[1] # "blank"
        PROVE  /\ Len(q) >= 1 /\ Len(q) <= Len(p) /\ q[Len(q)] # "blank"
               /\ \A i \in 1..Len(q) : q[i] = p[i]
               /\ \A i \in 1..Len(p) : p[i] # "blank" => i <= Len(q)
    <3>1. least = 1
      BY <1>1, <1>3, <2>1, <2>3, <2>6
    <3>2. Len(q) = most /\ \A i \in 1..most : q[i] = p[i]
      BY <2>3, <2>5, <3>1
    <3>3. p[most] # "blank"
      BY <1>3, <2>2, <2>3
    <3> QED  BY <1>1, <1>3, <2>2, <2>3, <3>2, <3>3
  <2> QED  BY <2>5, <2>6 DEF q, T
<1> QED  BY <1>4, <1>5

LEMMA UnquotedPath ==
  ASSUME NEW Words, NEW p \in Seq(PathTokens(Words))
  PROVE  /\ Unquote(p) \in Seq(PathTokens(Words)) /\ Len(Unquote(p)) = Len(p)
         /\ DecodedOnce(Unquote(p))
         /\ DecodedOnce(p) => \A i \in 1..Len(p) :
              Unquote(p)[i] = IF p[i] = "%2F" THEN "/" ELSE p[i]
<1> DEFINE T == PathTokens(Words)
           d == Unquote(p)
<1>1. Len(p) \in Nat /\ DOMAIN p = 1..Len(p) /\ \A i \in 1..Len(p) : p[i] \in T
  BY LenProperties, ElementOfSeq
<1>2. "/" \in T /\ "%2F" \in T /\ "blank" \in T
  BY DEF PathTokens
<1> HIDE DEF T
<1>3. d = [i \in 1..Len(p) |-> CASE p[i] = "%2F"   -> "/"
                                 [] p[i] = "%252F" -> "%2F"
                                 [] p[i] = "%20"   -> "blank"
                                 [] OTHER          -> p[i]]
  BY <1>1 DEF Unquote
<1>4. \A i \in 1..Len(p) : d[i] = IF p[i] = "%2F" THEN "/"
                                  ELSE IF p[i] = "%252F" THEN "%2F"
                                  ELSE IF p[i] = "%20" THEN "blank" ELSE p[i]
  BY <1>3
<1>5. d \in [1..Len(p) -> T]
  <2>1. \A i \in 1..Len(p) : d[i] \in T
    BY <1>1, <1>2, <1>4
  <2> QED  BY <1>3, <2>1
<1> HIDE DEF d
<1>6. d \in Seq(T) /\ Len(d) = Len(p)
  BY <1>1, <1>5
<1>7. DecodedOnce(d)
  BY <1>4, <1>6 DEF DecodedOnce
<1>8. DecodedOnce(p) => \A i \in 1..Len(p) : d[i] = IF p[i] = "%2F" THEN "/" ELSE p[i]
  BY <1>4 DEF DecodedOnce
<1> QED  BY <1>6, <1>7, <1>8 DEF d, T

\* The path without the host and the uid is still one.
LEMMA LocalPath ==
  ASSUME NEW Words, NEW d \in Seq(PathTokens(Words))
  PROVE  /\ WithoutUid(WithoutHost(d)) \in Seq(PathTokens(Words))
         /\ DecodedOnce(d) => DecodedOnce(WithoutUid(WithoutHost(d)))
<1> DEFINE T == PathTokens(Words)
           slashes == {i \in DOMAIN d : d[i] = "/"}
           h == WithoutHost(d)
<1> HIDE DEF T
<1>1. d \in Seq(T) /\ DOMAIN d = 1..Len(d) /\ Len(d) \in Nat
  BY LenProperties DEF T
<1>2. h \in Seq(T) /\ (DecodedOnce(d) => DecodedOnce(h))
  <2>1. slashes # {} => Min(slashes) \in Nat \ {0}
    <3>1. slashes \in SUBSET Nat /\ \A i \in slashes : i # 0
      BY <1>1
    <3> QED  BY <3>1, MinOfSome, Zenon
  <2>2. h = d \/ h = <<>> \/ (slashes # {} /\ h = SubSeq(d, Min(slashes), Len(d)))
    BY Zenon DEF WithoutHost
  <2> HIDE DEF h, slashes
  <2>3. CASE h = d
    BY <1>1, <2>3
  <2>4. CASE h = <<>>
    BY <2>4 DEF DecodedOnce
  <2>5. CASE slashes # {} /\ h = SubSeq(d, Min(slashes), Len(d))
    BY <1>1, <2>1, <2>5, SuffixIsPath
  <2> QED  BY <2>2, <2>3, <2>4, <2>5
<1> HIDE DEF h
<1>3. WithoutUid(h) = h \/ WithoutUid(h) = SubSeq(h, 3, Len(h))
  BY Zenon DEF WithoutUid
<1>4. SubSeq(h, 3, Len(h)) \in Seq(T) /\ (DecodedOnce(h) => DecodedOnce(SubSeq(h, 3, Len(h))))
  BY <1>2, SuffixIsPath
<1> QED  BY <1>2, <1>3, <1>4, Zenon DEF h, T

LEMMA JoinedPath ==
  ASSUME NEW S, NEW p \in Seq(S), NEW q \in Seq(S)
  PROVE  /\ p \o q \in Seq(S)
         /\ DecodedOnce(p) /\ DecodedOnce(q) => DecodedOnce(p \o q)
<1> DEFINE r == p \o q
<1>1. /\ r \in Seq(S) /\ Len(r) = Len(p) + Len(q)
      /\ \A i \in 1..Len(p) + Len(q) : r[i] = IF i <= Len(p) THEN p[i] ELSE q[i - Len(p)]
  BY ConcatProperties
<1> HIDE DEF r
<1>2. Len(p) \in Nat /\ Len(q) \in Nat
  OBVIOUS
<1>3. \A i \in 1..Len(r) : IF i <= Len(p) THEN i \in 1..Len(p)
                                         ELSE i - Len(p) \in 1..Len(q)
  BY <1>1, <1>2
<1>4. DecodedOnce(p) /\ DecodedOnce(q) => DecodedOnce(r)
  BY <1>1, <1>3 DEF DecodedOnce
<1> QED  BY <1>1, <1>4 DEF r

LEMMA NormalPath ==
  ASSUME NEW Words, NEW p \in Seq(PathTokens(Words))
  PROVE  /\ NormalizePath(p) \in Seq(PathTokens(Words))
         /\ Sendable(NormalizePath(p))
         /\ DecodedOnce(NormalizePath(p))
<1> DEFINE T == PathTokens(Words)
           d == Unquote(StripBlanks(p))
           l == WithoutUid(WithoutHost(d))
           a == IF StartsWith(l, <<"/">>) THEN l ELSE <<"/">> \o l
           n == NormalizePath(p)
<1>1. d \in Seq(PathTokens(Words)) /\ DecodedOnce(d)
  <2>1. StripBlanks(p) \in Seq(PathTokens(Words))
    BY StrippedPath, Zenon
  <2> QED  BY <2>1, UnquotedPath, Zenon
<1>2. l \in Seq(PathTokens(Words)) /\ DecodedOnce(l)
  <2> HIDE DEF d
  <2> QED  BY <1>1, LocalPath
<1>3. StartsWith(l, <<"/">>) <=> Len(l) >= 1 /\ l[1] = "/"
  <2> HIDE DEF l
  <2> QED  BY <1>2, PathPrefixes
<1>4. "/" \in T /\ "datastore" \in T
  BY DEF PathTokens
<1>5. \/ n = DatastorePath
      \/ n = a /\ StartsWith(a, DatastorePath \o <<"/">>)
      \/ n = a /\ a \in {<<"/", "apiversion">>, <<"/", "meters">>}
      \/ n = DatastorePath \o a
  <2>1. n = CASE d = <<>> \/ a = <<"/">> -> DatastorePath
              [] a = DatastorePath
                 \/ StartsWith(a, DatastorePath \o <<"/">>)
                 \/ a \in {<<"/", "apiversion">>, <<"/", "meters">>} -> a
              [] OTHER -> DatastorePath \o a
    BY Zenon DEF NormalizePath
  <2> HIDE DEF n, a, d
  <2> QED  BY <2>1
<1> HIDE DEF T, d, l, n
<1>6. l \in Seq(T)
  BY <1>2 DEF T
<1>7. a \in Seq(T) /\ Len(a) >= 1 /\ a[1] = "/" /\ DecodedOnce(a)
  <2>1. CASE StartsWith(l, <<"/">>)
    BY <1>2, <1>3, <1>6, <2>1
  <2>2. CASE ~StartsWith(l, <<"/">>)
    <3>1. <<"/">> \in Seq(T) /\ DecodedOnce(<<"/">>) /\ Len(<<"/">>) = 1 /\ <<"/">>[1] = "/"
      BY <1>4 DEF DecodedOnce
    <3>2. a = <<"/">> \o l
      BY <2>2
    <3>3. a \in Seq(T) /\ DecodedOnce(a)
      BY <1>2, <1>6, <3>1, <3>2, JoinedPath, Zenon
    <3>4. Len(a) = Len(<<"/">>) + Len(l) /\ a[1] = <<"/">>[1]
      BY <1>6, <3>1, <3>2, ConcatProperties
    <3> QED  BY <1>6, <3>1, <3>3, <3>4
  <2> QED  BY <2>1, <2>2
<1> HIDE DEF a
<1>8. /\ DatastorePath \in Seq(T) /\ DecodedOnce(DatastorePath) /\ Len(DatastorePath) = 2
      /\ DatastorePath[1] = "/" /\ DatastorePath[2] = "datastore"
  BY <1>4 DEF DatastorePath, DecodedOnce
<1>9. CASE n = DatastorePath
  BY <1>8, <1>9 DEF Sendable, n, T
<1>10. CASE n = a /\ StartsWith(a, DatastorePath \o <<"/">>)
  <2>1. Len(a) >= 3 /\ a[1] = "/" /\ a[2] = "datastore" /\ a[3] = "/"
    BY <1>7, <1>10, PathPrefixes DEF T
  <2> QED  BY <1>7, <1>10, <2>1 DEF Sendable, n, T
<1>11. CASE n = a /\ a \in {<<"/", "apiversion">>, <<"/", "meters">>}
  <2>1. Len(a) = 2 /\ a[1] = "/" /\ a[2] \in {"apiversion", "meters"}
    BY <1>11
  <2> QED  BY <1>7, <1>11, <2>1 DEF Sendable, n, T
<1>12. CASE n = DatastorePath \o a
  <2>1. n \in Seq(T) /\ DecodedOnce(n)
    BY <1>7, <1>8, <1>12, JoinedPath
  <2>2. /\ Len(n) = Len(DatastorePath) + Len(a)
        /\ \A i \in 1..Len(DatastorePath) + Len(a) :
             n[i] = IF i <= Len(DatastorePath) THEN DatastorePath[i] ELSE a[i - Len(DatastorePath)]
    <3>1. a \in Seq(T) /\ DatastorePath \in Seq(T)
      BY <1>7, <1>8
    <3> QED  BY <3>1, <1>12, ConcatProperties
  <2>3. Len(n) >= 3 /\ n[1] = "/" /\ n[2] = "datastore" /\ n[3] = "/"
    BY <1>7, <1>8, <2>2
  <2> QED  BY <2>1, <2>3 DEF Sendable, n, T
<1> QED  BY <1>5, <1>9, <1>10, <1>11, <1>12

\* What has been through it once only loses blanks and encoded slashes.
LEMMA SendableIsKept ==
  ASSUME NEW Words, NEW p \in Seq(PathTokens(Words)), DecodedOnce(p), Sendable(p)
  PROVE  NormalizePath(p) = Unquote(StripBlanks(p))
<1> DEFINE T == PathTokens(Words)
           q == StripBlanks(p)
           d == Unquote(q)
<1>1. p[1] = "/" /\ Len(p) >= 2 /\ p[2] \in {"datastore", "apiversion", "meters"}
  BY DEF Sendable
<1>2. /\ q \in Seq(PathTokens(Words)) /\ Len(q) <= Len(p)
      /\ \A i \in 1..Len(q) : q[i] = p[i]
      /\ \A i \in 1..Len(p) : p[i] # "blank" => i <= Len(q)
  <2>1. Len(p) >= 1 /\ p[1] # "blank"
    BY <1>1
  <2> QED  BY <2>1, StrippedPath, Zenon
<1> HIDE DEF q
<1>3. /\ d \in Seq(PathTokens(Words)) /\ Len(d) = Len(q)
      /\ \A i \in 1..Len(q) : d[i] = IF q[i] = "%2F" THEN "/" ELSE q[i]
  <2>1. DecodedOnce(q)
    BY <1>2 DEF DecodedOnce
  <2> QED  BY <1>2, <2>1, UnquotedPath
<1> HIDE DEF d
<1>4. \A i \in 1..Len(p) : p[i] \notin {"blank", "%2F"} => i \in 1..Len(d) /\ d[i] = p[i]
  BY <1>2, <1>3
<1>5. 1 \in 1..Len(p) /\ 2 \in 1..Len(p)
  BY <1>1
<1>6. d[1] = "/" /\ Len(d) >= 2 /\ d[2] = p[2]
  BY <1>1, <1>4, <1>5
<1>7. Sendable(d)
  <2>1. CASE Len(p) = 2
    BY <1>1, <1>2, <1>3, <1>6, <2>1 DEF Sendable
  <2>2. CASE Len(p) >= 3 /\ p[2] = "datastore" /\ p[3] = "/"
    <3>1. 3 \in 1..Len(d) /\ d[3] = "/"
      BY <1>4, <2>2
    <3> QED  BY <1>6, <2>2, <3>1 DEF Sendable
  <2> QED  BY <2>1, <2>2 DEF Sendable
<1>8. WithoutHost(d) = d
  <2>1. ~StartsWith(d, <<Host>>)
    BY <1>3, <1>6, PathPrefixes DEF Host
  <2> QED  BY <2>1 DEF WithoutHost
<1>9. WithoutUid(d) = d
  <2>1. \A u \in Uids : ~StartsWith(d, <<"/", u, "/">>)
    BY <1>1, <1>3, <1>6, PathPrefixes DEF Uids
  <2> QED  BY <2>1, Zenon DEF WithoutUid
<1>10. StartsWith(d, <<"/">>)
  BY <1>3, <1>6, PathPrefixes
<1>11. d # <<>> /\ d # <<"/">>
  BY <1>6
<1>12. d = DatastorePath \/ StartsWith(d, DatastorePath \o <<"/">>)
       \/ d \in {<<"/", "apiversion">>, <<"/", "meters">>}
  <2>1. CASE Len(d) = 2
    <3>1. \A t \in T : <<"/", t>> \in Seq(T) /\ Len(<<"/", t>>) = 2
                       /\ <<"/", t>>[1] = "/" /\ <<"/", t>>[2] = t
      BY DEF PathTokens
    <3>2. d[2] \in T
      <4>1. d \in Seq(T) /\ 2 \in 1..Len(d)
        BY <1>3, <2>1
      <4> HIDE DEF T
      <4> QED  BY <4>1, ElementOfSeq
    <3>3. d = <<"/", d[2]>>
      BY <1>3, <1>6, <2>1, <3>1, <3>2, SeqEqual
    <3> QED  BY <1>1, <1>6, <3>3 DEF DatastorePath
  <2>2. CASE Len(d) # 2
    BY <1>3, <1>7, <2>2, PathPrefixes DEF Sendable
  <2> QED  BY <2>1, <2>2
<1>13. NormalizePath(p) =
         LET absolute == IF StartsWith(d, <<"/">>) THEN d ELSE <<"/">> \o d
         IN CASE d = <<>> \/ absolute = <<"/">>        -> DatastorePath
              [] absolute = DatastorePath
                 \/ StartsWith(absolute, DatastorePath \o <<"/">>)
                 \/ absolute \in {<<"/", "apiversion">>, <<"/", "meters">>} -> absolute
              [] OTHER                                -> DatastorePath \o absolute
  BY <1>8, <1>9 DEF NormalizePath, d, q
<1>14. NormalizePath(p) = d
  BY <1>10, <1>11, <1>12, <1>13
<1> QED  BY <1>14 DEF d, q

(* Whatever names, slashes, blanks and their encodings a client's path is     *)
(* made of, with or without a host and a uid before it, what is sent to the  *)
(* device is the datastore, a path below it, /apiversion or /meters          *)
(* (paths.py:11-25).                                                         *)
THEOREM PathsStayInDatastore ==
  ASSUME NEW Words, NEW p \in Seq(PathTokens(Words))
  PROVE  Sendable(NormalizePath(p))
BY NormalPath

(* The path the dispatcher normalises and sends is the one the validation    *)
(* of a write, which normalises it again, looks up in the schema, exactly    *)
(* when the first pass has left no encoded slash and no blank at the end     *)
(* (http_server.py:229, schema.py:535, paths.py:11-25).                      *)
THEOREM NormalizingIsStable ==
  ASSUME NEW Words, NEW p \in Seq(PathTokens(Words))
  PROVE  NormalizePath(NormalizePath(p)) = NormalizePath(p) <=> Settled(NormalizePath(p))
<1> DEFINE n == NormalizePath(p)
           q == StripBlanks(n)
           d == Unquote(q)
<1>1. n \in Seq(PathTokens(Words)) /\ Sendable(n) /\ DecodedOnce(n)
  BY NormalPath, Zenon
<1> HIDE DEF n
<1>2. NormalizePath(n) = d
  BY <1>1, SendableIsKept, Zenon
<1>3. Len(n) >= 1 /\ n[1] # "blank"
  BY <1>1 DEF Sendable
<1>4. /\ q \in Seq(PathTokens(Words)) /\ Len(q) >= 1 /\ Len(q) <= Len(n) /\ q[Len(q)] # "blank"
      /\ \A i \in 1..Len(q) : q[i] = n[i]
      /\ \A i \in 1..Len(n) : n[i] # "blank" => i <= Len(q)
  BY <1>1, <1>3, StrippedPath, Zenon
<1> HIDE DEF q
<1>5. /\ d \in Seq(PathTokens(Words)) /\ Len(d) = Len(q)
      /\ \A i \in 1..Len(q) : d[i] = IF q[i] = "%2F" THEN "/" ELSE q[i]
  <2>1. DecodedOnce(q)
    BY <1>1, <1>4 DEF DecodedOnce
  <2> QED  BY <1>4, <2>1, UnquotedPath
<1> HIDE DEF d
<1>6. ASSUME Settled(n) PROVE d = n
  <2>1. Len(n) \in 1..Len(n) /\ Len(q) = Len(n)
    BY <1>3, <1>4, <1>6 DEF Settled
  <2>2. \A i \in 1..Len(n) : d[i] = n[i]
    BY <1>4, <1>5, <1>6, <2>1 DEF Settled
  <2> QED  BY <1>1, <1>5, <2>1, <2>2, SeqEqual
<1>7. ASSUME d = n PROVE Settled(n)
  <2>1. \A i \in 1..Len(n) : n[i] # "%2F"
    BY <1>4, <1>5, <1>7
  <2>2. n[Len(n)] # "blank"
    BY <1>4, <1>5, <1>7
  <2> QED  BY <2>1, <2>2 DEF Settled
<1> QED  BY <1>2, <1>6, <1>7 DEF n

-----------------------------------------------------------------------------
(* Any sysfs: any number of devices, interfaces and endpoints, each read     *)
(* with any outcome.                                                        *)

AnyEndpoints ==
  [address : Nat, type : {"bulk", "iso", "missing", "denied", "gone"},
   size : {"ok", "missing", "garbled", "denied", "gone"}]
AnyInterfaces ==
  [number : Nat, class : {"vendor", "audio", "missing", "denied", "garbled", "gone"},
   bound : BOOLEAN, listing : {"ok", "missing", "denied"}, endpoints : Seq(AnyEndpoints)]
DevicesOf(Known) ==
  [ids : {"motu", "other", "missing", "denied", "garbled", "gone"},
   serial : Known \cup {"", "denied", "gone"},
   numbers : {"ok", "missing", "denied", "garbled", "gone"}, interfaces : Seq(AnyInterfaces)]

LEMMA FirstErrorIsOne ==
  ASSUME NEW n \in Nat, NEW errors, DOMAIN errors = 1..n
  PROVE  /\ FirstError(errors) = "none" => \A i \in 1..n : errors[i] = "none"
         /\ FirstError(errors) # "none" => \E i \in 1..n : FirstError(errors) = errors[i]
<1> DEFINE raised == {i \in DOMAIN errors : errors[i] # "none"}
<1>1. raised \in SUBSET Nat
  OBVIOUS
<1>2. raised # {} => Min(raised) \in raised
  BY <1>1, MinOfSome
<1>3. FirstError(errors) = IF raised = {} THEN "none" ELSE errors[Min(raised)]
  BY DEF FirstError
<1> QED  BY <1>2, <1>3, Zenon

LEMMA InterfaceErrors ==
  ASSUME NEW i \in AnyInterfaces
  PROVE  /\ (\A e \in Range(i.endpoints) : "denied" \notin {e.type, e.size})
              => InterfaceError(i) \in {"none", "gone"}
         /\ IsVendor(i) /\ InterfaceError(i) = "none" =>
              \A e \in Range(i.endpoints) : e.type \notin {"denied", "gone"}
<1> DEFINE errors == [k \in DOMAIN i.endpoints |-> EndpointError(i.endpoints[k])]
           n == Len(i.endpoints)
<1>1. i.endpoints \in Seq(AnyEndpoints)
  BY DEF AnyInterfaces
<1>2. n \in Nat /\ DOMAIN i.endpoints = 1..n
  BY <1>1, LenProperties
<1>3. DOMAIN errors = 1..n /\ \A k \in 1..n : errors[k] = EndpointError(i.endpoints[k])
  BY <1>2
<1>4. Range(i.endpoints) = {i.endpoints[k] : k \in 1..n}
  BY <1>2 DEF Range
<1>5. \A k \in 1..n : i.endpoints[k] \in Range(i.endpoints)
  BY <1>4
<1>6. IsVendor(i) /\ i.class # "gone" => InterfaceError(i) = FirstError(errors)
  BY DEF InterfaceError
<1>7. /\ i.class = "gone" => InterfaceError(i) = "gone"
      /\ ~IsVendor(i) /\ i.class # "gone" => InterfaceError(i) = "none"
      /\ IsVendor(i) => i.class # "gone"
  BY DEF InterfaceError, IsVendor
<1> HIDE DEF errors, n
<1>8. /\ FirstError(errors) = "none" => \A k \in 1..n : errors[k] = "none"
      /\ FirstError(errors) # "none" => \E k \in 1..n : FirstError(errors) = errors[k]
  BY <1>2, <1>3, FirstErrorIsOne
<1>9. ASSUME \A e \in Range(i.endpoints) : "denied" \notin {e.type, e.size}
      PROVE  InterfaceError(i) \in {"none", "gone"}
  <2>1. \A k \in 1..n : errors[k] \in {"none", "gone"}
    BY <1>3, <1>5, <1>9 DEF EndpointError
  <2> QED  BY <1>6, <1>7, <1>8, <2>1
<1>10. ASSUME IsVendor(i), InterfaceError(i) = "none", NEW e \in Range(i.endpoints)
       PROVE  e.type \notin {"denied", "gone"}
  <2>1. PICK k \in 1..n : e = i.endpoints[k]
    BY <1>4
  <2>2. EndpointError(e) = "none"
    BY <1>3, <1>6, <1>7, <1>8, <1>10, <2>1
  <2> QED  BY <2>2 DEF EndpointError
<1> QED  BY <1>9, <1>10

LEMMA DeviceErrors ==
  ASSUME NEW Known, NEW dev \in DevicesOf(Known), NEW serial, NEW overrides
  PROVE  /\ (\A i \in Range(dev.interfaces) : \A e \in Range(i.endpoints) :
               "denied" \notin {e.type, e.size})
              => DeviceError(dev, serial, overrides) \in {"none", "gone", "NoControl"}
         /\ DeviceError(dev, serial, overrides) = "none" =>
              /\ Wanted(dev, serial) /\ dev.serial # "denied" => Matching(dev, serial)
              /\ Matching(dev, serial) =>
                   \A i \in Range(dev.interfaces) : InterfaceError(i) = "none"
<1> DEFINE errors == [k \in DOMAIN dev.interfaces |-> InterfaceError(dev.interfaces[k])]
           n == Len(dev.interfaces)
           error == DeviceError(dev, serial, overrides)
<1>1. dev.interfaces \in Seq(AnyInterfaces)
  BY Zenon DEF DevicesOf
<1>2. n \in Nat /\ DOMAIN dev.interfaces = 1..n /\ \A k \in 1..n : dev.interfaces[k] \in AnyInterfaces
  BY <1>1, LenProperties, ElementOfSeq
<1>3. DOMAIN errors = 1..n /\ \A k \in 1..n : errors[k] = InterfaceError(dev.interfaces[k])
  BY <1>2
<1>4. Range(dev.interfaces) = {dev.interfaces[k] : k \in 1..n}
  BY <1>2 DEF Range
<1>5. \A k \in 1..n : dev.interfaces[k] \in Range(dev.interfaces)
  BY <1>4
<1>6. /\ ~Matching(dev, serial) => error \in {"none", "gone"}
      /\ Matching(dev, serial) => error =
           IF FirstError(errors) # "none" THEN FirstError(errors)
           ELSE IF ControlInterfaces(dev) = {} /\ overrides = NoOverrides /\ serial # ""
           THEN "NoControl" ELSE "none"
  BY Zenon DEF DeviceError, Matching
<1>7. error = "none" /\ Wanted(dev, serial) /\ dev.serial # "denied" => Matching(dev, serial)
  BY Zenon DEF DeviceError, Matching, Wanted
<1> HIDE DEF errors, n, error
<1>8. /\ FirstError(errors) = "none" => \A k \in 1..n : errors[k] = "none"
      /\ FirstError(errors) # "none" => \E k \in 1..n : FirstError(errors) = errors[k]
  BY <1>2, <1>3, FirstErrorIsOne
<1>9. ASSUME \A i \in Range(dev.interfaces) : \A e \in Range(i.endpoints) :
               "denied" \notin {e.type, e.size}
      PROVE  error \in {"none", "gone", "NoControl"}
  <2>1. \A k \in 1..n : errors[k] \in {"none", "gone"}
    BY <1>2, <1>3, <1>5, <1>9, InterfaceErrors
  <2> QED  BY <1>6, <1>8, <2>1, Zenon
<1>10. ASSUME error = "none", Matching(dev, serial), NEW i \in Range(dev.interfaces)
       PROVE  InterfaceError(i) = "none"
  BY <1>3, <1>4, <1>6, <1>8, <1>10, Zenon
<1> QED  BY <1>7, <1>9, <1>10, Zenon DEF error

LEMMA ControlIsClaimable ==
  ASSUME NEW Known, NEW dev \in DevicesOf(Known), ControlInterfaces(dev) # {}
  PROVE  \E i \in Range(dev.interfaces) :
           /\ i.number = Control(dev).interface
           /\ Claimable(i, Control(dev).ep_out, Control(dev).ep_in)
<1> DEFINE C == ControlInterfaces(dev)
           i == CHOOSE c \in C : \A o \in C : c.number <= o.number
           outs == {a \in Bulk(i) : ~IsIn(a)}
           ins == {a \in Bulk(i) : IsIn(a)}
<1>1. \A c \in C : c \in AnyInterfaces /\ c \in Range(dev.interfaces)
  <2>1. dev.interfaces \in Seq(AnyInterfaces)
    BY Zenon DEF DevicesOf
  <2>2. \A c \in Range(dev.interfaces) : c \in AnyInterfaces
    BY <2>1, LenProperties, ElementOfSeq DEF Range
  <2> QED  BY <2>2 DEF ControlInterfaces
<1>2. i \in C
  <2> DEFINE N == {c.number : c \in C}
  <2>1. N \in SUBSET Nat /\ N # {}
    BY <1>1 DEF AnyInterfaces
  <2>2. PICK c \in C : c.number = Min(N)
    BY <2>1, MinOfSome, Zenon
  <2>3. \A o \in C : c.number <= o.number
    BY <2>1, <2>2, MinOfSome
  <2> QED  BY <2>3
<1>3. /\ Control(dev).interface = i.number
      /\ Control(dev).ep_out = Min(outs) /\ Control(dev).ep_in = Min(ins)
  BY Zenon DEF Control
<1> HIDE DEF i
<1>4. i \in AnyInterfaces /\ i \in Range(dev.interfaces) /\ IsVendor(i)
  BY <1>1, <1>2 DEF ControlInterfaces
<1>5. \A a \in Bulk(i) : a \in Nat /\ \E e \in Range(i.endpoints) : e.address = a /\ e.type # "iso"
  <2>1. i.endpoints \in Seq(AnyEndpoints)
    BY <1>4 DEF AnyInterfaces
  <2>2. \A e \in Range(i.endpoints) : e \in AnyEndpoints
    BY <2>1, LenProperties, ElementOfSeq DEF Range
  <2>3. \A e \in Range(i.endpoints) : e.address \in Nat
    BY <2>2 DEF AnyEndpoints
  <2> QED  BY <2>3 DEF Bulk, IsBulk
<1>6. outs # {} /\ ins # {}
  BY <1>2 DEF ControlInterfaces
<1>7. outs \in SUBSET Nat /\ ins \in SUBSET Nat
  BY <1>5
<1>8. Min(outs) \in outs /\ Min(ins) \in ins
  BY <1>6, <1>7, MinOfSome
<1>9. Claimable(i, Min(outs), Min(ins))
  BY <1>4, <1>5, <1>8, Zenon DEF Claimable, IsVendor
<1> QED  BY <1>3, <1>4, <1>9, Zenon

\* An interface that could be claimed makes the device one with a control
\* interface.
LEMMA ClaimableIsControl ==
  ASSUME NEW Known, NEW dev \in DevicesOf(Known), NEW i \in Range(dev.interfaces),
         InterfaceError(i) = "none", i.listing = "ok",
         NEW e \in Range(i.endpoints), NEW f \in Range(i.endpoints),
         Claimable(i, e.address, f.address)
  PROVE  ControlInterfaces(dev) # {}
<1>1. i \in AnyInterfaces
  <2>1. dev.interfaces \in Seq(AnyInterfaces)
    BY Zenon DEF DevicesOf
  <2> QED  BY <2>1, LenProperties, ElementOfSeq DEF Range
<1>2. IsVendor(i)
  BY DEF Claimable, IsVendor
<1>3. \A d \in Range(i.endpoints) : d.type # "iso" => IsBulk(d)
  <2>1. \A d \in Range(i.endpoints) : d.type \notin {"denied", "gone"}
    BY <1>1, <1>2, InterfaceErrors
  <2>2. i.endpoints \in Seq(AnyEndpoints)
    BY <1>1 DEF AnyInterfaces
  <2>3. \A d \in Range(i.endpoints) : d \in AnyEndpoints
    BY <2>2, LenProperties, ElementOfSeq DEF Range
  <2> QED  BY <2>1, <2>3 DEF IsBulk, AnyEndpoints
<1>4. e.address \in Bulk(i) /\ f.address \in Bulk(i)
  <2>1. PICK d \in Range(i.endpoints) : d.address = e.address /\ d.type # "iso"
    BY DEF Claimable
  <2>2. PICK g \in Range(i.endpoints) : g.address = f.address /\ g.type # "iso"
    BY DEF Claimable
  <2> QED  BY <1>3, <2>1, <2>2, Zenon DEF Bulk
<1>5. ~IsIn(e.address) /\ IsIn(f.address)
  BY DEF Claimable
<1>6. i \in ControlInterfaces(dev)
  BY <1>2, <1>4, <1>5, Zenon DEF ControlInterfaces
<1> QED  BY <1>6

(* find_motu_device in any sysfs, with any number of devices, any interfaces *)
(* and endpoints and any outcome of every read.  What it opens is the only   *)
(* device that is wanted and has an interface to claim, and its endpoints    *)
(* are bulk endpoints of one unbound vendor interface; where it raises, and  *)
(* no permission was denied, the device counts as lost and is looked for     *)
(* again (device.py:64-204, datastore.py:703-714).                           *)
THEOREM AnyScanFindsOrWaits ==
  ASSUME NEW Known, NEW sysfs \in Seq(DevicesOf(Known)),
         NEW serial, NEW overrides
  PROVE  FindsOrWaits(sysfs, serial, overrides)
<1> DEFINE n == Len(sysfs)
           errors == [k \in DOMAIN sysfs |-> DeviceError(sysfs[k], serial, overrides)]
           error == FirstError(errors)
           matching == {k \in DOMAIN sysfs : Matching(sysfs[k], serial)}
           found == {k \in matching : overrides # NoOverrides \/ ControlInterfaces(sysfs[k]) # {}}
           r == FindMotuDevice(sysfs, serial, overrides)
           several == \E j, k \in found : j # k
           at == CHOOSE k \in found : TRUE
<1>1. n \in Nat /\ DOMAIN sysfs = 1..n /\ \A k \in 1..n : sysfs[k] \in DevicesOf(Known)
  BY LenProperties, ElementOfSeq
<1>2. DOMAIN errors = 1..n /\ \A k \in 1..n : errors[k] = DeviceError(sysfs[k], serial, overrides)
  BY <1>1
<1>3. /\ error # "none" => r.error = error
      /\ error = "none" /\ found = {} => r.error \in {"NoControl", "NoDevice"}
      /\ error = "none" /\ found # {} /\ several => r.error = "Multiple"
      /\ error = "none" /\ found # {} /\ ~several =>
           /\ r.error = "none" /\ r.at = at
           /\ overrides = NoOverrides => r.control = Control(sysfs[at])
  BY Zenon DEF FindMotuDevice
<1> HIDE DEF n, errors, r
<1>4. /\ error = "none" => \A k \in 1..n : errors[k] = "none"
      /\ error # "none" => \E k \in 1..n : error = errors[k]
  BY <1>1, <1>2, FirstErrorIsOne
<1> HIDE DEF error
<1>5. found \in SUBSET (1..n)
  BY <1>1
<1>6. ASSUME r.error = "none", overrides = NoOverrides
      PROVE  OnlyOne(sysfs, serial, r.at, r.control)
  <2>1. error = "none" /\ found # {} /\ ~several
    BY <1>3, <1>6, Zenon
  <2>2. r.at = at /\ r.control = Control(sysfs[at])
    BY <1>3, <1>6, <2>1, Zenon
  <2>4. at \in found /\ \A k \in found : k = at
    BY <2>1, Zenon
  <2> HIDE DEF at
  <2>5. /\ at \in 1..n /\ Matching(sysfs[at], serial)
        /\ ControlInterfaces(sysfs[at]) # {} /\ sysfs[at] \in DevicesOf(Known)
    BY <1>1, <1>6, <2>4
  <2>6. Wanted(sysfs[at], serial)
    BY <2>5, Zenon DEF Matching, Wanted
  <2>7. \E i \in Range(sysfs[at].interfaces) :
           /\ i.number = Control(sysfs[at]).interface
           /\ Claimable(i, Control(sysfs[at]).ep_out, Control(sysfs[at]).ep_in)
    BY <2>5, ControlIsClaimable, Zenon
  <2>8. ASSUME NEW k \in DOMAIN sysfs \ {at}, Wanted(sysfs[k], serial),
               sysfs[k].serial # "denied", NEW i \in Range(sysfs[k].interfaces),
               i.listing = "ok", NEW e \in Range(i.endpoints), NEW f \in Range(i.endpoints),
               Claimable(i, e.address, f.address)
        PROVE  FALSE
    <3>1. k \in 1..n /\ DeviceError(sysfs[k], serial, overrides) = "none"
      BY <1>1, <1>2, <1>4, <2>1, Zenon
    <3>2. sysfs[k] \in DevicesOf(Known)
      BY <1>1, <3>1
    <3>3. Matching(sysfs[k], serial)
      BY <2>8, <3>1, <3>2, DeviceErrors, Zenon
    <3>4. InterfaceError(i) = "none"
      BY <3>1, <3>2, <3>3, DeviceErrors, Zenon
    <3>5. ControlInterfaces(sysfs[k]) # {}
      BY <2>8, <3>2, <3>4, ClaimableIsControl, Zenon
    <3>6. k \in found
      BY <3>3, <3>5
    <3> QED  BY <2>4, <3>6, Zenon
  <2> HIDE DEF found
  <2> QED  BY <1>1, <2>2, <2>5, <2>6, <2>7, <2>8, Zenon DEF OnlyOne
<1>7. ASSUME ~Denied(sysfs)
      PROVE  r.error = "none" \/ IsReconnectable(r.error)
  <2>1. \A k \in 1..n : errors[k] \in {"none", "gone", "NoControl"}
    <3> SUFFICES ASSUME NEW k \in 1..n
                 PROVE  DeviceError(sysfs[k], serial, overrides) \in {"none", "gone", "NoControl"}
      BY <1>2
    <3>1. \A i \in Range(sysfs[k].interfaces) : \A e \in Range(i.endpoints) :
            "denied" \notin {e.type, e.size}
      BY <1>1, <1>7 DEF Denied
    <3> QED  BY <1>1, <3>1, DeviceErrors, Zenon
  <2>2. error \in {"none", "gone", "NoControl"}
    BY <1>4, <2>1
  <2> HIDE DEF found
  <2>3. r.error \in {"none", "gone", "NoControl", "NoDevice", "Multiple"}
    BY <1>3, <2>2
  <2> QED  BY <2>3 DEF IsReconnectable
<1> QED  BY <1>6, <1>7 DEF FindsOrWaits, r

(* The property the runs check on one or two devices, for any number of      *)
(* devices with any interfaces, endpoints and serials (device.py:64-204).    *)
THEOREM ScanIsRight ==
  ASSUME NEW Known, kind = "sysfs" => input \in Seq(DevicesOf(Known))
  PROVE  ScanFindsOrWaits
<1> SUFFICES ASSUME kind = "sysfs", NEW serial \in Serials, NEW overrides
             PROVE  FindsOrWaits(input, serial, overrides)
  BY DEF ScanFindsOrWaits
<1>1. input \in Seq(DevicesOf(Known))
  OBVIOUS
<1> QED  BY <1>1, AnyScanFindsOrWaits

=============================================================================
