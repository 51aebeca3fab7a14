---------------------------- MODULE ServeProofs ----------------------------
(***************************************************************************)
(* What a connection and the process around it promise, for every list of  *)
(* requests a client may send, every set of options and every body limit.  *)
(***************************************************************************)
EXTENDS Serve, TLAPS

\* A leaf of these proofs takes the SMT solver a second or less, on a busy machine
\* more; the leaves that need Zenon say so.
USE SMTT(30)

-----------------------------------------------------------------------------
(* The stream.  After cell k of the wire come b bytes of request i, then    *)
(* the head of the next; the last request is followed by what its client    *)
(* still owes.                                                              *)

Follows(w, n, o, k, i, b) ==
  /\ i <= n
  /\ \A p \in 1..Len(w) : /\ k < p /\ p <= k + b => w[p] = -i
                          /\ p = k + b + 1 => w[p] = i + 1
  /\ i < n => k + b < Len(w)
  /\ i = n => Len(w) - k + o = b

LEMMA FollowsHead ==
  ASSUME NEW w \in Seq(Int), NEW n \in Nat, NEW k \in Nat, NEW i \in Nat,
         NEW b \in Nat, NEW m \in Nat, k <= Len(w), Follows(w, n, 0, k, i, b)
  PROVE  Follows(Append(w, n + 1), n + 1, m, k, i, b)
<1> DEFINE v == Append(w, n + 1)
<1>1. /\ Len(v) = Len(w) + 1 /\ v[Len(w) + 1] = n + 1
      /\ \A p \in 1..Len(w) : v[p] = w[p]
  OBVIOUS
<1> HIDE DEF v
<1>2. Len(w) \in Nat
  OBVIOUS
<1>3. i <= n + 1 /\ (i < n + 1 => k + b < Len(v)) /\ (i = n + 1 => Len(v) - k + m = b)
  BY <1>1, <1>2 DEF Follows
<1>4. ASSUME NEW p \in 1..Len(v)
      PROVE  /\ k < p /\ p <= k + b => v[p] = -i
             /\ p = k + b + 1 => v[p] = i + 1
  <2>1. CASE p \in 1..Len(w)
    BY <1>1, <2>1 DEF Follows
  <2>2. CASE p = Len(w) + 1
    <3>1. i = n => k + b + 1 = p
      BY <1>2, <2>2 DEF Follows
    <3>2. i < n => k + b + 1 < p
      BY <1>2, <2>2 DEF Follows
    <3> QED  BY <1>1, <2>2, <3>1, <3>2 DEF Follows
  <2> QED  BY <1>1, <1>2, <2>1, <2>2, SMTT(30)
<1> QED  BY <1>3, <1>4 DEF Follows, v

LEMMA FollowsByte ==
  ASSUME NEW w \in Seq(Int), NEW n \in Nat, NEW k \in Nat, NEW i \in Nat,
         NEW b \in Nat, NEW o \in Nat, o > 0, k <= Len(w), Follows(w, n, o, k, i, b)
  PROVE  Follows(Append(w, -n), n, (o - 1), k, i, b)
<1> DEFINE v == Append(w, -n)
<1>1. /\ Len(v) = Len(w) + 1 /\ v[Len(w) + 1] = -n
      /\ \A p \in 1..Len(w) : v[p] = w[p]
  OBVIOUS
<1> HIDE DEF v
<1>2. Len(w) \in Nat
  OBVIOUS
<1>3. i <= n /\ (i < n => k + b < Len(v)) /\ (i = n => Len(v) - k + (o - 1) = b)
  BY <1>1, <1>2 DEF Follows
<1>4. ASSUME NEW p \in 1..Len(v)
      PROVE  /\ k < p /\ p <= k + b => v[p] = -i
             /\ p = k + b + 1 => v[p] = i + 1
  <2>1. CASE p \in 1..Len(w)
    BY <1>1, <2>1 DEF Follows
  <2>2. CASE p = Len(w) + 1
    <3>1. i = n => p + o = k + b + 1
      BY <1>2, <2>2, SMTT(30) DEF Follows
    <3>2. i < n => k + b + 1 < p
      BY <1>2, <2>2 DEF Follows
    <3> QED  BY <1>1, <2>2, <3>1, <3>2 DEF Follows
  <2> QED  BY <1>1, <1>2, <2>1, <2>2
<1> QED  BY <1>3, <1>4 DEF Follows, v

LEMMA FollowsTail ==
  ASSUME NEW w \in Seq(Int), w # <<>>, NEW n \in Nat, NEW o \in Nat, NEW k \in Nat,
         NEW i \in Nat, NEW b \in Nat, 0 < k, k <= Len(w), Follows(w, n, o, k, i, b)
  PROVE  Follows(Tail(w), n, o, k - 1, i, b)
<1> DEFINE v == Tail(w)
<1>1. /\ v \in Seq(Int) /\ Len(v) = Len(w) - 1
      /\ \A j \in 1..Len(v) : v[j] = w[j + 1]
  OBVIOUS
<1> HIDE DEF v
<1>2. Len(w) \in Nat /\ Len(v) \in Nat
  BY <1>1
<1>3. \A p \in 1..Len(v) : /\ k - 1 < p /\ p <= k - 1 + b => v[p] = -i
                          /\ p = k - 1 + b + 1 => v[p] = i + 1
  BY <1>1, <1>2 DEF Follows
<1>4. i <= n /\ (i < n => k - 1 + b < Len(v)) /\ (i = n => Len(v) - (k - 1) + o = b)
  BY <1>1, <1>2 DEF Follows
<1> QED  BY <1>3, <1>4 DEF Follows, v

LEMMA FollowsRead ==
  ASSUME NEW w \in Seq(Int), w # <<>>, NEW n \in Nat, NEW o \in Nat,
         NEW i \in Nat, NEW b \in Nat, 0 < b, Follows(w, n, o, 0, i, b)
  PROVE  w[1] = -i /\ Follows(Tail(w), n, o, 0, i, b - 1)
BY DEF Follows

LEMMA FollowsNext ==
  ASSUME NEW w \in Seq(Int), w # <<>>, NEW n \in Nat, NEW o \in Nat,
         NEW i \in Nat, Follows(w, n, o, 0, i, 0)
  PROVE  w[1] = i + 1
BY DEF Follows

-----------------------------------------------------------------------------
(* Types.                                                                   *)

LEMMA FailureTypes ==
  ASSUME NEW r \in Request
  PROVE  {GetFailure(r), WriteFailure(r), DispatchFailure(r)} \subseteq
           {"none", "BadRequest", "Forbidden", "TooLarge", "Invalid", "Other"}
BY DEF GetFailure, WriteFailure, DispatchFailure, SchemaFailure, Admitted, AdmissionFailure

LEMMA StatusType == \A e : Status(e) \in Nat
BY DEF Status

LEMMA ReplyType ==
  ASSUME HttpTypeOK, NEW close \in BOOLEAN, NEW whole \in BOOLEAN
  PROVE  /\ Reply(close, whole) \in [request : Nat, status : Nat, close : BOOLEAN, whole : BOOLEAN]
         /\ Append(replies, Reply(close, whole)) \in
              Seq([request : Nat, status : Nat, close : BOOLEAN, whole : BOOLEAN])
BY StatusType DEF Reply, HttpTypeOK

\* A write whose headers pass, and one that reaches run_post.
LEMMA WritePasses ==
  ASSUME NEW r \in Request, WriteFailure(r) = "none"
  PROVE  Admitted(r) /\ r.te # "chunked" /\ r.length <= MaxBody
BY RequestsAssumption DEF WriteFailure, Admitted, Request

LEMMA DispatchPasses ==
  ASSUME NEW r \in Request, DispatchFailure(r) = "none", IsWrite(r)
  PROVE  /\ Admitted(r) /\ r.length > 0 /\ r.body \notin {"notJson", "long"}
         /\ config.validate => r.body # "readonly"
         /\ config.validate /\ ~config.unknown => r.body # "unknown"
BY DEF DispatchFailure, SchemaFailure, Admitted, Request

Idle == {"backlog", "request", "closed"}

\* What the handler meets on the wire, and what it handles, was asked.
Bounds ==
  /\ \A k \in 1..Len(wire) : wire[k] <= Len(asked)
  /\ current <= Len(asked)
  /\ pc \notin Idle => current > 0

TypeInv == TypeOK /\ Bounds

LEMMA InitType == Init => TypeInv
<1> SUFFICES ASSUME Init PROVE TypeInv
  OBVIOUS
<1>1. /\ asked \in Seq(Request) /\ wire \in Seq(Int)
      /\ replies \in Seq([request : Nat, status : Nat, close : BOOLEAN, whole : BOOLEAN])
  BY DEF Init, HttpInit
<1>2. Len(<<>>) = 0 /\ Len(Menu) \in Nat
  BY RequestsAssumption
<1>3. HttpTypeOK
  <2>1. Len(asked) <= Len(Menu)
    BY <1>2 DEF Init, HttpInit
  <2>2. /\ config \in Configs /\ closed = FALSE /\ owed = 0 /\ gone = FALSE
        /\ pc = "backlog" /\ current = 0 /\ got = 0 /\ exc = "none"
        /\ close_connection = TRUE /\ calls = {}
    BY DEF Init, HttpInit
  <2> QED  BY <1>1, <2>1, <2>2, Zenon DEF HttpTypeOK
<1>4. Bounds
  BY <1>2 DEF Init, HttpInit, Bounds, Idle
<1> QED  BY <1>3, <1>4, Zenon DEF Init, TypeOK, TypeInv

\* The types of the process, and of a connection that only moves its handler.
LEMMA ProcessType ==
  ASSUME TypeOK, MainStep \/ Accept \/ ServeFails \/ Interrupt \/ OtherStep
  PROVE  TypeOK'
<1> USE DEF TypeOK, HttpTypeOK, httpVars, process, env, client, handler, Goto
<1>1. CASE OpenTokenFile     BY <1>1 DEF OpenTokenFile
<1>2. CASE WriteToken        BY <1>2 DEF WriteToken
<1>3. CASE MoveOn            BY <1>3 DEF MoveOn
<1>4. CASE BeforeClose       BY <1>4 DEF BeforeClose
<1>5. CASE CloseCoordinator  BY <1>5 DEF CloseCoordinator
<1>6. CASE CloseDatastore    BY <1>6 DEF CloseDatastore
<1>7. CASE RemoveToken       BY <1>7 DEF RemoveToken, CheckToken
<1>8. CASE ProcessEnds       BY <1>8 DEF ProcessEnds
<1>9. CASE Accept            BY <1>9 DEF Accept
<1>10. CASE Interrupt        BY <1>10 DEF Interrupt, Unwound
<1>11. CASE OtherStep        BY <1>11 DEF OtherStep
<1>12. CASE ServeFails       BY <1>12 DEF ServeFails
<1> QED  BY <1>1, <1>2, <1>3, <1>4, <1>5, <1>6, <1>7, <1>8, <1>9, <1>10, <1>11, <1>12,
            Zenon DEF MainStep

LEMMA ClientType ==
  ASSUME HttpTypeOK, ClientStep
  PROVE  HttpTypeOK'
<1> USE DEF HttpTypeOK, handler
<1>1. CASE ClientSendsHead
  <2>1. PICK r \in Menu[Len(asked) + 1] : asked' = Append(asked, r) /\ owed' = BodyLength(r)
    BY <1>1 DEF ClientSendsHead
  <2>2. r \in Request
    BY <1>1, <2>1, RequestsAssumption DEF ClientSendsHead
  <2>3. BodyLength(r) \in Nat
    BY <2>2 DEF BodyLength, Request
  <2>4. asked' \in Seq(Request) /\ Len(asked') = Len(asked) + 1 /\ Len(asked') <= Len(Menu)
    BY <1>1, <2>1, <2>2, RequestsAssumption DEF ClientSendsHead
  <2>5. wire' \in Seq(Int)
    BY <1>1, <2>4 DEF ClientSendsHead
  <2> QED  BY <1>1, <2>1, <2>3, <2>4, <2>5 DEF ClientSendsHead
<1>2. CASE ClientSendsByte  BY <1>2 DEF ClientSendsByte
<1>3. CASE ClientLeaves     BY <1>3 DEF ClientLeaves
<1> QED  BY <1>1, <1>2, <1>3 DEF ClientStep

LEMMA ReqType ==
  ASSUME HttpTypeOK, Bounds, pc \notin Idle
  PROVE  req \in Request
BY DEF HttpTypeOK, Bounds, req

LEMMA HandlerType ==
  ASSUME HttpTypeOK, Bounds, HandlerStep
  PROVE  HttpTypeOK'
<1>0. pc \in {"headers", "dispatch", "busy"} => req \in Request
  BY ReqType DEF Idle
<1> USE DEF HttpTypeOK, client
<1>1. CASE ReadRequest
  <2>1. wire' \in Seq(Int) /\ current' \in Nat
    BY <1>1 DEF ReadRequest
  <2>2. asked[Head(wire)].close \in BOOLEAN
    <3>1. Head(wire) \in 1..Len(asked)
      BY <1>1 DEF ReadRequest, Bounds
    <3>2. asked[Head(wire)] \in Request
      BY <3>1
    <3> QED  BY <3>2 DEF Request
  <2> QED  BY <1>1, <2>1, <2>2, Zenon DEF ReadRequest
<1>2. CASE NoMoreRequests  BY <1>2 DEF NoMoreRequests
<1>3. CASE CheckHeaders    BY <1>0, <1>3, FailureTypes DEF CheckHeaders
<1>4. CASE ReadByte        BY <1>4 DEF ReadByte
<1>5. CASE BodyEnds \/ BodyTimesOut  BY <1>5, Zenon DEF BodyEnds, BodyTimesOut, BodyStops, BodyResets
<1>6. CASE Dispatch        BY <1>0, <1>6, FailureTypes DEF Dispatch
<1>7. CASE LeaveQueue      BY <1>7 DEF LeaveQueue
<1>8. CASE Answer          BY <1>8 DEF Answer, Results, BackendErrors
<1>9. CASE SendResponse    BY <1>9, ReplyType, Zenon DEF SendResponse, NextOrClose
<1>10. CASE ResponseBreaks  BY <1>10, ReplyType, Zenon DEF ResponseBreaks, NextOrClose
<1>11. CASE SendError      BY <1>11, ReplyType, Zenon DEF SendError, NextOrClose, CloseWriteConnection
<1>12. CASE ErrorBreaks    BY <1>12, ReplyType, Zenon DEF ErrorBreaks, NextOrClose, CloseWriteConnection
<1> QED  BY <1>1, <1>2, <1>3, <1>4, <1>5, <1>6, <1>7, <1>8, <1>9, <1>10, <1>11, <1>12
         DEF HandlerStep

LEMMA NextBounds ==
  ASSUME TypeInv, [Next]_vars
  PROVE  Bounds'
<1>0. HttpTypeOK /\ Bounds
  BY DEF TypeInv, TypeOK
<1>1. CASE ClientSendsHead
  <2>1. PICK r : asked' = Append(asked, r)
    BY <1>1 DEF ClientSendsHead
  <2>2. Len(asked') = Len(asked) + 1
    BY <1>0, <2>1 DEF HttpTypeOK
  <2>3. \A k \in 1..Len(wire') : wire'[k] <= Len(asked')
    BY <1>0, <1>1, <2>2 DEF ClientSendsHead, HttpTypeOK, Bounds
  <2> QED  BY <1>0, <1>1, <2>2, <2>3 DEF ClientSendsHead, HttpTypeOK, Bounds, handler
<1>2. CASE ClientSendsByte
  BY <1>0, <1>2, SMTT(30) DEF ClientSendsByte, HttpTypeOK, Bounds, handler
<1>3. CASE ReadRequest
  BY <1>0, <1>3 DEF ReadRequest, HttpTypeOK, Bounds, client, Idle
<1>4. CASE ReadByte
  BY <1>0, <1>4 DEF ReadByte, HttpTypeOK, Bounds, client, Idle
<1>5. ASSUME UNCHANGED <<asked, wire, current>>, pc' \notin Idle => pc \notin Idle
      PROVE  Bounds'
  BY <1>0, <1>5 DEF Bounds
<1>6. CASE \/ ClientLeaves \/ NoMoreRequests \/ CheckHeaders \/ BodyEnds \/ BodyTimesOut
           \/ Dispatch \/ LeaveQueue \/ Answer \/ SendResponse \/ ResponseBreaks
           \/ SendError \/ ErrorBreaks
  BY <1>5, <1>6, Zenon
  DEF ClientLeaves, NoMoreRequests, CheckHeaders, BodyEnds, BodyTimesOut, BodyStops, BodyResets,
      Dispatch, LeaveQueue, Answer, SendResponse, ResponseBreaks, SendError, ErrorBreaks,
      NextOrClose, Idle, client, handler
<1>7. CASE MainStep \/ Accept \/ ServeFails \/ Interrupt \/ OtherStep \/ UNCHANGED vars
  BY <1>5, <1>7, Zenon
  DEF MainStep, OpenTokenFile, WriteToken, MoveOn, BeforeClose, CloseCoordinator,
      CloseDatastore, RemoveToken, ProcessEnds, Accept, ServeFails, Interrupt, OtherStep, Idle,
      vars, httpVars, client, handler
<1> QED  BY <1>1, <1>2, <1>3, <1>4, <1>6, <1>7 DEF Next, Http, ClientStep, HandlerStep

LEMMA NextType == TypeInv /\ [Next]_vars => TypeInv'
<1> SUFFICES ASSUME TypeInv, [Next]_vars PROVE TypeOK'
  BY NextBounds DEF TypeInv
<1>1. CASE MainStep \/ Accept \/ ServeFails \/ Interrupt \/ OtherStep
  BY <1>1, ProcessType DEF TypeInv
<1>2. CASE Http(ClientStep) \/ Http(HandlerStep)
  <2>1. HttpTypeOK'
    BY <1>2, ClientType, HandlerType DEF Http, TypeInv, TypeOK
  <2> QED  BY <1>2, <2>1 DEF Http, TypeInv, TypeOK, process, env
<1>3. CASE UNCHANGED vars
  BY <1>3 DEF TypeInv, TypeOK, HttpTypeOK, vars, httpVars, process, env, client, handler
<1> QED  BY <1>1, <1>2, <1>3 DEF Next

\* The types of Serve and of the connection in it.
THEOREM TypeCorrect == Spec => []TypeOK
<1>1. TypeInv => TypeOK
  BY DEF TypeInv
<1>2. Spec => []TypeInv
  BY InitType, NextType, PTL DEF Spec
<1> QED  BY <1>1, <1>2, PTL

-----------------------------------------------------------------------------
(* Framing: where the handler is in the stream.                             *)

\* The next cells are b bytes of the request in hand, then the next head.
InStep(b) == Follows(wire, Len(asked), owed, 0, current, b)

Blocks ==
  \A k \in 1..Len(wire) : wire[k] > 0 =>
    Follows(wire, Len(asked), owed, k, wire[k], BodyLength(asked[wire[k]]))

StreamInv ==
  /\ owed > 0 => Len(asked) > 0
  /\ Blocks
  /\ pc \in {"backlog", "request"} => InStep(0)
  /\ pc = "headers" => got = 0 /\ InStep(BodyLength(req))
  /\ pc = "body" => /\ IsWrite(req) /\ req.te # "chunked" /\ got < req.length
                    /\ InStep(req.length - got)
  /\ pc \in {"dispatch", "queued", "busy", "respond"} => close_connection \/ InStep(0)
  /\ pc = "error" => close_connection \/ IsWrite(req) \/ InStep(0)

LEMMA BodyLengthType == \A r \in Request : BodyLength(r) \in Nat
BY DEF BodyLength, Request

LEMMA InitStream == Init => StreamInv
BY DEF Init, HttpInit, StreamInv, Blocks, InStep, Follows

\* What a client adds to the stream leaves the places in it as they are.
LEMMA ClientKeepsStream ==
  ASSUME TypeInv, StreamInv, ClientSendsHead \/ ClientSendsByte
  PROVE  StreamInv'
<1>0. /\ asked \in Seq(Request) /\ wire \in Seq(Int) /\ owed \in Nat /\ current \in Nat
      /\ Len(asked) \in Nat /\ Len(wire) \in Nat /\ current <= Len(asked)
      /\ got \in Nat
  BY DEF TypeInv, TypeOK, HttpTypeOK, Bounds
<1>1. PICK cell \in Int :
        /\ wire' = Append(wire, cell) /\ asked' \in Seq(Request)
        /\ cell > 0 => /\ cell = Len(asked')
                       /\ owed' = BodyLength(asked'[cell])
        /\ owed' > 0 => Len(asked') > 0
        /\ \A i \in 1..Len(asked) : asked'[i] = asked[i]
        /\ \A k \in 0..Len(wire), i \in Nat, b \in Nat :
             Follows(wire, Len(asked), owed, k, i, b)
               => Follows(wire', Len(asked'), owed', k, i, b)
        /\ UNCHANGED <<config, handler>>
  <2>1. CASE ClientSendsHead
    <3>1. PICK r \in Menu[Len(asked) + 1] : asked' = Append(asked, r) /\ owed' = BodyLength(r)
      BY <2>1 DEF ClientSendsHead
    <3>2. r \in Request
      BY <2>1, <3>1, <1>0, RequestsAssumption DEF ClientSendsHead
    <3>3. /\ asked' \in Seq(Request) /\ Len(asked') = Len(asked) + 1
          /\ asked'[Len(asked')] = r /\ \A i \in 1..Len(asked) : asked'[i] = asked[i]
      BY <1>0, <3>1, <3>2
    <3>4. owed' \in Nat /\ owed = 0 /\ wire' = Append(wire, Len(asked) + 1)
      BY <2>1, <3>1, <3>2, <3>3, BodyLengthType DEF ClientSendsHead
    <3>5. \A k \in 0..Len(wire), i \in Nat, b \in Nat :
            Follows(wire, Len(asked), owed, k, i, b)
              => Follows(wire', Len(asked'), owed', k, i, b)
      <4> SUFFICES ASSUME NEW k \in 0..Len(wire), NEW i \in Nat, NEW b \in Nat,
                          Follows(wire, Len(asked), 0, k, i, b)
                   PROVE  Follows(Append(wire, Len(asked) + 1), Len(asked) + 1, owed', k, i, b)
        BY <3>3, <3>4
      <4> QED  BY <1>0, <3>4, FollowsHead, SMTT(30), Zenon
    <3>6. Len(asked) + 1 \in Int /\ Len(asked') > 0 /\ UNCHANGED <<config, handler>>
      BY <1>0, <2>1, <3>3 DEF ClientSendsHead
    <3>7. Len(asked) + 1 = Len(asked') /\ owed' = BodyLength(asked'[Len(asked) + 1])
      BY <3>1, <3>3
    <3> WITNESS Len(asked) + 1 \in Int
    <3> QED  BY <3>3, <3>4, <3>5, <3>6, <3>7, Zenon
  <2>2. CASE ClientSendsByte
    <3>1. /\ owed > 0 /\ owed' = owed - 1 /\ wire' = Append(wire, -Len(asked))
          /\ UNCHANGED <<asked, config, handler>>
      BY <2>2 DEF ClientSendsByte
    <3>2. \A k \in 0..Len(wire), i \in Nat, b \in Nat :
            Follows(wire, Len(asked), owed, k, i, b)
              => Follows(wire', Len(asked'), owed', k, i, b)
      <4> SUFFICES ASSUME NEW k \in 0..Len(wire), NEW i \in Nat, NEW b \in Nat,
                          Follows(wire, Len(asked), owed, k, i, b)
                   PROVE  Follows(Append(wire, -Len(asked)), Len(asked), owed - 1, k, i, b)
        BY <3>1
      <4> DEFINE n == Len(asked)
      <4>1. /\ owed > 0 /\ k \in Nat /\ k <= Len(wire) /\ n \in Nat
            /\ Follows(wire, n, owed, k, i, b)
        BY <1>0, <3>1
      <4> HIDE DEF n
      <4>2. Follows(Append(wire, -n), n, owed - 1, k, i, b)
        BY <1>0, <4>1, FollowsByte
      <4> QED  BY <4>2 DEF n
    <3> QED  BY <1>0, <3>1, <3>2 DEF StreamInv
  <2> QED  BY <2>1, <2>2, Zenon
<1>2. /\ Len(wire') = Len(wire) + 1 /\ wire'[Len(wire) + 1] = cell
      /\ \A k \in 1..Len(wire) : wire'[k] = wire[k]
  BY <1>0, <1>1
<1>3. Blocks'
  <2> SUFFICES ASSUME NEW k \in 1..Len(wire'), wire'[k] > 0
               PROVE  Follows(wire', Len(asked'), owed', k, wire'[k],
                              BodyLength(asked'[wire'[k]]))
    BY DEF Blocks
  <2>1. CASE k \in 1..Len(wire)
    <3>1. wire[k] \in 1..Len(asked) /\ wire'[k] = wire[k]
      BY <1>0, <1>2, <2>1 DEF TypeInv, Bounds
    <3>2. asked'[wire[k]] = asked[wire[k]] /\ BodyLength(asked[wire[k]]) \in Nat
      BY <1>0, <1>1, <3>1, BodyLengthType, SMTT(30)
    <3>3. Follows(wire, Len(asked), owed, k, wire[k], BodyLength(asked[wire[k]]))
      BY <2>1, <3>1 DEF StreamInv, Blocks
    <3> QED  BY <1>0, <1>1, <2>1, <3>1, <3>2, <3>3
  <2>2. CASE k = Len(wire) + 1
    <3>1. cell > 0 /\ k = Len(wire') /\ wire'[k] = Len(asked')
      BY <1>0, <1>1, <1>2, <2>2
    <3>2. owed' = BodyLength(asked'[wire'[k]]) /\ owed' \in Nat /\ Len(asked') \in Nat
      BY <1>1, <3>1, BodyLengthType
    <3> QED  BY <1>0, <1>2, <2>2, <3>1, <3>2 DEF Follows
  <2> QED  BY <1>0, <1>2, <2>1, <2>2
<1>4. \A b \in Nat : InStep(b) => InStep(b)'
  BY <1>0, <1>1 DEF InStep, handler
<1>5. pc \notin Idle => req' = req /\ req \in Request
  BY <1>0, <1>1, ReqType DEF req, handler, TypeInv, TypeOK, Bounds
<1>6. pc = "headers" => BodyLength(req) \in Nat
  BY <1>5, BodyLengthType DEF Idle
<1>7. pc = "body" => req.length - got \in Nat
  BY <1>0, <1>5 DEF Idle, StreamInv, Request
<1> QED  BY <1>1, <1>3, <1>4, <1>5, <1>6, <1>7 DEF StreamInv, handler, Idle, IsWrite

LEMMA ReadingKeepsBlocks ==
  ASSUME TypeInv, Blocks, wire # <<>>, wire' = Tail(wire), UNCHANGED <<asked, owed>>
  PROVE  Blocks'
<1>0. /\ asked \in Seq(Request) /\ wire \in Seq(Int) /\ owed \in Nat
      /\ Len(asked) \in Nat /\ Len(wire) \in Nat
  BY DEF TypeInv, TypeOK, HttpTypeOK
<1> SUFFICES ASSUME NEW k \in 1..Len(wire'), wire'[k] > 0
             PROVE  Follows(Tail(wire), Len(asked), owed, k, wire'[k],
                            BodyLength(asked[wire'[k]]))
  BY DEF Blocks
<1> DEFINE m == k + 1
           i == wire[m]
           b == BodyLength(asked[i])
<1>1. m \in Nat /\ 0 < m /\ m <= Len(wire) /\ wire'[k] = i /\ m - 1 = k
  BY <1>0
<1>2. i \in 1..Len(asked)
  BY <1>0, <1>1 DEF TypeInv, Bounds
<1>3. b \in Nat
  BY <1>0, <1>2, BodyLengthType
<1>4. Follows(wire, Len(asked), owed, m, i, b)
  BY <1>1, <1>2 DEF Blocks
<1> HIDE DEF m, i, b
<1>5. i \in Nat
  BY <1>0, <1>2
<1>6. Follows(Tail(wire), Len(asked), owed, m - 1, i, b)
  BY <1>0, <1>1, <1>3, <1>4, <1>5, FollowsTail, Zenon
<1> QED  BY <1>1, <1>6 DEF b

\* What is read as a request is the head of the next one.
LEMMA NextHead ==
  ASSUME TypeInv, StreamInv, pc = "request", wire # <<>>
  PROVE  Head(wire) = current + 1 /\ Head(wire) \in 1..Len(asked)
<1>0. /\ wire \in Seq(Int) /\ owed \in Nat /\ current \in Nat /\ Len(asked) \in Nat
      /\ Head(wire) = wire[1] /\ 1 \in 1..Len(wire)
  BY DEF TypeInv, TypeOK, HttpTypeOK
<1>1. wire[1] = current + 1
  BY <1>0, FollowsNext DEF StreamInv, InStep
<1> QED  BY <1>0, <1>1 DEF TypeInv, Bounds

\* What is read as a body is a byte of the request in hand.
LEMMA NextByte ==
  ASSUME TypeInv, StreamInv, pc = "body", wire # <<>>
  PROVE  /\ Head(wire) = -current
         /\ Follows(Tail(wire), Len(asked), owed, 0, current, req.length - got - 1)
<1>0. /\ wire \in Seq(Int) /\ owed \in Nat /\ current \in Nat /\ Len(asked) \in Nat
      /\ Head(wire) = wire[1] /\ got \in Nat
  BY DEF TypeInv, TypeOK, HttpTypeOK
<1>1. req.length \in Int
  BY ReqType DEF TypeInv, TypeOK, Idle, Request
<1> DEFINE b == req.length - got
<1>2. b \in Nat /\ b > 0
  BY <1>0, <1>1 DEF StreamInv
<1>3. Follows(wire, Len(asked), owed, 0, current, b)
  BY DEF StreamInv, InStep
<1> HIDE DEF b
<1>4. wire[1] = -current /\ Follows(Tail(wire), Len(asked), owed, 0, current, b - 1)
  BY <1>0, <1>2, <1>3, FollowsRead
<1> QED  BY <1>0, <1>4 DEF b

LEMMA ReadingKeepsStream ==
  ASSUME TypeInv, StreamInv, ReadRequest \/ ReadByte
  PROVE  StreamInv'
<1>0. /\ asked \in Seq(Request) /\ wire \in Seq(Int) /\ owed \in Nat /\ current \in Nat
      /\ Len(asked) \in Nat /\ got \in Nat
  BY DEF TypeInv, TypeOK, HttpTypeOK
<1>1. /\ wire # <<>> /\ wire' = Tail(wire) /\ UNCHANGED <<asked, owed>>
  BY DEF ReadRequest, ReadByte, client
<1>2. Blocks' /\ (owed' > 0 => Len(asked') > 0)
  BY <1>1, ReadingKeepsBlocks DEF StreamInv
<1>3. CASE ReadRequest
  <2>1. /\ pc = "request" /\ current' = Head(wire) /\ got' = 0 /\ req' = asked[Head(wire)]
        /\ \/ pc' = "error" /\ req'.method = "PUT"
           \/ pc' = "headers"
    BY <1>1, <1>3 DEF ReadRequest, req
  <2>2. Head(wire) \in 1..Len(asked) /\ Head(wire) = wire[1] /\ 1 \in 1..Len(wire)
    BY <1>0, <1>1, <2>1, NextHead
  <2>3. Follows(wire, Len(asked), owed, 1, wire[1], BodyLength(asked[wire[1]]))
    BY <2>2 DEF StreamInv, Blocks
  <2>4. BodyLength(asked[wire[1]]) \in Nat
    BY <1>0, <2>2, BodyLengthType
  <2>5. Follows(Tail(wire), Len(asked), owed, 1 - 1, wire[1], BodyLength(asked[wire[1]]))
    BY <1>0, <1>1, <2>2, <2>3, <2>4, FollowsTail
  <2>6. InStep(BodyLength(req))'
    BY <1>1, <2>1, <2>2, <2>5, SMTT(30) DEF InStep
  <2> QED  BY <1>2, <2>1, <2>6 DEF StreamInv, IsWrite
<1>4. CASE ReadByte
  <2>1. /\ pc = "body" /\ got' = got + 1 /\ UNCHANGED <<current, req>>
        /\ pc' = "body" \/ pc' = "dispatch" \/ pc' = "error"
        /\ pc' = "body" => got' < req.length
        /\ pc' = "dispatch" => got' = req.length
    BY <1>4 DEF ReadByte, client, req
  <2>2. req.length \in Int
    BY <2>1, ReqType DEF TypeInv, TypeOK, Idle, Request
  <2>3. Follows(Tail(wire), Len(asked), owed, 0, current, req.length - got - 1)
    BY <1>1, <2>1, NextByte
  <2>4. req.length - got - 1 = req.length - got' /\ (pc' = "dispatch" => req.length - got' = 0)
    BY <1>0, <2>1, <2>2
  <2>5. InStep(req.length - got)' /\ (pc' = "dispatch" => InStep(0)')
    BY <1>1, <2>1, <2>3, <2>4 DEF InStep
  <2> QED  BY <1>2, <2>1, <2>5 DEF StreamInv, IsWrite
<1> QED  BY <1>3, <1>4

\* Steps that do not read: a body is left unread only where the connection
\* will be closed.
LEMMA HandlerKeepsStream ==
  ASSUME TypeInv, StreamInv,
         \/ NoMoreRequests \/ CheckHeaders \/ BodyEnds \/ BodyTimesOut \/ Dispatch
         \/ LeaveQueue \/ Answer \/ SendResponse \/ ResponseBreaks
         \/ SendError \/ ErrorBreaks
  PROVE  StreamInv'
<1>1. UNCHANGED <<wire, asked, owed, current, got, config, req>>
  BY Zenon DEF NoMoreRequests, CheckHeaders, BodyEnds, BodyTimesOut, BodyStops, BodyResets, Dispatch,
         LeaveQueue, Answer, SendResponse, ResponseBreaks, SendError, ErrorBreaks,
         client, req
<1>2. /\ \A b : InStep(b)' <=> InStep(b)
      /\ Blocks' /\ (owed' > 0 => Len(asked') > 0)
      /\ IsWrite(req)' <=> IsWrite(req)
  BY <1>1, Zenon DEF InStep, Blocks, StreamInv, IsWrite
<1>3. CASE CheckHeaders
  <2>1. req \in Request /\ pc = "headers" /\ InStep(BodyLength(req)) /\ got = 0
    BY <1>3, ReqType DEF CheckHeaders, TypeInv, TypeOK, Idle, StreamInv
  <2>2. CASE IsWrite(req) /\ WriteFailure(req) = "none"
    <3>1. req.te # "chunked" /\ (req.length > 0 => BodyLength(req) = req.length - got)
          /\ (~(req.length > 0) => BodyLength(req) = 0)
      BY <2>1, <2>2, WritePasses DEF BodyLength, Request
    <3>2. pc' = IF req.length > 0 THEN "body" ELSE "dispatch"
      BY <1>3, <2>2 DEF CheckHeaders
    <3> QED  BY <1>1, <1>2, <2>1, <2>2, <3>1, <3>2 DEF StreamInv, Request
  <2>3. CASE IsWrite(req) /\ WriteFailure(req) # "none"
    BY <1>1, <1>2, <1>3, <2>3 DEF CheckHeaders, StreamInv
  <2>4. CASE ~IsWrite(req)
    <3>1. pc' \in {"error", "dispatch"} /\ (GetClosesUnread(req) => close_connection')
      BY <1>3, <2>4, Zenon DEF CheckHeaders
    <3>2. ~GetClosesUnread(req) => BodyLength(req) = 0
      BY DEF GetClosesUnread, BodyLength
    <3> QED  BY <1>2, <2>1, <3>1, <3>2 DEF StreamInv
  <2> QED  BY <2>2, <2>3, <2>4
<1>4. CASE NoMoreRequests \/ ResponseBreaks \/ ErrorBreaks
  BY <1>2, <1>4, Zenon DEF NoMoreRequests, ResponseBreaks, ErrorBreaks, NextOrClose, StreamInv
<1>5. CASE BodyEnds \/ BodyTimesOut
  BY <1>2, <1>5 DEF BodyEnds, BodyTimesOut, BodyStops, BodyResets, StreamInv
<1>6. CASE Dispatch \/ LeaveQueue \/ Answer
  BY <1>2, <1>6, Zenon DEF Dispatch, LeaveQueue, Answer, StreamInv
<1>7. CASE SendResponse \/ SendError
  BY <1>2, <1>7, Zenon DEF SendResponse, SendError, NextOrClose, CloseWriteConnection, StreamInv
<1> QED  BY <1>3, <1>4, <1>5, <1>6, <1>7

\* The process leaves a connection as it is, but accepts it and drops it.
LEMMA ProcessFrame ==
  ASSUME MainStep \/ Accept \/ ServeFails \/ Interrupt \/ OtherStep \/ UNCHANGED vars
  PROVE  /\ UNCHANGED <<config, asked, owed, wire, current, got, exc, close_connection,
                        replies, calls>>
         /\ pc' = pc \/ pc' = "closed" \/ (pc = "backlog" /\ pc' = "request")
BY Zenon DEF MainStep, OpenTokenFile, WriteToken, MoveOn, BeforeClose, CloseCoordinator,
       CloseDatastore, RemoveToken, ProcessEnds, Accept, ServeFails, Interrupt, OtherStep,
       vars, httpVars, client, handler

LEMMA NextStream == TypeInv /\ StreamInv /\ [Next]_vars => StreamInv'
<1> SUFFICES ASSUME TypeInv, StreamInv, [Next]_vars PROVE StreamInv'
  OBVIOUS
<1>1. CASE MainStep \/ Accept \/ ServeFails \/ Interrupt \/ OtherStep \/ UNCHANGED vars
  BY <1>1, ProcessFrame, Zenon DEF StreamInv, Blocks, InStep, IsWrite, req
<1>2. CASE ClientLeaves
  BY <1>2, Zenon DEF ClientLeaves, StreamInv, Blocks, InStep, IsWrite, req, handler
<1> QED  BY <1>1, <1>2, ClientKeepsStream, ReadingKeepsStream, HandlerKeepsStream
         DEF Next, Http, ClientStep, HandlerStep

-----------------------------------------------------------------------------
(* Responses.                                                               *)

ReplyInv ==
  /\ \A i \in 1..Len(replies) : replies[i].request = i
  /\ \A i \in 1..Len(replies) :
       replies[i].close \/ ~replies[i].whole => i = Len(replies) /\ pc = "closed"
  /\ Len(replies) <= current
  /\ pc \in {"backlog", "request"} => Len(replies) = current
  /\ pc \notin Idle => Len(replies) + 1 = current

LEMMA InitReply == Init => ReplyInv
BY DEF Init, HttpInit, ReplyInv, Idle

\* Every way to send: a response that is cut off or announces the end of the
\* connection ends it.
LEMMA Sends ==
  ASSUME TypeInv, pc \in {"respond", "error"},
         SendResponse \/ ResponseBreaks \/ SendError \/ ErrorBreaks
  PROVE  /\ UNCHANGED <<config, asked, current, got, exc, calls>>
         /\ \E close \in BOOLEAN, whole \in BOOLEAN :
              /\ replies' = Append(replies, Reply(close, whole))
              /\ close \/ ~whole => pc' = "closed"
              /\ pc' \in {"request", "closed"}
<1>0. close_connection \in BOOLEAN /\ CloseWriteConnection \in BOOLEAN
  BY DEF TypeInv, TypeOK, HttpTypeOK, CloseWriteConnection
<1>1. CASE SendResponse
  BY <1>0, <1>1, Zenon DEF SendResponse, NextOrClose, client
<1>2. CASE ResponseBreaks
  BY <1>0, <1>2, Zenon DEF ResponseBreaks, NextOrClose, client
<1>3. CASE SendError
  BY <1>0, <1>3, Zenon DEF SendError, NextOrClose, client
<1>4. CASE ErrorBreaks
  BY <1>0, <1>4, ZenonT(30) DEF ErrorBreaks, NextOrClose, client
<1> QED  BY <1>1, <1>2, <1>3, <1>4

LEMMA SendingKeepsReplies ==
  ASSUME TypeInv, ReplyInv, pc \in {"respond", "error"},
         SendResponse \/ ResponseBreaks \/ SendError \/ ErrorBreaks
  PROVE  ReplyInv'
<1>0. /\ replies \in Seq([request : Nat, status : Nat, close : BOOLEAN, whole : BOOLEAN])
      /\ current \in Nat /\ Len(replies) \in Nat /\ HttpTypeOK
  BY DEF TypeInv, TypeOK, HttpTypeOK
<1>1. PICK close \in BOOLEAN, whole \in BOOLEAN :
        /\ replies' = Append(replies, Reply(close, whole))
        /\ close \/ ~whole => pc' = "closed"
        /\ pc' \in {"request", "closed"} /\ UNCHANGED current
  BY Sends
<1>2. /\ Len(replies') = Len(replies) + 1 /\ replies'[Len(replies) + 1] = Reply(close, whole)
      /\ \A i \in 1..Len(replies) : replies'[i] = replies[i]
  BY <1>0, <1>1, ReplyType
<1>3. /\ Reply(close, whole).request = current /\ Reply(close, whole).close = close
      /\ Reply(close, whole).whole = whole
  BY DEF Reply
<1>4. /\ Len(replies) + 1 = current
      /\ \A i \in 1..Len(replies) : ~replies[i].close /\ replies[i].whole
  BY DEF ReplyInv, Idle
<1>5. \A i \in 1..Len(replies') : replies'[i].request = i
  BY <1>0, <1>2, <1>3, <1>4, SMTT(30) DEF ReplyInv
<1>6. \A i \in 1..Len(replies') :
        replies'[i].close \/ ~replies'[i].whole => i = Len(replies') /\ pc' = "closed"
  BY <1>0, <1>1, <1>2, <1>3, <1>4
<1>7. Len(replies') = current'
  BY <1>1, <1>2, <1>4
<1>8. Len(replies') <= current'
  BY <1>0, <1>1, <1>7
<1>9. pc' \in Idle
  BY <1>1 DEF Idle
<1> QED  BY <1>5, <1>6, <1>7, <1>8, <1>9, Zenon DEF ReplyInv

LEMMA NextReply == TypeInv /\ StreamInv /\ ReplyInv /\ [Next]_vars => ReplyInv'
<1> SUFFICES ASSUME TypeInv, StreamInv, ReplyInv, [Next]_vars PROVE ReplyInv'
  OBVIOUS
<1>1. ASSUME UNCHANGED <<replies, current>>,
             \/ pc' = pc \/ pc' = "closed" \/ (pc = "backlog" /\ pc' = "request")
             \/ pc \notin Idle /\ pc' \notin Idle
      PROVE  ReplyInv'
  BY <1>1 DEF ReplyInv, Idle
<1>2. CASE MainStep \/ Accept \/ ServeFails \/ Interrupt \/ OtherStep \/ UNCHANGED vars
  <2>1. UNCHANGED <<replies, current>>
    BY <1>2, ProcessFrame
  <2>2. pc' = pc \/ pc' = "closed" \/ (pc = "backlog" /\ pc' = "request")
    BY <1>2, ProcessFrame
  <2> QED  BY <1>1, <2>1, <2>2
<1>3. CASE ClientStep
  <2>1. UNCHANGED <<replies, current, pc>>
    BY <1>3 DEF ClientStep, ClientSendsHead, ClientSendsByte, ClientLeaves, handler
  <2> QED  BY <1>1, <2>1
<1>4. CASE ReadRequest
  <2>1. current' = current + 1 /\ UNCHANGED replies /\ pc = "request" /\ pc' \notin Idle
    BY <1>4, NextHead DEF ReadRequest, Idle
  <2> QED  BY <2>1 DEF ReplyInv, Idle, TypeInv, TypeOK, HttpTypeOK
<1>5. CASE \/ NoMoreRequests \/ CheckHeaders \/ ReadByte \/ BodyEnds \/ BodyTimesOut
           \/ Dispatch \/ LeaveQueue \/ Answer
  <2>1. UNCHANGED <<replies, current>>
    BY <1>5, Zenon DEF NoMoreRequests, CheckHeaders, ReadByte, BodyEnds, BodyTimesOut,
                BodyStops, BodyResets, Dispatch, LeaveQueue, Answer
  <2>2. pc' = pc \/ pc' = "closed" \/ (pc \notin Idle /\ pc' \notin Idle)
    BY <1>5, Zenon DEF NoMoreRequests, CheckHeaders, ReadByte, BodyEnds, BodyTimesOut,
                BodyStops, BodyResets, Dispatch, LeaveQueue, Answer, Idle
  <2> QED  BY <1>1, <2>1, <2>2
<1>6. CASE SendResponse \/ ResponseBreaks \/ SendError \/ ErrorBreaks
  BY <1>6, SendingKeepsReplies, Zenon DEF SendResponse, ResponseBreaks, SendError, ErrorBreaks
<1> QED  BY <1>2, <1>3, <1>4, <1>5, <1>6 DEF Next, Http, HandlerStep

-----------------------------------------------------------------------------
(* Calls of run_get and run_post, and the statuses.                         *)

Handed(i) == \E c \in calls : c[1] = i

Refusals == {"BadRequest", "Forbidden", "BodyTimeout", "TooLarge", "Invalid"}

CallInv ==
  /\ \A c \in calls : /\ c[1] \in 1..current
                      /\ pc \in {"headers", "body", "dispatch"} => c[1] < current
  /\ pc = "body" => req.length <= MaxBody
  /\ pc = "dispatch" /\ IsWrite(req) /\ req.length > 0 =>
       got = req.length /\ req.length <= MaxBody /\ req.body # "text"
  /\ pc \in {"queued", "busy"} => Handed(current)
  /\ WritesAreAdmitted

StatusInv ==
  /\ pc = "respond" /\ IsWrite(req) => exc = "ok" /\ Handed(current)
  /\ pc = "error" => exc \notin {"ok", "notModified"}
  /\ pc = "error" /\ IsWrite(req) =>
       /\ exc \in Refusals => ~Handed(current)
       /\ exc \in {"Unavailable", "NoResponse"} => Handed(current)
  /\ WriteStatusIsTrue

LEMMA InitCall == Init => CallInv /\ StatusInv
BY DEF Init, HttpInit, CallInv, StatusInv, WritesAreAdmitted, WriteStatusIsTrue

LEMMA StatusClasses ==
  ASSUME HttpTypeOK
  PROVE  /\ Status(exc) \in 400..499 => exc \in Refusals
         /\ Status(exc) \in {200, 503, 504} => exc \in {"ok", "Unavailable", "NoResponse"}
BY DEF Status, HttpTypeOK, Refusals

\* What WriteStatusIsTrue says of one reply to a request, with the calls made.
StatusTrue(reply, r, made) ==
  IsWrite(r) =>
    /\ reply.status \in 400..499 => ~\E c \in made : c[1] = reply.request
    /\ reply.status \in {200, 503, 504} => \E c \in made : c[1] = reply.request

LEMMA StatusesTrue ==
  /\ WriteStatusIsTrue <=>
       \A i \in DOMAIN replies : StatusTrue(replies[i], asked[replies[i].request], calls)
  /\ WriteStatusIsTrue' <=>
       \A i \in DOMAIN replies' : StatusTrue(replies'[i], asked'[replies'[i].request], calls')
<1>1. WriteStatusIsTrue <=>
        \A i \in DOMAIN replies : StatusTrue(replies[i], asked[replies[i].request], calls)
  BY DEF WriteStatusIsTrue, StatusTrue
<1>2. WriteStatusIsTrue' <=>
        \A i \in DOMAIN replies' : StatusTrue(replies'[i], asked'[replies'[i].request], calls')
  BY DEF WriteStatusIsTrue, StatusTrue, IsWrite
<1> QED  BY <1>1, <1>2

\* What is on record stays true while nothing is added to it.
LEMMA RecordsKept ==
  ASSUME WritesAreAdmitted, WriteStatusIsTrue,
         UNCHANGED <<config, asked, replies, calls>>
  PROVE  WritesAreAdmitted' /\ WriteStatusIsTrue' /\ \A i : Handed(i)' <=> Handed(i)
<1>1. WritesAreAdmitted'
  BY Zenon DEF WritesAreAdmitted, IsWrite, Admitted, AdmissionFailure
<1>2. WriteStatusIsTrue'
  BY StatusesTrue
<1>3. \A i : Handed(i)' <=> Handed(i)
  BY DEF Handed
<1> QED  BY <1>1, <1>2, <1>3

\* Steps that hand nothing over: the client may go on sending, the handler
\* may stop.
LEMMA CallFrame ==
  ASSUME TypeInv, ReplyInv, CallInv, StatusInv,
         UNCHANGED <<config, current, got, exc, replies, calls>>,
         \A i \in 1..Len(asked) : asked'[i] = asked[i],
         pc' = pc \/ pc' \in Idle
  PROVE  CallInv' /\ StatusInv'
<1>0. /\ current \in Nat /\ Len(asked) \in Nat /\ current <= Len(asked)
      /\ Len(replies) \in Nat /\ Len(replies) <= current /\ DOMAIN replies = 1..Len(replies)
  BY DEF TypeInv, TypeOK, HttpTypeOK, Bounds, ReplyInv
<1>1. \A c \in calls : asked'[c[1]] = asked[c[1]]
  BY <1>0 DEF CallInv
<1>2. \A i \in DOMAIN replies : asked'[replies[i].request] = asked[replies[i].request]
  <2>1. \A i \in DOMAIN replies : replies[i].request = i
    BY <1>0, Zenon DEF ReplyInv
  <2>2. \A i \in DOMAIN replies : i \in 1..Len(asked)
    BY <1>0
  <2> QED  BY <2>1, <2>2
<1>3. WritesAreAdmitted'
  <2>1. WritesAreAdmitted /\ config' = config /\ calls' = calls
    BY DEF CallInv
  <2>2. \A c \in calls : Admitted(asked[c[1]])' <=> Admitted(asked[c[1]])
    BY <1>1, <2>1 DEF Admitted, AdmissionFailure
  <2> QED  BY <1>1, <2>1, <2>2, Zenon DEF WritesAreAdmitted, IsWrite
<1>4. WriteStatusIsTrue'
  <2>1. WriteStatusIsTrue /\ replies' = replies /\ calls' = calls
    BY DEF StatusInv
  <2> QED  BY <1>2, <2>1, StatusesTrue
<1>5. pc' \notin Idle => pc' = pc /\ req' = req
  BY <1>0 DEF TypeInv, Bounds, req
<1>6. CallInv'
  BY <1>3, <1>5 DEF CallInv, Handed, Idle, IsWrite
<1>7. StatusInv'
  BY <1>4, <1>5 DEF StatusInv, Handed, Idle, IsWrite
<1> QED  BY <1>6, <1>7

\* Steps of the handler before it sends.
LEMMA HandlerKeepsCalls ==
  ASSUME TypeInv, StreamInv, ReplyInv, CallInv, StatusInv,
         \/ CheckHeaders \/ ReadByte \/ BodyEnds \/ BodyTimesOut
         \/ LeaveQueue \/ Answer
  PROVE  CallInv' /\ StatusInv'
<1>0. /\ current \in Nat /\ got \in Nat /\ req \in Request
      /\ UNCHANGED <<config, asked, current, replies, calls, req>>
  BY ReqType, Zenon
  DEF TypeInv, TypeOK, HttpTypeOK, Idle, CheckHeaders, ReadByte, BodyEnds, BodyTimesOut,
      BodyStops, BodyResets, LeaveQueue, Answer, client, req
<1>1. /\ WritesAreAdmitted' /\ WriteStatusIsTrue' /\ (IsWrite(req)' <=> IsWrite(req))
      /\ \A i : Handed(i)' <=> Handed(i)
  BY <1>0, RecordsKept DEF CallInv, StatusInv, IsWrite
<1>2. pc \in {"headers", "body"} => ~Handed(current)
  BY <1>0 DEF CallInv, Handed
<1>3. CASE CheckHeaders
  <2>1. pc = "headers" /\ UNCHANGED got /\ got = 0
    BY <1>3 DEF CheckHeaders, StreamInv
  <2>2. IsWrite(req) => /\ exc' = WriteFailure(req)
                        /\ exc' = "none" => req.length <= MaxBody
                        /\ pc' = IF exc' # "none" THEN "error"
                                 ELSE IF req.length > 0 THEN "body" ELSE "dispatch"
    BY <1>0, <1>3, WritePasses DEF CheckHeaders
  <2>3. ~IsWrite(req) => pc' \in {"error", "dispatch"}
    BY <1>3 DEF CheckHeaders
  <2>4. exc' \in Refusals \cup {"none", "Other"}
    BY <1>0, <1>3, FailureTypes, Zenon DEF CheckHeaders, Refusals
  <2>5. CallInv'
    BY <1>0, <1>1, <2>1, <2>2, <2>3 DEF CallInv
  <2>6. StatusInv'
    BY <1>0, <1>1, <1>2, <2>1, <2>2, <2>3, <2>4 DEF StatusInv, Refusals
  <2> QED  BY <2>5, <2>6
<1>4. CASE ReadByte
  <2>1. /\ pc = "body" /\ pc' \in {"body", "dispatch", "error"}
        /\ pc' = "dispatch" => got' = req.length /\ req.body # "text"
        /\ pc' = "error" => exc' = "BadRequest"
    BY <1>4 DEF ReadByte
  <2>2. CallInv'
    BY <1>0, <1>1, <2>1 DEF CallInv
  <2>3. StatusInv'
    BY <1>0, <1>1, <1>2, <2>1 DEF StatusInv, Refusals
  <2> QED  BY <2>2, <2>3
<1>5. CASE BodyEnds \/ BodyTimesOut
  <2>1. pc = "body" /\ pc' = "error" /\ exc' \in {"BadRequest", "BodyTimeout", "Other"}
    BY <1>5 DEF BodyEnds, BodyTimesOut, BodyStops, BodyResets
  <2>2. CallInv'
    BY <1>0, <1>1, <2>1 DEF CallInv
  <2>3. StatusInv'
    BY <1>0, <1>1, <1>2, <2>1 DEF StatusInv, Refusals
  <2> QED  BY <2>2, <2>3
<1>6. CASE LeaveQueue \/ Answer
  <2>1. /\ pc \in {"queued", "busy"} /\ pc' \in {"busy", "respond", "error"}
        /\ pc' = "respond" /\ IsWrite(req) => exc' = "ok"
        /\ pc' = "error" => exc' \notin {"ok", "notModified"}
        /\ pc' = "error" /\ IsWrite(req) => exc' \notin Refusals
    BY <1>6 DEF LeaveQueue, Answer, Results, BackendErrors, Refusals
  <2>2. CallInv'
    BY <1>0, <1>1, <2>1 DEF CallInv
  <2>3. StatusInv'
    BY <1>0, <1>1, <2>1 DEF StatusInv, CallInv
  <2> QED  BY <2>2, <2>3
<1> QED  BY <1>3, <1>4, <1>5, <1>6

LEMMA DispatchKeepsCalls ==
  ASSUME TypeInv, ReplyInv, CallInv, StatusInv, Dispatch
  PROVE  CallInv' /\ StatusInv'
<1>0. /\ current \in Nat /\ got \in Nat /\ req \in Request /\ pc = "dispatch"
      /\ Len(replies) + 1 = current /\ DOMAIN replies = 1..Len(replies)
      /\ Len(replies) \in Nat /\ req = asked[current] /\ current > 0
      /\ UNCHANGED <<config, asked, current, got, replies, req>>
  <2>1. pc = "dispatch" /\ UNCHANGED <<config, asked, current, got, replies, req>>
    BY DEF Dispatch, client, req
  <2>2. /\ current \in Nat /\ got \in Nat /\ Len(replies) \in Nat
        /\ DOMAIN replies = 1..Len(replies)
    BY DEF TypeInv, TypeOK, HttpTypeOK
  <2>3. req \in Request
    BY <2>1, ReqType DEF TypeInv, TypeOK, Idle
  <2>4. Len(replies) + 1 = current
    BY <2>1 DEF ReplyInv, Idle
  <2> QED  BY <2>1, <2>2, <2>3, <2>4 DEF req
<1>1. (IsWrite(req)' <=> IsWrite(req)) /\ ~Handed(current)
  BY <1>0 DEF IsWrite, CallInv, Handed
<1>2. CASE calls' = calls /\ pc' \in {"respond", "error"}
  <2>1. /\ WritesAreAdmitted' /\ WriteStatusIsTrue' /\ \A i : Handed(i)' <=> Handed(i)
    BY <1>0, <1>2, RecordsKept DEF CallInv, StatusInv
  <2>2. CallInv'
    BY <1>0, <1>2, <2>1 DEF CallInv
  <2>3. /\ pc' = "respond" => ~IsWrite(req)
        /\ pc' = "error" => exc' = DispatchFailure(req)
    BY <1>2 DEF Dispatch
  <2>4. pc' = "error" => exc' \in Refusals \cup {"none", "Other"}
    BY <1>0, <2>3, FailureTypes DEF Refusals
  <2>5. StatusInv'
    BY <1>0, <1>1, <1>2, <2>1, <2>3, <2>4 DEF StatusInv, Refusals
  <2> QED  BY <2>2, <2>5
<1>3. CASE /\ calls' = calls \cup {<<current, got>>} /\ pc' = "queued"
           /\ DispatchFailure(req) = "none"
  <2>1. IsWrite(req) =>
          /\ Admitted(req) /\ got = req.length /\ req.length \in 1..MaxBody
          /\ req.body \in {"object", "unknown", "readonly"}
          /\ config.validate => req.body # "readonly"
          /\ config.validate /\ ~config.unknown => req.body # "unknown"
    <3> SUFFICES ASSUME IsWrite(req)
                 PROVE  /\ Admitted(req) /\ got = req.length /\ req.length \in 1..MaxBody
                        /\ req.body \in {"object", "unknown", "readonly"}
                        /\ config.validate => req.body # "readonly"
                        /\ config.validate /\ ~config.unknown => req.body # "unknown"
      OBVIOUS
    <3>1. /\ Admitted(req) /\ req.length > 0 /\ req.body \notin {"notJson", "long"}
          /\ config.validate => req.body # "readonly"
          /\ config.validate /\ ~config.unknown => req.body # "unknown"
      BY <1>0, <1>3, DispatchPasses
    <3>2. got = req.length /\ req.length <= MaxBody /\ req.body # "text"
      BY <1>0, <3>1 DEF CallInv
    <3>3. req.length \in Int /\ req.body \in Bodies
      BY <1>0 DEF Request
    <3> QED  BY <3>1, <3>2, <3>3 DEF Bodies
  <2>2. WritesAreAdmitted'
    <3> SUFFICES ASSUME NEW c \in calls', IsWrite(asked[c[1]])
                 PROVE  /\ Admitted(asked[c[1]]) /\ c[2] = asked[c[1]].length
                        /\ asked[c[1]].length \in 1..MaxBody
                        /\ asked[c[1]].body \in {"object", "unknown", "readonly"}
                        /\ config.validate => asked[c[1]].body # "readonly"
                        /\ config.validate /\ ~config.unknown
                             => asked[c[1]].body # "unknown"
      BY <1>0, Zenon DEF WritesAreAdmitted, IsWrite, Admitted, AdmissionFailure
    <3>1. CASE c \in calls
      BY <3>1, Zenon DEF CallInv, WritesAreAdmitted
    <3>2. CASE c = <<current, got>>
      <4>1. c[1] = current /\ c[2] = got /\ asked[c[1]] = req
        BY <1>0, <3>2
      <4> QED  BY <2>1, <4>1, Zenon
    <3> QED  BY <1>3, <3>1, <3>2, Zenon
  <2>3. \A i \in DOMAIN replies : replies[i].request # current
    <3>1. \A i \in DOMAIN replies : replies[i].request = i
      BY DEF ReplyInv
    <3>2. \A i \in DOMAIN replies : i # current
      BY <1>0
    <3> QED  BY <3>1, <3>2
  <2>4. WriteStatusIsTrue'
    <3>1. WriteStatusIsTrue /\ replies' = replies /\ asked' = asked
      BY <1>0 DEF StatusInv
    <3>2. calls' = calls \cup {<<current, got>>}
      BY <1>3
    <3>3. \A reply, r : StatusTrue(reply, r, calls) /\ reply.request # current
                         => StatusTrue(reply, r, calls')
      BY <3>2 DEF StatusTrue
    <3> QED  BY <2>3, <3>1, <3>3, StatusesTrue
  <2>5. Handed(current)'
    <3>1. <<current, got>> \in calls' /\ <<current, got>>[1] = current'
      BY <1>0, <1>3
    <3> QED  BY <3>1 DEF Handed
  <2>6. \A c \in calls' : c[1] \in 1..current
    <3>1. \A c \in calls : c[1] \in 1..current
      BY DEF CallInv
    <3>2. calls' = calls \cup {<<current, got>>} /\ current \in 1..current
      BY <1>0, <1>3
    <3> QED  BY <3>1, <3>2
  <2> QED  BY <1>0, <1>3, <2>2, <2>4, <2>5, <2>6, Zenon DEF CallInv, StatusInv
<1> QED  BY <1>2, <1>3 DEF Dispatch

LEMMA ReadingKeepsCalls ==
  ASSUME TypeInv, StreamInv, ReplyInv, CallInv, StatusInv, ReadRequest
  PROVE  CallInv' /\ StatusInv'
<1>0. /\ current \in Nat /\ current' = current + 1 /\ current' \in 1..Len(asked)
      /\ pc' \in {"headers", "error"} /\ (pc' = "error" => exc' = "Unsupported")
      /\ UNCHANGED <<config, asked, replies, calls>>
  BY NextHead, Zenon DEF ReadRequest, TypeInv, TypeOK, HttpTypeOK, client
<1>1. WritesAreAdmitted' /\ WriteStatusIsTrue'
  BY <1>0, RecordsKept DEF CallInv, StatusInv
<1>2. \A c \in calls : c[1] \in 1..current' /\ c[1] < current'
  BY <1>0 DEF CallInv
<1> QED  BY <1>0, <1>1, <1>2, Zenon DEF CallInv, StatusInv, Refusals

LEMMA SendingKeepsCalls ==
  ASSUME TypeInv, ReplyInv, CallInv, StatusInv, pc \in {"respond", "error"},
         SendResponse \/ ResponseBreaks \/ SendError \/ ErrorBreaks
  PROVE  CallInv' /\ StatusInv'
<1>0. /\ replies \in Seq([request : Nat, status : Nat, close : BOOLEAN, whole : BOOLEAN])
      /\ current \in Nat /\ Len(replies) \in Nat /\ HttpTypeOK
      /\ DOMAIN replies = 1..Len(replies)
  BY DEF TypeInv, TypeOK, HttpTypeOK
<1>1. PICK close \in BOOLEAN, whole \in BOOLEAN :
        /\ replies' = Append(replies, Reply(close, whole)) /\ pc' \in {"request", "closed"}
        /\ UNCHANGED <<config, asked, current, got, exc, calls>>
  BY Sends
<1>2. /\ DOMAIN replies' = 1..Len(replies) + 1
      /\ replies'[Len(replies) + 1] = Reply(close, whole)
      /\ \A i \in DOMAIN replies : replies'[i] = replies[i]
  <2>1. Reply(close, whole) \in [request : Nat, status : Nat, close : BOOLEAN, whole : BOOLEAN]
    BY <1>0, ReplyType
  <2> HIDE DEF Reply
  <2> QED  BY <1>0, <1>1, <2>1
<1>3. Reply(close, whole).request = current /\ Reply(close, whole).status = Status(exc)
  BY DEF Reply
<1>4. StatusTrue(Reply(close, whole), asked[current], calls)
  <2>1. IsWrite(asked[current]) =>
          /\ Status(exc) \in 400..499 => ~Handed(current)
          /\ Status(exc) \in {200, 503, 504} => Handed(current)
    BY <1>0, StatusClasses DEF StatusInv, Refusals, req
  <2> DEFINE reply == Reply(close, whole)
  <2>2. reply.request = current /\ reply.status = Status(exc)
    BY <1>3
  <2> HIDE DEF reply
  <2>3. IsWrite(asked[current]) =>
          /\ reply.status \in 400..499 => ~Handed(reply.request)
          /\ reply.status \in {200, 503, 504} => Handed(reply.request)
    BY <2>1, <2>2
  <2>4. StatusTrue(reply, asked[current], calls)
    BY <2>3, Zenon DEF StatusTrue, Handed
  <2> QED  BY <2>4 DEF reply
<1>5. WriteStatusIsTrue'
  <2>1. \A i \in DOMAIN replies : StatusTrue(replies[i], asked[replies[i].request], calls)
    BY StatusesTrue DEF StatusInv
  <2>2. asked' = asked /\ calls' = calls
    BY <1>1
  <2>3. ASSUME NEW i \in DOMAIN replies'
        PROVE  StatusTrue(replies'[i], asked[replies'[i].request], calls)
    <3>1. i \in DOMAIN replies \/ i = Len(replies) + 1
      BY <1>0, <1>2
    <3>2. CASE i \in DOMAIN replies
      BY <1>2, <2>1, <3>2, Zenon
    <3>3. CASE i = Len(replies) + 1
      BY <1>2, <1>3, <1>4, <3>3, Zenon
    <3> QED  BY <3>1, <3>2, <3>3, Zenon
  <2> QED  BY <2>2, <2>3, StatusesTrue
<1>6. WritesAreAdmitted'
  BY <1>1, Zenon DEF CallInv, WritesAreAdmitted, IsWrite, Admitted, AdmissionFailure
<1> QED  BY <1>1, <1>5, <1>6, Zenon DEF CallInv, StatusInv

LEMMA NextCall ==
  TypeInv /\ StreamInv /\ ReplyInv /\ CallInv /\ StatusInv /\ [Next]_vars
    => CallInv' /\ StatusInv'
<1> SUFFICES ASSUME TypeInv, StreamInv, ReplyInv, CallInv, StatusInv, [Next]_vars
             PROVE  CallInv' /\ StatusInv'
  OBVIOUS
<1>1. CASE MainStep \/ Accept \/ ServeFails \/ Interrupt \/ OtherStep \/ UNCHANGED vars
  <2>1. UNCHANGED <<config, asked, current, got, exc, replies, calls>>
    BY <1>1, ProcessFrame
  <2>2. pc' = pc \/ pc' \in Idle
    BY <1>1, ProcessFrame DEF Idle
  <2> QED  BY <2>1, <2>2, CallFrame
<1>2. CASE Http(ClientStep) \/ Http(NoMoreRequests)
  <2>1. UNCHANGED <<config, current, got, exc, replies, calls>>
    BY <1>2, Zenon DEF Http, ClientStep, ClientSendsHead, ClientSendsByte, ClientLeaves,
                NoMoreRequests, handler
  <2>2. pc' = pc \/ pc' \in Idle
    BY <1>2, Zenon DEF Http, ClientStep, ClientSendsHead, ClientSendsByte, ClientLeaves,
                NoMoreRequests, handler, Idle
  <2>3. asked \in Seq(Request)
    BY DEF TypeInv, TypeOK, HttpTypeOK
  <2>4. \A i \in 1..Len(asked) : asked'[i] = asked[i]
    <3>1. CASE Http(ClientSendsHead)
      <4>1. PICK r \in Menu[Len(asked) + 1] : asked' = Append(asked, r)
        BY <3>1 DEF Http, ClientSendsHead
      <4>2. r \in Request
        BY <2>3, <3>1, <4>1, RequestsAssumption DEF Http, ClientSendsHead
      <4> QED  BY <2>3, <4>1, <4>2
    <3>2. CASE ~Http(ClientSendsHead)
      BY <1>2, <3>2 DEF Http, ClientStep, ClientSendsByte, ClientLeaves, NoMoreRequests, client
    <3> QED  BY <3>1, <3>2
  <2> QED  BY <2>1, <2>2, <2>4, CallFrame
<1>3. CASE SendResponse \/ ResponseBreaks \/ SendError \/ ErrorBreaks
  BY <1>3, SendingKeepsCalls, Zenon DEF SendResponse, ResponseBreaks, SendError, ErrorBreaks
<1> QED  BY <1>1, <1>2, <1>3, HandlerKeepsCalls, DispatchKeepsCalls, ReadingKeepsCalls
         DEF Next, Http, HandlerStep

-----------------------------------------------------------------------------
HttpInv == TypeInv /\ StreamInv /\ ReplyInv /\ CallInv /\ StatusInv

\* The inductive invariant of the connection: types and bounds, what the client
\* still has on the wire, and which requests were answered and handed on.
THEOREM HttpInvHolds == Spec => []HttpInv
<1>1. Init => HttpInv
  BY InitType, InitStream, InitReply, InitCall DEF HttpInv
<1>2. HttpInv /\ [Next]_vars => HttpInv'
  BY NextType, NextStream, NextReply, NextCall DEF HttpInv
<1> QED  BY <1>1, <1>2, PTL DEF Spec

\* However requests are refused, cut short or left unread, no byte of a body
\* is taken for a request, on connections of any length.
THEOREM FramingIsKept == Spec => []FramingKept
<1>1. HttpInv => FramingKept
  BY NextHead, NextByte DEF HttpInv, FramingKept
<1> QED  BY <1>1, HttpInvHolds, PTL

\* Responses come one for each request and in order.
THEOREM ResponsesPair == Spec => []RepliesPair
<1>1. HttpInv => RepliesPair
  <2> SUFFICES ASSUME HttpInv PROVE RepliesPair
    OBVIOUS
  <2>1. DOMAIN replies = 1..Len(replies)
    BY DEF HttpInv, TypeInv, TypeOK, HttpTypeOK
  <2> QED  BY <2>1, Zenon DEF HttpInv, ReplyInv, RepliesPair
<1> QED  BY <1>1, HttpInvHolds, PTL

\* Only a write that every check admits reaches run_post, whole.
THEOREM OnlyAdmittedWrites == Spec => []WritesAreAdmitted
<1>1. HttpInv => WritesAreAdmitted
  BY DEF HttpInv, CallInv
<1> QED  BY <1>1, HttpInvHolds, PTL

\* The status of a write says whether run_post was called.
THEOREM StatusesAreTrue == Spec => []WriteStatusIsTrue
<1>1. HttpInv => WriteStatusIsTrue
  BY DEF HttpInv, StatusInv
<1> QED  BY <1>1, HttpInvHolds, PTL

-----------------------------------------------------------------------------
(* The end of the process.                                                  *)

\* What serve()'s finally clauses have already done, by the step they are at,
\* unless an interrupt cut them short.
ExitInv ==
  ~cut =>
    /\ main \in {"closeDatastore", "removeToken", "unlink", "end", "exit"} => coordClosed
    /\ main \in {"removeToken", "unlink", "end", "exit"} => closed
    /\ main \in {"end", "exit"} \/ ~remembered => file # "mine"

LEMMA NextExit == TypeOK /\ ExitInv /\ [Next]_vars => ExitInv'
<1> SUFFICES ASSUME TypeOK, ExitInv, [Next]_vars PROVE ExitInv'
  OBVIOUS
<1> USE DEF TypeOK, ExitInv, Goto, env, httpVars
<1>1. CASE OpenTokenFile     BY <1>1 DEF OpenTokenFile
<1>2. CASE WriteToken        BY <1>2 DEF WriteToken
<1>3. CASE MoveOn            BY <1>3 DEF MoveOn
<1>4. CASE BeforeClose       BY <1>4 DEF BeforeClose
<1>5. CASE CloseCoordinator  BY <1>5 DEF CloseCoordinator
<1>6. CASE CloseDatastore    BY <1>6 DEF CloseDatastore
<1>7. CASE RemoveToken       BY <1>7 DEF RemoveToken, CheckToken
<1>8. CASE ProcessEnds       BY <1>8 DEF ProcessEnds
<1>9. CASE Accept            BY <1>9 DEF Accept, process
<1>10. CASE Interrupt        BY <1>10, Zenon DEF Interrupt, Unwound
<1>11. CASE OtherStep        BY <1>11 DEF OtherStep
<1>12. CASE Http(ClientStep) \/ Http(HandlerStep)
  <2>1. UNCHANGED <<process, closed>>
    BY <1>12, Zenon
    DEF Http, ClientStep, HandlerStep, ClientSendsHead, ClientSendsByte, ClientLeaves,
        ReadRequest, NoMoreRequests, CheckHeaders, ReadByte, BodyEnds, BodyTimesOut,
        BodyStops, BodyResets, Dispatch, LeaveQueue, Answer, SendResponse, ResponseBreaks, SendError,
        ErrorBreaks
  <2> QED  BY <2>1 DEF process
<1>13. CASE ServeFails       BY <1>13 DEF ServeFails
<1>14. CASE UNCHANGED vars   BY <1>14 DEF vars, process
<1> QED  BY <1>1, <1>2, <1>3, <1>4, <1>5, <1>6, <1>7, <1>8, <1>9, <1>10, <1>11, <1>12, <1>13, <1>14,
            Zenon DEF Next, MainStep

\* Any number of interrupts, in any place the finally clauses guard, leaves
\* nothing open and no token behind.
THEOREM ExitIsClean == Spec => []CleanExit
<1>1. Init => ExitInv
  BY DEF Init, ExitInv
<1>2. ExitInv => CleanExit
  BY DEF ExitInv, CleanExit
<1> QED  BY <1>1, <1>2, NextExit, TypeCorrect, PTL DEF Spec
=============================================================================
