--------------------------- MODULE HttpConnection ---------------------------
(***************************************************************************)
(* MotuProxyHandler of motu_proxy/http_server.py on one connection, with   *)
(* the client at its other end.  The handler thread reads requests one     *)
(* after the other from the same stream of bytes, so a request that is     *)
(* answered before its body was read must be the last one.                 *)
(*                                                                         *)
(* A request is its head, sent and read at once, then its body, byte by    *)
(* byte.  What the code only tests is a field with the outcome of the      *)
(* test.  BaseHTTPRequestHandler is external: it reads a request, calls    *)
(* the handler, and goes on until close_connection is set.                 *)
(***************************************************************************)
EXTENDS Integers, Sequences, FiniteSets

CONSTANTS Menu,     \* bound: Menu[i] is the set of requests the client may
                    \* send as its i-th, the last one at Len(Menu)
          Configs,  \* the options the server may be started with
          MaxBody   \* max_write_body_bytes

Absent  == -1  \* no Content-Length header
Garbled == -2  \* a Content-Length that is negative or no number

Methods == {"GET", "POST", "PATCH", "PUT"}

(* body: what the announced bytes are.  "text" is not UTF-8, "notJson" not  *)
(* a JSON object, "unknown" not in the schema or out of range, "readonly"   *)
(* a path of the schema without rw, "long" an object that does not fit in   *)
(* a frame with this path.                                                  *)
Bodies == {"object", "text", "notJson", "unknown", "readonly", "long"}

Request ==
  [method : Methods,
   target : {"datastore", "status", "badQuery", "badUrl"},
   te     : {"none", "identity", "chunked"},  \* Transfer-Encoding
   length : Int,                               \* Content-Length
   close  : BOOLEAN,                           \* Connection: close
   host   : {"loopback", "other", "malformed"},
   origin : {"own", "foreign", "malformed"},   \* "own": the Host's, or none
   token  : BOOLEAN,                           \* the server's write token
   body   : Bodies]

Config ==
  [allowWrites : BOOLEAN, remote  : BOOLEAN, token : BOOLEAN,
   validate    : BOOLEAN, unknown : BOOLEAN]

ASSUME RequestsAssumption ==
  /\ Menu \in Seq(SUBSET Request) /\ Configs \subseteq Config
  /\ MaxBody \in Nat

VARIABLES
  config,   \* the options the server was started with
  closed,   \* ManagedDatastore._closed
  asked,    \* the requests the client has begun to send
  owed,     \* bytes of the last one's body it has not sent
  gone,     \* the client has closed its end
  wire,     \* what was sent and not read: a number n > 0 is the head of
            \* asked[n], -n a byte of its body
  pc,       \* where the handler thread is
  current,  \* the request it handles, an index of asked
  got,      \* bytes of its body it has read
  exc,      \* the exception it has caught, or the result to send
  close_connection,
  replies,  \* the responses: request, status, Connection: close, whole
  calls     \* the requests handed to run_get or run_post

client  == <<asked, owed, gone>>
handler == <<pc, current, got, exc, close_connection>>
httpVars == <<config, closed, client, wire, handler, replies, calls>>

HttpInit ==
  /\ config \in Configs /\ closed = FALSE
  /\ asked = <<>> /\ owed = 0 /\ gone = FALSE /\ wire = <<>>
  /\ pc = "backlog" /\ current = 0 /\ got = 0 /\ exc = "none"
  /\ close_connection = TRUE
  /\ replies = <<>> /\ calls = {}

req == asked[current]

-----------------------------------------------------------------------------
(* The client: well-behaved in that it sends the bytes it announced, and    *)
(* nothing else.                                                            *)

BodyLength(r) ==
  IF r.te = "chunked" THEN 1 ELSE IF r.length > 0 THEN r.length ELSE 0

\* What it sends before the connection is accepted waits in the socket: it
\* is as if sent after.
Connected == ~gone /\ pc \notin {"backlog", "closed"}

ClientSendsHead ==
  /\ Connected /\ owed = 0 /\ Len(asked) < Len(Menu)
  /\ \E r \in Menu[Len(asked) + 1] :
       asked' = Append(asked, r) /\ owed' = BodyLength(r)
  /\ wire' = Append(wire, Len(asked'))
  /\ UNCHANGED <<config, closed, gone, handler, replies, calls>>

ClientSendsByte ==
  /\ Connected /\ owed > 0
  /\ owed' = owed - 1
  /\ wire' = Append(wire, -Len(asked))
  /\ UNCHANGED <<config, closed, asked, gone, handler, replies, calls>>

ClientLeaves ==
  /\ Connected /\ gone' = TRUE
  /\ UNCHANGED <<config, closed, asked, owed, wire, handler, replies, calls>>

-----------------------------------------------------------------------------
(* Reading the next request: BaseHTTPRequestHandler, external.              *)

ReadRequest ==
  /\ pc = "request" /\ wire # <<>> /\ Head(wire) > 0
  /\ current' = Head(wire) /\ wire' = Tail(wire)
  /\ got' = 0
  /\ LET r == asked[Head(wire)] IN
     IF r.method = "PUT"          \* no do_PUT: send_error(501)
     THEN /\ pc' = "error" /\ exc' = "Unsupported"
          /\ close_connection' = TRUE
     ELSE /\ pc' = "headers" /\ exc' = "none"
          /\ close_connection' = r.close
  /\ UNCHANGED <<config, closed, client, replies, calls>>

\* End of the stream, or no request for `timeout` seconds.
NoMoreRequests ==
  /\ pc = "request" /\ wire = <<>>
  /\ pc' = "closed" /\ close_connection' = TRUE
  /\ UNCHANGED <<config, closed, client, wire, current, got, exc, replies,
                 calls>>

-----------------------------------------------------------------------------
(* handle_datastore_request up to the dispatcher.                           *)

IsWrite(r) == r.method # "GET"

(* The checks below name the exception the first one that fails raises.     *)

\* allow_writes, validate_write_host, validate_write_origin and
\* validate_write_token; urlparse raises a ValueError on a malformed netloc.
AdmissionFailure(r) ==
  IF ~config.allowWrites THEN "Forbidden"
  ELSE IF ~config.remote /\ r.host # "loopback"
  THEN IF r.host = "malformed" THEN "Other" ELSE "Forbidden"
  ELSE IF r.origin # "own"
  THEN IF r.origin = "malformed" THEN "Other" ELSE "Forbidden"
  ELSE IF config.token /\ ~r.token THEN "Forbidden"
  ELSE "none"

Admitted(r) == AdmissionFailure(r) = "none"

\* close_get_connection_if_body_announced
GetClosesUnread(r) == r.te # "none" \/ r.length > 0 \/ r.length = Garbled

GetFailure(r) == IF r.te = "none" /\ r.length = Garbled THEN "BadRequest" ELSE "none"

\* validate_write_headers, then read_raw_body up to the read
WriteFailure(r) ==
  IF ~Admitted(r) THEN AdmissionFailure(r)
  ELSE IF r.te = "chunked" \/ r.length = Garbled THEN "BadRequest"
  ELSE IF r.length > MaxBody THEN "TooLarge"
  ELSE "none"

CheckHeaders ==
  /\ pc = "headers"
  /\ LET f == IF IsWrite(req) THEN WriteFailure(req) ELSE GetFailure(req) IN
     /\ exc' = f
     /\ pc' = IF f # "none" THEN "error"
              ELSE IF IsWrite(req) /\ req.length > 0 THEN "body"
              ELSE "dispatch"
  /\ close_connection' =
       (close_connection \/ (~IsWrite(req) /\ GetClosesUnread(req)))
  /\ UNCHANGED <<config, closed, client, wire, current, got, replies, calls>>

\* rfile.read(length), then the decoding of what was read
ReadByte ==
  /\ pc = "body" /\ wire # <<>>
  /\ wire' = Tail(wire) /\ got' = got + 1
  /\ \/ got' < req.length /\ UNCHANGED <<pc, exc>>
     \/ got' = req.length /\ req.body # "text" /\ pc' = "dispatch" /\ UNCHANGED exc
     \/ got' = req.length /\ req.body = "text" /\ pc' = "error" /\ exc' = "BadRequest"
  /\ UNCHANGED <<config, closed, client, current, close_connection, replies,
                 calls>>

BodyStops(e) ==
  /\ pc = "body" /\ wire = <<>>
  /\ pc' = "error" /\ exc' = e /\ close_connection' = TRUE
  /\ UNCHANGED <<config, closed, client, wire, current, got, replies, calls>>

BodyTimesOut_Never == FALSE

\* ConnectionResetError, which may overtake what was sent
BodyResets ==
  /\ pc = "body"
  /\ pc' = "error" /\ exc' = "Other"
  /\ UNCHANGED <<config, closed, client, wire, current, got, close_connection,
                 replies, calls>>

BodyEnds     == gone /\ (BodyStops("BadRequest") \/ BodyResets)
BodyTimesOut == ~gone /\ BodyStops("BodyTimeout")

-----------------------------------------------------------------------------
(* dispatch_datastore_request.  A handler that reaches run_get or run_post  *)
(* is "queued" until the coordinator lets it use the session, then "busy".  *)

\* validate_datastore_write_object; the schema does not name STATUS_PATH
SchemaFailure(r) ==
  IF ~config.validate THEN "none"
  ELSE IF r.body = "readonly" THEN "Forbidden"
  ELSE IF ~config.unknown /\ (r.body = "unknown" \/ r.target = "status") THEN "Invalid"
  ELSE "none"

DispatchFailure_NoFrameCheck(r) ==
  IF r.target = "badUrl" THEN "Other"
  ELSE IF r.target = "badQuery" THEN "BadRequest"
  ELSE IF ~IsWrite(r) THEN "none"
  ELSE IF ~Admitted(r) THEN AdmissionFailure(r)
  ELSE IF r.length <= 0 \/ r.body = "notJson" THEN "BadRequest"
  ELSE SchemaFailure(r)
DispatchFailure(r) ==
  IF r.target = "badUrl" THEN "Other"           \* ValueError of urlparse
  ELSE IF r.target = "badQuery" THEN "BadRequest"
  ELSE IF ~IsWrite(r) THEN "none"
  ELSE IF ~Admitted(r) THEN AdmissionFailure(r)
  ELSE IF r.length <= 0 \/ r.body = "notJson" THEN "BadRequest"
  ELSE IF SchemaFailure(r) # "none" THEN SchemaFailure(r)
  ELSE IF r.body = "long" THEN "TooLarge"
  ELSE "none"

Dispatch ==
  /\ pc = "dispatch"
  /\ LET status == req.target = "status" /\ ~IsWrite(req)
         f == IF status THEN "none" ELSE DispatchFailure(req) IN
     /\ exc' = IF status THEN "ok" ELSE f
     /\ pc' = IF status THEN "respond" ELSE IF f # "none" THEN "error" ELSE "queued"
     /\ calls' = IF status \/ f # "none" THEN calls ELSE calls \cup {<<current, got>>}
  /\ UNCHANGED <<config, closed, client, wire, current, got, close_connection,
                 replies>>

\* ManagedDatastore refuses when it is closed.  A GET that waits for a
\* change, or is answered from memory, does not use the session.
LeaveQueue ==
  /\ pc = "queued"
  /\ \/ ~closed /\ pc' = "busy" /\ exc' = "none"
     \/ closed /\ pc' = "error" /\ exc' = "Unavailable"
     \/ ~IsWrite(req) /\ pc' = "respond" /\ exc' \in {"ok", "notModified"}
  /\ UNCHANGED <<config, closed, client, wire, current, got, close_connection,
                 replies, calls>>

Results(r) == IF IsWrite(r) THEN {"ok"} ELSE {"ok", "notModified"}

\* "Other" stands for every exception answered with 502.  build_get_frame
\* raises on a long path; a write was checked before.
BackendErrors_LateCheck(r) == {"Unavailable", "NoResponse", "Other", "TooLarge"}
BackendErrors(r) ==
  {"Unavailable", "NoResponse", "Other"}
    \cup IF IsWrite(r) THEN {} ELSE {"TooLarge"}

Answer ==
  /\ pc = "busy"
  /\ \/ pc' = "respond" /\ exc' \in Results(req)
     \/ pc' = "error" /\ exc' \in BackendErrors(req)
  /\ UNCHANGED <<config, closed, client, wire, current, got, close_connection,
                 replies, calls>>

-----------------------------------------------------------------------------
(* The response, and the except clauses of handle_datastore_request.        *)

Status(e) ==
  CASE e = "ok"          -> 200 [] e = "notModified" -> 304
    [] e = "BadRequest"  -> 400 [] e = "Forbidden"   -> 403
    [] e = "BodyTimeout" -> 408 [] e = "TooLarge"    -> 413
    [] e = "Invalid"     -> 422 [] e = "Unsupported" -> 501
    [] e = "Unavailable" -> 503 [] e = "NoResponse"  -> 504
    [] OTHER             -> 502

Reply(close, whole) ==
  [request |-> current, status |-> Status(exc), close |-> close, whole |-> whole]

\* The end of handle_one_request: the next request, or the end of the thread.
NextOrClose(close) ==
  /\ close_connection' = close
  /\ pc' = IF close THEN "closed" ELSE "request"

SendResponse ==
  /\ pc = "respond"
  /\ replies' = Append(replies, Reply(close_connection, TRUE))
  /\ NextOrClose(close_connection)
  /\ UNCHANGED <<config, closed, client, wire, current, got, exc, calls>>

\* A write to the socket fails when response_started is set: the client is
\* gone, or does not read.  can_send_error_response
ResponseBreaks_SendsError ==
  /\ pc = "respond"
  /\ replies' = Append(replies, Reply(close_connection, FALSE))
  /\ pc' = "error" /\ exc' = "Other"
  /\ UNCHANGED <<config, closed, client, wire, current, got, calls,
                 close_connection>>
ResponseBreaks ==
  /\ pc = "respond"
  /\ replies' = Append(replies, Reply(close_connection, FALSE))
  /\ NextOrClose(TRUE)
  /\ UNCHANGED <<config, closed, client, wire, current, got, exc, calls>>

\* close_write_connection, send_json_error, send_backend_error
CloseWriteConnection_Never == close_connection
CloseWriteConnection == close_connection \/ IsWrite(req)

SendError ==
  /\ pc = "error"
  /\ replies' = Append(replies, Reply(CloseWriteConnection, TRUE))
  /\ NextOrClose(CloseWriteConnection)
  /\ UNCHANGED <<config, closed, client, wire, current, got, exc, calls>>

\* A failure to send the error leaves the handler and ends its thread.
ErrorBreaks ==
  /\ pc = "error"
  /\ replies' = Append(replies, Reply(CloseWriteConnection, FALSE))
  /\ NextOrClose(TRUE)
  /\ UNCHANGED <<config, closed, client, wire, current, got, exc, calls>>

-----------------------------------------------------------------------------
ClientStep == ClientSendsHead \/ ClientSendsByte \/ ClientLeaves

HandlerStep ==
  \/ ReadRequest \/ NoMoreRequests
  \/ CheckHeaders \/ ReadByte \/ BodyEnds \/ BodyTimesOut
  \/ Dispatch \/ LeaveQueue \/ Answer
  \/ SendResponse \/ ResponseBreaks \/ SendError \/ ErrorBreaks

-----------------------------------------------------------------------------
HttpTypeOK ==
  /\ config \in Configs /\ closed \in BOOLEAN
  /\ asked \in Seq(Request) /\ Len(asked) <= Len(Menu)
  /\ owed \in Nat /\ gone \in BOOLEAN /\ wire \in Seq(Int)
  /\ pc \in {"backlog", "request", "headers", "body", "dispatch", "queued",
             "busy", "respond", "error", "closed"}
  /\ current \in Nat /\ got \in Nat
  /\ exc \in {"none", "ok", "notModified", "BadRequest", "Forbidden",
              "BodyTimeout", "TooLarge", "Invalid", "Unsupported",
              "Unavailable", "NoResponse", "Other"}
  /\ close_connection \in BOOLEAN
  /\ replies \in Seq([request : Nat, status : Nat, close : BOOLEAN, whole : BOOLEAN])
  /\ calls \subseteq Nat \X Nat

(* Framing: a kept-alive connection stays in step with its client.  What the *)
(* handler reads as the next request is the head the client sent as such,    *)
(* and what it reads as a body is the body of the request it handles:        *)
(* whatever was refused, cut short or left unread before, no byte of a body  *)
(* is taken for a request line (http_server.py:390-399, 466-482, 535-537).   *)
FramingKept ==
  wire # <<>> =>
    /\ pc = "request" => Head(wire) = current + 1
    /\ pc = "body" => Head(wire) = -current

(* A client can pair responses with requests: they come one for each request *)
(* and in order, none follows a response that was cut off or that announced  *)
(* Connection: close, and the next request is read only when the last one    *)
(* was answered (http_server.py:407-464, can_send_error_response).           *)
RepliesPair ==
  /\ \A i \in DOMAIN replies : replies[i].request = i
  /\ \A i \in DOMAIN replies :
       replies[i].close \/ ~replies[i].whole => i = Len(replies) /\ pc = "closed"
  /\ pc = "request" => Len(replies) = current

(* A write reaches run_post only when the headers admit it, and with every   *)
(* byte its head announced, all read before its dispatch; nothing the schema *)
(* or the frame limit refuses reaches it (http_server.py:242-261, 484-503).  *)
WritesAreAdmitted ==
  \A c \in calls :
    LET r == asked[c[1]] IN
    IsWrite(r) =>
      /\ Admitted(r) /\ c[2] = r.length /\ r.length \in 1..MaxBody
      /\ r.body \in {"object", "unknown", "readonly"}
      /\ config.validate => r.body # "readonly"
      /\ config.validate /\ ~config.unknown => r.body # "unknown"

(* The status of a write says whether the device may have been touched: a    *)
(* 4xx answer means run_post was never called, a 200 that it was, and the    *)
(* 5xx answers of an unavailable or silent device that it may have been      *)
(* (http_server.py:425-464).                                                 *)
WriteStatusIsTrue ==
  \A i \in DOMAIN replies :
    LET handed == \E c \in calls : c[1] = replies[i].request IN
    IsWrite(asked[replies[i].request]) =>
      /\ replies[i].status \in 400..499 => ~handed
      /\ replies[i].status \in {200, 503, 504} => handed

(* Every request ends: the handler answers it or drops the connection, even  *)
(* when the client stops in the middle of a body or stops reading, given     *)
(* that the timeouts expire and the backend returns.                         *)
RequestsEnd ==
  (pc \notin {"backlog", "request", "closed"}) ~> (pc \in {"request", "closed"})

=============================================================================
