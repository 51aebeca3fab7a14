------------------------------- MODULE Serve -------------------------------
(***************************************************************************)
(* The life of the proxy process: command_serve of motu_proxy/cli.py and   *)
(* serve of motu_proxy/http_server.py, composed with a handler thread      *)
(* (HttpConnection) and with another process that is started with the same *)
(* token file.  Ctrl-C raises KeyboardInterrupt wherever the main thread   *)
(* is; handler threads are daemons, so the process ends without them.      *)
(***************************************************************************)
EXTENDS HttpConnection

CONSTANT MaxInterrupts  \* bound: Ctrl-C

VARIABLES
  main,        \* where the main thread is
  coordClosed, \* DatastoreCoordinator._closed
  remembered,  \* write_token and write_token_file_path are assigned
  file,        \* the token file: absent, empty, or whose token it holds
  other,       \* where the other process is
  interrupts,  \* Ctrl-C so far
  cut          \* one of them hit a place that no finally clause guards

env     == <<other, interrupts, cut>>
process == <<main, coordClosed, remembered, file, env>>
vars    == <<httpVars, process>>

Init ==
  /\ HttpInit
  /\ main = "token" /\ coordClosed = FALSE /\ remembered = FALSE
  /\ file = "absent" /\ other = "none"
  /\ interrupts = 0 /\ cut = FALSE

NeedsToken == config.allowWrites /\ config.token

\* The step of the main thread from one place to another that changes
\* nothing else.
Goto(from, to) == main = from /\ main' = to

-----------------------------------------------------------------------------
(* command_serve up to serve.                                               *)

\* prepare_write_token and write_token_file
OpenTokenFile ==
  /\ NeedsToken /\ Goto("token", "write")
  /\ file' = "empty"
  /\ UNCHANGED <<httpVars, coordClosed, remembered, env>>

WriteToken ==
  /\ Goto("write", "bind")
  /\ file' = "mine" /\ remembered' = TRUE
  /\ UNCHANGED <<httpVars, coordClosed, env>>

\* No token is needed; the socket is bound; server_close; or an exception: a
\* token file that is a symbolic link or cannot be written, a port in use.
MoveOn ==
  /\ \/ ~NeedsToken /\ Goto("token", "bind")
     \/ Goto("bind", "serving")
     \/ Goto("serverClose", "close")
     \/ NeedsToken /\ Goto("token", "close")
     \/ Goto("write", "close")
     \/ Goto("bind", "close")
  /\ UNCHANGED <<httpVars, coordClosed, remembered, file, env>>

Accept ==
  /\ main = "serving" /\ pc = "backlog"
  /\ pc' = "request"
  /\ UNCHANGED <<config, closed, client, wire, current, got, exc,
                 close_connection, replies, calls, process>>

\* An exception other than KeyboardInterrupt leaves serve_forever.
ServeFails ==
  /\ Goto("serving", "beforeClose")
  /\ UNCHANGED <<httpVars, coordClosed, remembered, file, env>>

-----------------------------------------------------------------------------
(* The finally clause of serve, then the one of command_serve.              *)

\* before_close is coordinator.close; an interrupt may cut its join short.
BeforeClose ==
  /\ Goto("beforeClose", "serverClose")
  /\ coordClosed' = TRUE
  /\ UNCHANGED <<httpVars, remembered, file, env>>

\* coordinator.close again: it must not matter that it was called before.
CloseCoordinator_Once ==
  /\ Goto("close", "closeDatastore")
  /\ ~coordClosed /\ coordClosed' = TRUE
  /\ UNCHANGED <<httpVars, remembered, file, env>>
CloseCoordinator ==
  /\ Goto("close", "closeDatastore")
  /\ coordClosed' = TRUE
  /\ UNCHANGED <<httpVars, remembered, file, env>>

\* Takes _operation_lock: waits for the handler that uses the session.
CloseDatastore ==
  /\ Goto("closeDatastore", "removeToken")
  /\ pc # "busy"
  /\ closed' = TRUE
  /\ UNCHANGED <<config, client, wire, handler, replies, calls, coordClosed,
                 remembered, file, env>>

\* remove_write_token_file: a check, then the removal
CheckToken == Goto("removeToken", IF remembered /\ file = "mine" THEN "unlink" ELSE "end")

RemoveToken ==
  /\ \/ CheckToken /\ UNCHANGED file
     \/ Goto("unlink", "end") /\ file' = "absent"
  /\ UNCHANGED <<httpVars, coordClosed, remembered, env>>

ProcessEnds ==
  /\ Goto("end", "exit")
  /\ pc' = "closed"
  /\ UNCHANGED <<config, closed, client, wire, current, got, exc,
                 close_connection, replies, calls, coordClosed, remembered,
                 file, env>>

\* KeyboardInterrupt: caught by serve, or unwound through the finally clauses.
Unwound_NoFinally(place) ==
  CASE place = "serving" -> "beforeClose"
    [] OTHER             -> "end"
Unwound(place) ==
  CASE place = "serving"                              -> "beforeClose"
    [] place \in {"token", "write", "bind",
                  "beforeClose", "serverClose"}       -> "close"
    [] OTHER                                          -> "end"

Interrupt ==
  /\ interrupts < MaxInterrupts /\ main \notin {"end", "exit"}
  /\ interrupts' = interrupts + 1
  /\ main' = Unwound(main)
  /\ file' \in IF main = "write" THEN {file, "mine"} ELSE {file}
  /\ cut' = (cut \/ main \in {"write", "close", "closeDatastore", "removeToken", "unlink"})
  /\ UNCHANGED <<httpVars, coordClosed, remembered, other>>

-----------------------------------------------------------------------------
(* Another process with the same token file: it writes its token, in one    *)
(* step here, and removes it when it ends, at once when the port is taken.  *)

OtherStep ==
  /\ NeedsToken /\ main # "exit"
  /\ \/ other = "none" /\ other' = "running" /\ file' = "other"
     \/ other = "running" /\ other' = "done"
        /\ file' = IF file = "other" THEN "absent" ELSE file
  /\ UNCHANGED <<httpVars, main, coordClosed, remembered, interrupts, cut>>

-----------------------------------------------------------------------------
MainStep ==
  \/ OpenTokenFile \/ WriteToken \/ MoveOn
  \/ BeforeClose \/ CloseCoordinator \/ CloseDatastore
  \/ RemoveToken \/ ProcessEnds

Http(step) == step /\ main # "exit" /\ UNCHANGED process

Next ==
  \/ MainStep \/ Accept \/ ServeFails \/ Interrupt \/ OtherStep
  \/ Http(ClientStep) \/ Http(HandlerStep)

Spec == Init /\ [][Next]_vars

(* The threads run: a read that never gets its bytes ends by its timeout,    *)
(* and a call of the backend returns (Coordinator, ForegroundServed).        *)
(* A second process and the client may stop anywhere.                        *)
FairSpec == Spec /\ WF_vars(MainStep) /\ WF_vars(Http(HandlerStep))

-----------------------------------------------------------------------------
TypeOK ==
  /\ HttpTypeOK
  /\ main \in {"token", "write", "bind", "serving", "beforeClose", "serverClose",
               "close", "closeDatastore", "removeToken", "unlink", "end", "exit"}
  /\ coordClosed \in BOOLEAN /\ remembered \in BOOLEAN /\ cut \in BOOLEAN
  /\ file \in {"absent", "empty", "mine", "other"}
  /\ other \in {"none", "running", "done"}
  /\ interrupts \in Nat

(* However the process ends - a token file that cannot be written, a port    *)
(* that is taken, an exception or Ctrl-C while it serves, a second Ctrl-C    *)
(* while the first one waits for the poller - the coordinator and the        *)
(* session are closed and its token is not left behind, unless an interrupt  *)
(* hits the writing of the token file or the outer finally clause itself     *)
(* (cli.py:281-303, http_server.py:639-647).  SIGTERM, for which the program *)
(* installs no handler, ends it without any of this.                         *)
CleanExit ==
  main = "exit" /\ ~cut => coordClosed /\ closed /\ file # "mine"

(* The process ends once it has begun to shut down, whatever connections are *)
(* open and wherever their handlers are (block_on_close, daemon_threads).    *)
ShutdownEnds ==
  (main \notin {"token", "write", "bind", "serving", "exit"}) ~> (main = "exit")
=============================================================================
