------------------------------ MODULE MCServe ------------------------------
(* Instances of Serve for TLC. *)
EXTENDS Serve

Get ==
  [method |-> "GET", target |-> "datastore", te |-> "none", length |-> Absent,
   close |-> FALSE, host |-> "loopback", origin |-> "own", token |-> TRUE,
   body |-> "object"]
Post == [Get EXCEPT !.method = "POST", !.length = 1]

Gets ==
  {Get, [Get EXCEPT !.close = TRUE, !.target = "badQuery"],
   [Get EXCEPT !.target = "status"]}
    \cup {[Get EXCEPT !.length = n] : n \in {1, Garbled}}

Posts ==
  {[Post EXCEPT !.body = b] : b \in Bodies}
    \cup {[Post EXCEPT !.length = n] : n \in {3, Absent, Garbled}}
    \cup {[Post EXCEPT !.host = h] : h \in {"other", "malformed"}}
    \cup {[Post EXCEPT !.origin = o] : o \in {"foreign", "malformed"}}
    \cup {[Post EXCEPT !.token = FALSE], [Post EXCEPT !.te = "chunked"],
          [Post EXCEPT !.target = "status"], [Post EXCEPT !.target = "badUrl"],
          [Post EXCEPT !.method = "PUT"],
          [Post EXCEPT !.method = "PATCH", !.te = "identity", !.length = 2]}

FullMenu == <<Gets \cup Posts, {Post}>>

Strict ==
  [allowWrites |-> TRUE, remote |-> FALSE, token |-> TRUE, validate |-> TRUE,
   unknown |-> FALSE]

AllConfigs ==
  {Strict, [Strict EXCEPT !.allowWrites = FALSE],
   [Strict EXCEPT !.remote = TRUE, !.token = FALSE, !.unknown = TRUE],
   [Strict EXCEPT !.validate = FALSE, !.token = FALSE]}
=============================================================================
