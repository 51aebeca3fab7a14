------------------------- MODULE ResponseCollector -------------------------
(***************************************************************************)
(* MotuUsbDatastore of motu_proxy/datastore.py: one request after another  *)
(* on a USB pipe that keeps what nobody has read.  A response is a series  *)
(* of frames, a frame one or more USB chunks; the frames of a poll that    *)
(* was cancelled or timed out arrive in front of, or between, those of a   *)
(* later request, and only their message sequence number tells them apart. *)
(*                                                                         *)
(* Frames are counted in chunks, not bytes.  The host sequence number of   *)
(* the frames written is left out: nothing here reads it.                  *)
(***************************************************************************)
EXTENDS Naturals, Sequences

CONSTANTS SeqCount,     \* message sequence numbers (MAX_MESSAGE_SEQ + 1)
          MaxFrames,    \* max_response_frames
          MaxIgnored,   \* max_ignored_packets
          MaxTotal,     \* max_bytes, in chunks
          DrainReads,   \* max_reads of _drain_quiet
          MaxRequests,  \* bound: requests
          MaxSegments,  \* bound: frames of a response
          MaxChunks,    \* bound: chunks of a frame
          MaxFaults     \* bound: corrupt frames, foreign packets, failed writes

ASSUME CollectorAssumption ==
  /\ {SeqCount, MaxFrames, MaxIgnored, MaxTotal, DrainReads, MaxRequests,
      MaxSegments, MaxChunks, MaxFaults} \subseteq Nat
  /\ SeqCount > MaxRequests /\ MaxSegments > 0 /\ MaxChunks > 0

\* DEFAULT_MAX_RESPONSE_READS
MaxReads == 2 * MaxFrames + MaxIgnored + 2

VARIABLES
  pipe,         \* chunks the device has sent and nobody has read
  owed,         \* responses the device has still to send, or to finish
  faults,       \* faults so far
  messageSeq,   \* message_seq
  mode,         \* the current operation: "drain" (init), "poll" or "call"
  cur,          \* its number
  expected,     \* expected_message_seq
  clean,        \* whether it started at the beginning of a frame
  clock,        \* "early", "near" (a read may time out) or "late" (deadline)
  pc,           \* "top", "read", "packet", "join", "done"
  packet, need, \* the logical frame being read, and its length
  collected,    \* frames
  total,        \* their length, in chunks
  reads, quiet, ignored, staleSeq, staleFrames, staleTotal,
  outcome       \* how the operation ended

device == <<pipe, owed>>
limits == <<reads, quiet, ignored, staleSeq, staleFrames, staleTotal>>
op     == <<mode, cur, expected, clean>>
vars   == <<device, faults, messageSeq, op, clock, pc, packet, need, collected,
            total, limits, outcome>>

NoSeq == SeqCount                                     \* None

\* A chunk of frame seg of the response to req; sofar is the length of that
\* response up to the end of the frame.
Chunk(kind, p, final, bad, part, parts) ==
  [kind |-> kind, req |-> p.req, seq |-> p.seq, seg |-> p.seg,
   sofar |-> p.sofar + parts, final |-> final, bad |-> bad, part |-> part,
   parts |-> parts]

Frame(p, final, bad, parts) ==
  [i \in 1 .. parts |-> Chunk("response", p, final, bad, i, parts)]

\* A response the device owes, with the next frame it sends.
Owed(r, seq) == [req |-> r, seq |-> seq, seg |-> 0, sofar |-> 0]

\* The pipe is at the beginning of a frame.
Aligned == pipe = <<>> \/ Head(pipe).part = 1

\* The variables of a new collection.
Fresh ==
  /\ clock' = "early" /\ packet' = <<>> /\ need' = 0
  /\ collected' = <<>> /\ total' = 0
  /\ reads' = 0 /\ quiet' = 0 /\ ignored' = 0
  /\ staleSeq' = NoSeq /\ staleFrames' = 0 /\ staleTotal' = 0

\* The init frame is written and ends what the device was doing; the pipe may
\* hold the end of a response nobody waits for any more.
Init ==
  /\ \E n \in 0 .. MaxChunks :
       LET old == Frame(Owed(0, NoSeq), TRUE, FALSE, MaxChunks)
       IN  pipe = SubSeq(old, n + 1, MaxChunks)
  /\ owed = {} /\ faults = 0
  /\ messageSeq = 2 % SeqCount
  /\ mode = "drain" /\ cur = 0 /\ expected = NoSeq /\ clean = Aligned
  /\ clock = "early" /\ pc = "top" /\ packet = <<>> /\ need = 0
  /\ collected = <<>> /\ total = 0 /\ outcome = "none"
  /\ reads = 0 /\ quiet = 0 /\ ignored = 0
  /\ staleSeq = NoSeq /\ staleFrames = 0 /\ staleTotal = 0

-----------------------------------------------------------------------------
(* The device and the clock.                                                *)

host == <<messageSeq, op, clock, pc, packet, need, collected, total, limits,
          outcome>>

\* The pipe is first in, first out, so when a frame was sent tells the host
\* nothing: the device sends when a read finds the pipe empty.
Wanted == pc = "read" /\ pipe = <<>>

Fault == faults < MaxFaults /\ faults' = faults + 1

\* The next frame of a response, whole or damaged.
DeviceSends ==
  \E p \in owed, n \in 1 .. MaxChunks, final, bad \in BOOLEAN :
    /\ Wanted
    /\ p.seg = MaxSegments - 1 => final
    /\ IF bad THEN Fault ELSE UNCHANGED faults
    /\ pipe' = Frame(p, final, bad, n)
    /\ owed' = (owed \ {p}) \cup
         IF final THEN {} ELSE {[p EXCEPT !.seg = @ + 1, !.sofar = @ + n]}
    /\ UNCHANGED host

\* An acknowledgement, or a packet that is neither that nor a response.
DeviceChatters ==
  /\ Wanted
  /\ \E kind \in {"ack", "other"} :
       /\ IF kind = "ack" THEN UNCHANGED faults ELSE Fault
       /\ pipe' = <<Chunk(kind, Owed(0, NoSeq), TRUE, FALSE, 1, 1)>>
  /\ UNCHANGED <<owed, host>>

ClockAdvances ==
  /\ mode # "drain" /\ pc \in {"top", "read"} /\ clock # "late"
  /\ clock' = IF clock = "early" THEN "near" ELSE "late"
  /\ UNCHANGED <<device, faults, messageSeq, op, pc, packet, need, collected,
                 total, limits, outcome>>

-----------------------------------------------------------------------------
(* get and post.                                                            *)

NextMessageSeq_NoWrap == messageSeq + 1
NextMessageSeq == (messageSeq + 1) % SeqCount

\* The session opened and is not being closed.
MayStart ==
  /\ pc = "done" /\ cur < MaxRequests
  /\ mode = "drain" => outcome = "ok"
  /\ outcome # "closed"

\* The request is written and counted.
StartRequest(m) ==
  /\ MayStart
  /\ mode' = m /\ cur' = cur + 1 /\ expected' = messageSeq /\ clean' = Aligned
  /\ messageSeq' = NextMessageSeq
  /\ owed' = owed \cup {Owed(cur + 1, messageSeq)}
  /\ Fresh /\ pc' = "top" /\ outcome' = "none"
  /\ UNCHANGED <<pipe, faults>>

\* The write fails, and the number is used again.
WriteFails(m) ==
  /\ MayStart
  /\ Fault
  /\ mode' = m /\ cur' = cur + 1 /\ clean' = Aligned
  /\ Fresh /\ pc' = "done" /\ outcome' = "failed"
  /\ UNCHANGED <<device, messageSeq, expected>>

-----------------------------------------------------------------------------
(* _read_logical_frame and _bulk_read.                                      *)

Finish(o) == pc' = "done" /\ outcome' = o
Continue == pc' = "top" /\ UNCHANGED outcome

\* The length a first chunk announces; that of a chunk from inside a frame is
\* anything, 0 standing for one the header check refuses.
Announced(c) == IF c.part = 1 THEN {c.parts} ELSE 0 .. MaxChunks

ReadChunk ==
  /\ pc = "read" /\ pipe # <<>>
  /\ pipe' = Tail(pipe)
  /\ packet' = Append(packet, Head(pipe))
  /\ need' \in IF packet = <<>> THEN Announced(Head(pipe)) ELSE {need}
  /\ IF need' = 0 THEN Finish("short")
     ELSE /\ pc' = IF Len(packet') < need' THEN "read" ELSE "packet"
          /\ UNCHANGED outcome
  /\ UNCHANGED <<owed, faults, messageSeq, op, clock, collected, total, limits>>

\* The read times out; what is in the pipe may still be on its way.
ReadTimesOut ==
  /\ pc = "read"
  /\ IF mode = "drain" THEN pipe = <<>> ELSE clock # "early"
  /\ IF packet # <<>> THEN Finish("short") /\ UNCHANGED limits
     ELSE /\ reads' = reads + 1 /\ quiet' = quiet + 1
          /\ IF mode = "drain" THEN Finish("ok")
             ELSE IF quiet' = 2 THEN pc' = "join" /\ UNCHANGED outcome
             ELSE Continue
          /\ UNCHANGED <<ignored, staleSeq, staleFrames, staleTotal>>
  /\ UNCHANGED <<device, faults, messageSeq, op, clock, packet, need, collected,
                 total>>

\* An error that does not cost the session.
ReadFails ==
  /\ pc = "read" /\ Fault
  /\ Finish("failed")
  /\ UNCHANGED <<device, messageSeq, op, clock, packet, need, collected, total,
                 limits>>

\* A foreground request cancels the read of a poll; a chunk that came just
\* before is dropped with it.
CancelRead ==
  /\ pc = "read" /\ mode = "poll"
  /\ \/ UNCHANGED pipe
     \/ pipe # <<>> /\ pipe' = Tail(pipe)
  /\ Finish("cancelled")
  /\ UNCHANGED <<owed, faults, messageSeq, op, clock, packet, need, collected,
                 total, limits>>

-----------------------------------------------------------------------------
(* _collect_response and _drain_quiet.                                      *)

Top ==
  /\ pc = "top"
  /\ \/ mode = "poll" /\ Finish("closed")                \* should_cancel()
     \/ /\ reads >= IF mode = "drain" THEN DrainReads ELSE MaxReads
        /\ Finish("timeout")
     \/ /\ reads < MaxReads /\ mode # "drain" /\ clock = "late"
        /\ Finish(IF collected = <<>> THEN "noresponse" ELSE "timeout")
     \/ /\ IF mode = "drain" THEN reads < DrainReads
           ELSE reads < MaxReads /\ clock # "late"
        /\ pc' = "read" /\ UNCHANGED outcome
  /\ packet' = <<>> /\ need' = 0
  /\ UNCHANGED <<device, faults, messageSeq, op, clock, collected, total, limits>>

\* What a packet is.
IsAck == packet[1].kind = "ack"
IsResponse == packet[1].kind = "response" /\ packet[1].part = 1
Parses == ~packet[1].bad                          \* parse_response_frame

IsStale_Never == FALSE
IsStale == IsResponse /\ packet[1].seq # expected

IsOwn == IsResponse /\ ~IsStale

Count == /\ pc = "packet" /\ mode # "drain"
         /\ reads' = reads + 1 /\ quiet' = 0
         /\ UNCHANGED <<device, messageSeq, op, clock, packet, need>>

\* _write_frame(build_ack(...)), after which the collection goes on with A.
Acknowledged(A) == \/ A /\ UNCHANGED faults
                   \/ Fault /\ Finish("failed")

ContinueUnlessIgnored ==
  IF ignored' > MaxIgnored THEN Finish("timeout") ELSE Continue

TakeAck ==
  /\ Count /\ IsAck
  /\ Continue
  /\ UNCHANGED <<faults, collected, total, ignored, staleSeq, staleFrames, staleTotal>>

\* Neither an acknowledgement nor a response, or the inside of a frame.
TakeOther ==
  /\ Count /\ ~IsAck /\ ~IsResponse
  /\ ignored' = ignored + 1
  /\ ContinueUnlessIgnored
  /\ UNCHANGED <<faults, collected, total, staleSeq, staleFrames, staleTotal>>

TakeDamagedStale ==
  /\ Count /\ IsStale /\ ~Parses
  /\ ignored' = ignored + 1
  /\ Acknowledged(ContinueUnlessIgnored)
  /\ UNCHANGED <<collected, total, staleSeq, staleFrames, staleTotal>>

\* A frame of an earlier response has limits of its own.
AfterStale_CountsIgnored(frames, size) ==
  IF frames > MaxFrames \/ size > MaxTotal THEN Finish("limit")
  ELSE ContinueUnlessIgnored
AfterStale(frames, size) ==
  IF frames > MaxFrames \/ size > MaxTotal THEN Finish("limit") ELSE Continue

\* A count starts again with the frames of another response.
StaleSoFar(count) == IF staleSeq = packet[1].seq THEN count ELSE 0

TakeStale ==
  /\ Count /\ IsStale /\ Parses
  /\ ignored' = ignored + 1
  /\ LET frames == 1 + StaleSoFar(staleFrames)
         size   == Len(packet) + StaleSoFar(staleTotal)
         over   == packet[1].final /\ frames <= MaxFrames /\ size <= MaxTotal
     IN  /\ staleSeq' = IF over THEN NoSeq ELSE packet[1].seq
         /\ staleFrames' = IF over THEN 0 ELSE frames
         /\ staleTotal' = IF over THEN 0 ELSE size
         /\ Acknowledged(AfterStale(frames, size))
  /\ UNCHANGED <<collected, total>>

TakeDamagedOwn ==
  /\ Count /\ IsOwn /\ ~Parses
  /\ Finish("invalid")
  /\ UNCHANGED <<faults, collected, total, ignored, staleSeq, staleFrames, staleTotal>>

TakeOwn ==
  /\ Count /\ IsOwn /\ Parses
  /\ collected' = Append(collected, packet[1])
  /\ total' = total + Len(packet)
  /\ IF Len(collected') > MaxFrames THEN Finish("limit") /\ UNCHANGED faults
     ELSE Acknowledged(IF total' > MaxTotal THEN Finish("limit")
                       ELSE IF packet[1].final THEN pc' = "join" /\ UNCHANGED outcome
                       ELSE Continue)
  /\ UNCHANGED <<ignored, staleSeq, staleFrames, staleTotal>>

TakeDrained ==
  /\ pc = "packet" /\ mode = "drain"
  /\ reads' = reads + 1 /\ quiet' = 0
  /\ Continue
  /\ UNCHANGED <<device, faults, messageSeq, op, clock, packet, need, collected,
                 total, ignored, staleSeq, staleFrames, staleTotal>>

-----------------------------------------------------------------------------
(* join_parsed_response_frames.                                             *)

InOrder(frames) ==
  \A i \in 1 .. Len(frames) :
    frames[i].seg = i - 1 /\ frames[i].final = (i = Len(frames))

Join ==
  /\ pc = "join"
  /\ Finish(IF collected = <<>> THEN "noresponse"
            ELSE IF InOrder(collected) THEN "ok" ELSE "invalid")
  /\ UNCHANGED <<device, faults, messageSeq, op, clock, packet, need, collected,
                 total, limits>>

Next ==
  \/ DeviceSends \/ DeviceChatters \/ ClockAdvances
  \/ \E m \in {"poll", "call"} : StartRequest(m) \/ WriteFails(m)
  \/ Top \/ ReadChunk \/ ReadTimesOut \/ ReadFails \/ CancelRead
  \/ TakeAck \/ TakeOther \/ TakeDamagedStale \/ TakeStale
  \/ TakeDamagedOwn \/ TakeOwn \/ TakeDrained \/ Join

Spec == Init /\ [][Next]_vars

-----------------------------------------------------------------------------
(* Properties.                                                              *)

\* The state has its type, and the limits of a collection bound what it reads
\* and keeps.
TypeOK ==
  /\ \A i \in 1 .. Len(pipe) : pipe[i].part \in 1 .. pipe[i].parts
  /\ \A p \in owed : p.req \in 1 .. MaxRequests /\ p.seg < MaxSegments
  /\ faults \in 0 .. MaxFaults
  /\ messageSeq \in 0 .. SeqCount - 1
  /\ mode \in {"drain", "poll", "call"} /\ cur \in 0 .. MaxRequests
  /\ expected \in 0 .. SeqCount /\ clean \in BOOLEAN
  /\ clock \in {"early", "near", "late"}
  /\ pc \in {"top", "read", "packet", "join", "done"}
  /\ Len(packet) <= MaxChunks /\ need \in 0 .. MaxChunks
  /\ Len(collected) <= MaxFrames + 1
  /\ reads <= IF mode = "drain" THEN DrainReads ELSE MaxReads
  /\ quiet \in 0 .. 2 /\ ignored <= MaxReads
  /\ staleSeq \in 0 .. SeqCount
  /\ staleFrames <= MaxFrames + 1 /\ staleTotal <= MaxTotal + MaxChunks
  /\ outcome \in {"none", "ok", "closed", "cancelled", "short", "timeout",
                  "noresponse", "limit", "invalid", "failed"}

\* _collect_response returns the whole response to its own request, in order,
\* and no frame of another one, whatever earlier requests left in the pipe and
\* wherever their reads were cut off.
ResponseIsOwn ==
  outcome = "ok" /\ mode # "drain" =>
    /\ collected # <<>> /\ collected[Len(collected)].final
    /\ \A i \in 1 .. Len(collected) :
         collected[i].req = cur /\ collected[i].seg = i - 1

\* A collection that begins at a frame boundary, with time left and a sound
\* device, fails only for a reason of size: the response its last packet
\* belongs to is over the limits, or all its reads are used up.  The late
\* frames of other responses, interleaved in any order, do not count as
\* ignored packets that end it, and neither do acknowledgements.
LateFramesAreHarmless ==
  pc = "done" /\ mode # "drain" /\ clean /\ faults = 0 /\ clock = "early" =>
    \/ outcome \in {"ok", "closed", "cancelled"}
    \/ outcome = "limit" /\ (packet[1].seg >= MaxFrames \/ packet[1].sofar > MaxTotal)
    \/ outcome = "timeout" /\ reads = MaxReads

\* The design of the cancellation says that a foreground collection never
\* raises on what a cancelled poll left behind.
StaleReplyNeverRaises ==
  mode = "call" /\ faults = 0 /\ clock = "early" => outcome # "short"

=============================================================================
