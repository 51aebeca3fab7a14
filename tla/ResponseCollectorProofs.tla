---------------------- MODULE ResponseCollectorProofs ----------------------
(***************************************************************************)
(* Whose response MotuUsbDatastore returns, for responses, frames and      *)
(* limits of every size.                                                   *)
(***************************************************************************)
EXTENDS ResponseCollector, TLAPS

\* A leaf of these proofs takes the SMT solver a second or less, on a busy machine
\* more; the leaves that need Zenon say so.
USE SMTT(30)

Chunks ==
  [kind : {"response", "ack", "other"}, req : Nat, seq : 0 .. SeqCount, seg : Nat,
   sofar : Nat, final : BOOLEAN, bad : BOOLEAN, part : Nat, parts : 1 .. MaxChunks]

Responses ==
  [req : 1 .. MaxRequests, seq : 0 .. SeqCount - 1, seg : 0 .. MaxSegments - 1, sofar : Nat]

StateOK ==
  /\ pipe \in Seq(Chunks) /\ packet \in Seq(Chunks) /\ collected \in Seq(Chunks)
  /\ owed \subseteq Responses
  /\ total \in Nat /\ reads \in Nat /\ ignored \in Nat
  /\ staleFrames \in Nat /\ staleTotal \in Nat
  /\ TypeOK

ReadLimit == IF mode = "drain" THEN DrainReads ELSE MaxReads

\* The limits are tested before the next read, so a collection that goes on is
\* within them.
LimitInv ==
  /\ ignored <= reads
  /\ pc \in {"read", "packet"} => reads < ReadLimit
  /\ pc = "read" /\ packet # <<>> => Len(packet) < need
  /\ pc = "packet" => packet # <<>> /\ need <= Len(packet)
  /\ pc \in {"top", "read", "packet"} =>
       /\ quiet <= 1 /\ Len(collected) <= MaxFrames
       /\ staleFrames <= MaxFrames /\ staleTotal <= MaxTotal

\* The numbers a collection starts from.
LEMMA NumbersOK ==
  ASSUME StateOK
  PROVE  /\ cur \in Nat /\ messageSeq \in 0 .. SeqCount - 1
         /\ faults \in Nat /\ faults \in 0 .. MaxFaults
<1>1. TypeOK
  BY DEF StateOK
<1>2. cur \in 0 .. MaxRequests /\ messageSeq \in 0 .. SeqCount - 1 /\ faults \in 0 .. MaxFaults
  BY <1>1 DEF TypeOK
<1> QED  BY <1>2

\* What the device has sent and the host has not yet taken.
Pending ==
  {pipe[i] : i \in DOMAIN pipe}
    \cup {packet[i] : i \in IF pc \in {"read", "packet"} THEN DOMAIN packet ELSE {}}

\* How many requests ago a message sequence number was used.
Age(seq) == IF seq < messageSeq THEN messageSeq - seq ELSE messageSeq + SeqCount - seq

\* No number in use is that of the next request.
SeqInv ==
  /\ \A p \in owed : Age(p.seq) <= cur
  /\ \A c \in Pending : c.seq # NoSeq => Age(c.seq) <= cur
  /\ \A p, q \in owed : p.seq = q.seq => p = q

\* The number tells the response to this request from all others.
OwnInv ==
  /\ pc # "done" =>
       /\ \A p \in owed : p.seq = expected => p.req = cur
       /\ \A c \in Pending : c.kind = "response" /\ c.seq = expected => c.req = cur
       /\ \A i \in DOMAIN collected : collected[i].req = cur
       /\ expected = NoSeq => mode = "drain"
       /\ outcome = "none"
  /\ ResponseIsOwn

Inv == StateOK /\ LimitInv /\ SeqInv /\ OwnInv

-----------------------------------------------------------------------------
(* Types and limits.                                                        *)

LEMMA ConstantTypes ==
  /\ SeqCount \in Nat /\ MaxFrames \in Nat /\ MaxIgnored \in Nat /\ MaxTotal \in Nat
  /\ DrainReads \in Nat /\ MaxRequests \in Nat /\ MaxSegments \in Nat /\ MaxChunks \in Nat
  /\ MaxFaults \in Nat /\ MaxReads \in Nat /\ ReadLimit \in Nat
  /\ SeqCount > MaxRequests /\ MaxSegments > 0 /\ MaxChunks > 0
BY CollectorAssumption DEF MaxReads, ReadLimit

LEMMA FrameType ==
  ASSUME NEW p \in [req : Nat, seq : 0 .. SeqCount, seg : Nat, sofar : Nat],
         NEW final \in BOOLEAN, NEW bad \in BOOLEAN, NEW n \in 1 .. MaxChunks
  PROVE  /\ Frame(p, final, bad, n) \in Seq(Chunks)
         /\ Len(Frame(p, final, bad, n)) = n
         /\ \A i \in 1 .. n :
              Frame(p, final, bad, n)[i] = Chunk("response", p, final, bad, i, n)
<1>0. n \in Nat /\ MaxChunks \in Nat
  BY ConstantTypes
<1>1. \A i \in 1 .. n : Chunk("response", p, final, bad, i, n) \in Chunks
  BY <1>0 DEF Chunk, Chunks
<1> QED  BY <1>0, <1>1 DEF Frame

\* What is left of a response once a frame of it is sent.
Advanced(p, n) == [p EXCEPT !.seg = @ + 1, !.sofar = @ + n]

LEMMA AdvancedType ==
  ASSUME NEW p \in Responses, NEW n \in 1 .. MaxChunks, p.seg # MaxSegments - 1
  PROVE  /\ Advanced(p, n) \in Responses
         /\ Advanced(p, n).req = p.req /\ Advanced(p, n).seq = p.seq
         /\ Advanced(p, n).seg = p.seg + 1 /\ Advanced(p, n).sofar = p.sofar + n
<1>1. Advanced(p, n) = [req |-> p.req, seq |-> p.seq, seg |-> p.seg + 1, sofar |-> p.sofar + n]
  <2>1. [p EXCEPT !.seg = @ + 1]
          = [req |-> p.req, seq |-> p.seq, seg |-> p.seg + 1, sofar |-> p.sofar]
    BY DEF Responses
  <2>2. Advanced(p, n) = [[p EXCEPT !.seg = @ + 1] EXCEPT !.sofar = @ + n]
    BY DEF Advanced, Responses
  <2> QED  BY <2>1, <2>2, Zenon
<1>2. p.seg + 1 \in 0 .. MaxSegments - 1 /\ p.sofar + n \in Nat
  BY ConstantTypes DEF Responses
<1> QED  BY <1>1, <1>2 DEF Responses

LEMMA NumberType ==
  ASSUME messageSeq \in 0 .. SeqCount - 1
  PROVE  NextMessageSeq = IF messageSeq = SeqCount - 1 THEN 0 ELSE messageSeq + 1
<1>0. SeqCount \in Nat /\ SeqCount > 0
  BY ConstantTypes
<1>1. CASE messageSeq = SeqCount - 1
  BY <1>0, <1>1 DEF NextMessageSeq
<1>2. CASE messageSeq # SeqCount - 1
  BY <1>0, <1>2 DEF NextMessageSeq
<1> QED  BY <1>1, <1>2

LEMMA InitPipe ==
  ASSUME Init
  PROVE  /\ pipe \in Seq(Chunks) /\ Len(pipe) <= MaxChunks
         /\ \A i \in 1 .. Len(pipe) :
              /\ pipe[i].kind = "response" /\ pipe[i].req = 0 /\ pipe[i].seq = NoSeq
              /\ pipe[i].part = MaxChunks + i - Len(pipe) /\ pipe[i].parts = MaxChunks
              /\ pipe[i].sofar = MaxChunks /\ ~pipe[i].bad
<1> DEFINE old == Frame(Owed(0, NoSeq), TRUE, FALSE, MaxChunks)
<1>1. PICK n \in 0 .. MaxChunks : pipe = SubSeq(old, n + 1, MaxChunks)
  BY Zenon DEF Init
<1>2. Owed(0, NoSeq) \in [req : Nat, seq : 0 .. SeqCount, seg : Nat, sofar : Nat]
  BY ConstantTypes DEF Owed, NoSeq
<1>3. MaxChunks \in 1 .. MaxChunks
  BY ConstantTypes
<1>4. /\ old \in Seq(Chunks) /\ Len(old) = MaxChunks
      /\ \A i \in 1 .. MaxChunks :
           old[i] = Chunk("response", Owed(0, NoSeq), TRUE, FALSE, i, MaxChunks)
  BY <1>2, <1>3, FrameType, Zenon
<1> HIDE DEF old
<1>5. \A i \in 1 .. MaxChunks :
        /\ old[i].kind = "response" /\ old[i].req = 0 /\ old[i].seq = NoSeq
        /\ old[i].part = i /\ old[i].parts = MaxChunks /\ old[i].sofar = MaxChunks
        /\ ~old[i].bad
  BY <1>4, ConstantTypes DEF Chunk, Owed
<1>6. n + 1 \in Nat /\ MaxChunks \in Nat /\ n + 1 >= 1
  BY ConstantTypes
<1>7. /\ pipe \in Seq(Chunks)
      /\ Len(pipe) = MaxChunks - n
      /\ \A i \in 1 .. MaxChunks - n : pipe[i] = old[n + i]
  BY <1>1, <1>4, <1>6
<1> QED  BY <1>5, <1>6, <1>7

LEMMA InitState == Init => StateOK /\ LimitInv
<1> SUFFICES ASSUME Init PROVE StateOK /\ LimitInv
  OBVIOUS
<1>1. MaxReads \in Nat
  BY ConstantTypes
<1>2. /\ pipe \in Seq(Chunks)
      /\ \A i \in 1 .. Len(pipe) : pipe[i].part \in 1 .. pipe[i].parts
  BY InitPipe, ConstantTypes
<1>3. 2 % SeqCount \in 0 .. SeqCount - 1
  BY ConstantTypes
<1>4. clean \in BOOLEAN
  BY DEF Init, Aligned
<1>5. /\ owed = {} /\ faults = 0 /\ messageSeq \in 0 .. SeqCount - 1
      /\ mode = "drain" /\ cur = 0 /\ expected = NoSeq
      /\ clock = "early" /\ pc = "top" /\ packet = <<>> /\ need = 0
      /\ collected = <<>> /\ total = 0 /\ outcome = "none"
      /\ reads = 0 /\ quiet = 0 /\ ignored = 0
      /\ staleSeq = NoSeq /\ staleFrames = 0 /\ staleTotal = 0
  BY <1>3 DEF Init
<1>6. TypeOK
  BY <1>1, <1>2, <1>4, <1>5, ConstantTypes DEF TypeOK, NoSeq
<1>7. StateOK
  BY <1>2, <1>5, <1>6 DEF StateOK
<1>8. LimitInv
  BY <1>5, ConstantTypes DEF LimitInv
<1> QED  BY <1>7, <1>8

LEMMA TailType ==
  ASSUME StateOK, pipe # <<>>
  PROVE  /\ Tail(pipe) \in Seq(Chunks) /\ Len(Tail(pipe)) = Len(pipe) - 1
         /\ Head(pipe) \in Chunks /\ Head(pipe) = pipe[1] /\ Len(pipe) \in Nat \ {0}
         /\ \A i \in 1 .. Len(pipe) - 1 : Tail(pipe)[i] = pipe[i + 1] /\ i + 1 \in 1 .. Len(pipe)
         /\ \A i \in 1 .. Len(Tail(pipe)) : Tail(pipe)[i].part \in 1 .. Tail(pipe)[i].parts
<1>1. pipe \in Seq(Chunks) /\ \A i \in 1 .. Len(pipe) : pipe[i].part \in 1 .. pipe[i].parts
  BY DEF StateOK, TypeOK
<1>2. /\ Tail(pipe) \in Seq(Chunks) /\ Len(Tail(pipe)) = Len(pipe) - 1
      /\ Head(pipe) \in Chunks /\ Head(pipe) = pipe[1] /\ Len(pipe) \in Nat \ {0}
      /\ \A i \in 1 .. Len(pipe) - 1 : Tail(pipe)[i] = pipe[i + 1] /\ i + 1 \in 1 .. Len(pipe)
  BY <1>1
<1> QED  BY <1>1, <1>2

\* The next frame of p, n chunks of it, is sent.
Sends(p, n) ==
  /\ pc = "read" /\ pipe = <<>> /\ UNCHANGED host
  /\ Fault \/ (UNCHANGED faults /\ \A i \in 1 .. n : ~pipe'[i].bad)
  /\ pipe' \in Seq(Chunks) /\ Len(pipe') = n
  /\ \A i \in 1 .. n :
       /\ pipe'[i].kind = "response" /\ pipe'[i].req = p.req /\ pipe'[i].seq = p.seq
       /\ pipe'[i].seg = p.seg /\ pipe'[i].sofar = p.sofar + n
       /\ pipe'[i].part = i /\ pipe'[i].parts = n
  /\ \/ owed' = owed \ {p}
     \/ p.seg # MaxSegments - 1 /\ owed' = (owed \ {p}) \cup {Advanced(p, n)}

LEMMA SendingStep ==
  ASSUME StateOK, DeviceSends
  PROVE  \E p \in owed, n \in 1 .. MaxChunks : Sends(p, n)
<1>1. PICK p \in owed, n \in 1 .. MaxChunks, final \in BOOLEAN, bad \in BOOLEAN :
        /\ Wanted
        /\ p.seg = MaxSegments - 1 => final
        /\ IF bad THEN Fault ELSE UNCHANGED faults
        /\ pipe' = Frame(p, final, bad, n)
        /\ owed' = (owed \ {p}) \cup
             IF final THEN {} ELSE {[p EXCEPT !.seg = @ + 1, !.sofar = @ + n]}
        /\ UNCHANGED host
  BY Zenon DEF DeviceSends
<1>2. p \in [req : Nat, seq : 0 .. SeqCount, seg : Nat, sofar : Nat]
  BY ConstantTypes DEF StateOK, Responses
<1>3. /\ pipe' \in Seq(Chunks) /\ Len(pipe') = n
      /\ \A i \in 1 .. n : pipe'[i] = Chunk("response", p, final, bad, i, n)
  <2>1. /\ Frame(p, final, bad, n) \in Seq(Chunks) /\ Len(Frame(p, final, bad, n)) = n
        /\ \A i \in 1 .. n :
             Frame(p, final, bad, n)[i] = Chunk("response", p, final, bad, i, n)
    BY <1>2, FrameType
  <2>2. pipe' = Frame(p, final, bad, n)
    BY <1>1
  <2> QED  BY <2>1, <2>2, Zenon
<1>4. \A i \in 1 .. n :
        /\ pipe'[i].kind = "response" /\ pipe'[i].req = p.req /\ pipe'[i].seq = p.seq
        /\ pipe'[i].seg = p.seg /\ pipe'[i].sofar = p.sofar + n
        /\ pipe'[i].part = i /\ pipe'[i].parts = n /\ pipe'[i].bad = bad
  BY <1>3 DEF Chunk
<1>5. Fault \/ (UNCHANGED faults /\ \A i \in 1 .. n : ~pipe'[i].bad)
  BY <1>1, <1>4, Zenon
<1>6. \/ owed' = owed \ {p}
      \/ p.seg # MaxSegments - 1 /\ owed' = (owed \ {p}) \cup {Advanced(p, n)}
  <2>1. CASE final
    BY <1>1, <2>1
  <2>2. CASE ~final
    BY <1>1, <2>2, Zenon DEF Advanced
  <2> QED  BY <2>1, <2>2
<1>7. pc = "read" /\ pipe = <<>> /\ UNCHANGED host
  BY <1>1 DEF Wanted
<1>8. Sends(p, n)
  BY <1>3, <1>4, <1>5, <1>6, <1>7 DEF Sends
<1> QED  BY <1>8

LEMMA ChatteringStep ==
  ASSUME StateOK, DeviceChatters
  PROVE  /\ Fault \/ (UNCHANGED faults /\ pipe'[1].kind = "ack")
         /\ UNCHANGED <<owed, host>> /\ pc = "read" /\ pipe = <<>>
         /\ pipe' \in Seq(Chunks) /\ Len(pipe') = 1
         /\ pipe'[1].kind # "response" /\ pipe'[1].seq = NoSeq /\ ~pipe'[1].bad
         /\ pipe'[1].part = 1 /\ pipe'[1].parts = 1 /\ pipe'[1].sofar = 1
<1>1. PICK kind \in {"ack", "other"} :
        /\ IF kind = "ack" THEN UNCHANGED faults ELSE Fault
        /\ pipe' = <<Chunk(kind, Owed(0, NoSeq), TRUE, FALSE, 1, 1)>>
  BY Zenon DEF DeviceChatters
<1>2. Chunk(kind, Owed(0, NoSeq), TRUE, FALSE, 1, 1) \in Chunks
  BY ConstantTypes DEF Chunk, Owed, NoSeq, Chunks
<1>3. pipe' \in Seq(Chunks) /\ Len(pipe') = 1
  <2> DEFINE c == Chunk(kind, Owed(0, NoSeq), TRUE, FALSE, 1, 1)
  <2>1. c \in Chunks /\ pipe' = <<c>>
    BY <1>1, <1>2, Zenon
  <2> HIDE DEF c
  <2> QED  BY <2>1
<1>4. /\ pipe'[1].kind = kind /\ kind # "response"
      /\ pipe'[1].seq = NoSeq /\ ~pipe'[1].bad
      /\ pipe'[1].part = 1 /\ pipe'[1].parts = 1 /\ pipe'[1].sofar = 1
  BY <1>1 DEF Chunk, Owed
<1>5. UNCHANGED <<owed, host>> /\ pc = "read" /\ pipe = <<>>
  BY DEF DeviceChatters, Wanted
<1>6. Fault \/ (UNCHANGED faults /\ pipe'[1].kind = "ack")
  BY <1>1, <1>4, Zenon
<1> QED  BY <1>3, <1>4, <1>5, <1>6, Zenon

\* A packet that adds nothing to the response and to the counts of a stale one.
Skips ==
  /\ Count /\ faults' \in 0 .. MaxFaults /\ ignored' \in {ignored, ignored + 1}
  /\ UNCHANGED <<collected, total, staleSeq, staleFrames, staleTotal>>
  /\ pc' \in {"top", "done"} /\ outcome' \in {outcome, "timeout", "failed", "invalid"}

LEMMA SkippingOK ==
  ASSUME StateOK, LimitInv, Skips
  PROVE  StateOK' /\ LimitInv'
<1> USE ConstantTypes
<1>1. /\ pc = "packet" /\ mode # "drain" /\ mode' = mode /\ reads' = reads + 1
      /\ reads \in Nat /\ reads < MaxReads /\ ignored \in Nat /\ ignored <= reads
  BY DEF Skips, Count, op, StateOK, LimitInv, ReadLimit
<1>2. LimitInv'
  BY <1>1 DEF Skips, Count, LimitInv
<1>3. reads' \in Nat /\ ignored' \in Nat /\ reads' <= MaxReads /\ ignored' <= MaxReads
  BY <1>1 DEF Skips
<1>4. StateOK'
  BY <1>1, <1>3 DEF Skips, Count, device, op, StateOK, TypeOK
<1> QED  BY <1>2, <1>4

LEMMA NextState == StateOK /\ LimitInv /\ [Next]_vars => StateOK' /\ LimitInv'
<1> SUFFICES ASSUME StateOK, LimitInv, [Next]_vars PROVE StateOK' /\ LimitInv'
  OBVIOUS
<1> USE ConstantTypes
<1>1. CASE DeviceSends
  <2>1. PICK p \in owed, n \in 1 .. MaxChunks : Sends(p, n)
    BY <1>1, SendingStep
  <2>2. /\ pipe' \in Seq(Chunks)
        /\ \A i \in 1 .. Len(pipe') : pipe'[i].part \in 1 .. pipe'[i].parts
    BY <2>1 DEF Sends
  <2>3. owed' \subseteq Responses
    BY <2>1, AdvancedType DEF Sends, StateOK
  <2>4. \A q \in owed' : q.req \in 1 .. MaxRequests /\ q.seg < MaxSegments
    BY <2>3 DEF Responses
  <2>5. faults' \in 0 .. MaxFaults
    BY <2>1 DEF Sends, Fault, StateOK, TypeOK
  <2>6. UNCHANGED host
    BY <2>1 DEF Sends
  <2>7. LimitInv'
    BY <2>6 DEF host, op, limits, LimitInv, ReadLimit
  <2>8. StateOK'
    BY <2>2, <2>3, <2>4, <2>5, <2>6 DEF host, op, limits, StateOK, TypeOK
  <2> QED  BY <2>7, <2>8
<1>2. CASE DeviceChatters
  <2>1. /\ pipe' \in Seq(Chunks) /\ (Fault \/ UNCHANGED faults) /\ UNCHANGED <<owed, host>>
        /\ \A i \in 1 .. Len(pipe') : pipe'[i].part \in 1 .. pipe'[i].parts
    <3>1. \A i \in 1 .. 1 : i = 1
      OBVIOUS
    <3> QED  BY <1>2, <3>1, ChatteringStep, Zenon
  <2> QED  BY <2>1 DEF Fault, host, op, limits, StateOK, TypeOK, LimitInv, ReadLimit
<1>3. CASE ClockAdvances
  BY <1>3 DEF ClockAdvances, device, op, limits, StateOK, TypeOK, LimitInv, ReadLimit
<1>4. ASSUME NEW m \in {"poll", "call"}, StartRequest(m)
      PROVE  StateOK' /\ LimitInv'
  <2>1. clean' \in BOOLEAN
    BY <1>4 DEF StartRequest, Aligned
  <2>2. messageSeq' \in 0 .. SeqCount - 1
    BY <1>4, NumberType DEF StartRequest, StateOK, TypeOK
  <2>3. Owed(cur + 1, messageSeq) \in Responses
    BY <1>4 DEF StartRequest, MayStart, Owed, Responses, StateOK, TypeOK
  <2>4. owed' \subseteq Responses
    BY <1>4, <2>3 DEF StartRequest, StateOK
  <2>5. \A p \in owed' : p.req \in 1 .. MaxRequests /\ p.seg < MaxSegments
    BY <2>4 DEF Responses
  <2> QED  BY <1>4, <2>1, <2>2, <2>4, <2>5 DEF StartRequest, MayStart, Fresh, NoSeq, StateOK, TypeOK,
             LimitInv, ReadLimit
<1>5. ASSUME NEW m \in {"poll", "call"}, WriteFails(m)
      PROVE  StateOK' /\ LimitInv'
  <2>1. clean' \in BOOLEAN
    BY <1>5 DEF WriteFails, Aligned
  <2> QED  BY <1>5, <2>1 DEF WriteFails, MayStart, Fault, Fresh, NoSeq, device, StateOK,
             TypeOK, LimitInv, ReadLimit
<1>6. CASE Top
  BY <1>6 DEF Top, Finish, device, op, limits, StateOK, TypeOK, LimitInv, ReadLimit
<1>7. CASE ReadChunk
  <2>1. /\ pipe' \in Seq(Chunks) /\ Head(pipe) \in Chunks /\ Head(pipe) = pipe[1]
        /\ Len(pipe') = Len(pipe) - 1 /\ \A i \in 1 .. Len(pipe') : pipe'[i] = pipe[i + 1]
        /\ \A i \in 1 .. Len(pipe') : pipe'[i].part \in 1 .. pipe'[i].parts
    BY <1>7, TailType DEF ReadChunk
  <2>2. packet' \in Seq(Chunks) /\ Len(packet') = Len(packet) + 1 /\ packet' # <<>>
    BY <1>7, <2>1 DEF ReadChunk, StateOK
  <2>3. need' \in 0 .. MaxChunks /\ Len(packet') <= MaxChunks
    <3>1. CASE packet = <<>>
      <4>1. Announced(Head(pipe)) \subseteq 0 .. MaxChunks
        BY <2>1 DEF Announced, Chunks
      <4>2. need' \in Announced(Head(pipe)) /\ Len(packet') = 1
        BY <1>7, <2>2, <3>1 DEF ReadChunk
      <4> QED  BY <4>1, <4>2
    <3>2. CASE packet # <<>>
      BY <1>7, <2>2, <3>2 DEF ReadChunk, LimitInv, StateOK, TypeOK
    <3> QED  BY <3>1, <3>2
  <2>4. StateOK'
    BY <1>7, <2>1, <2>2, <2>3 DEF ReadChunk, Finish, op, limits, StateOK, TypeOK
  <2>5. LimitInv'
    <3>1. Len(packet') \in Nat /\ need' \in Nat
      BY <2>2, <2>3
    <3> QED  BY <1>7, <2>2, <3>1 DEF ReadChunk, Finish, op, limits, LimitInv, ReadLimit
  <2> QED  BY <2>4, <2>5
<1>8. CASE ReadTimesOut
  <2>1. /\ UNCHANGED <<device, faults, messageSeq, op, clock, packet, need, collected, total,
                       ignored, staleSeq, staleFrames, staleTotal>>
        /\ pc = "read" /\ pc' \in {"top", "join", "done"}
        /\ outcome' \in {outcome, "short", "ok"}
    BY <1>8 DEF ReadTimesOut, Finish, Continue, limits
  <2>2. reads \in Nat /\ reads < ReadLimit /\ quiet \in 0 .. 1 /\ mode' = mode
    BY <2>1 DEF StateOK, TypeOK, LimitInv, op
  <2>3. /\ reads' \in {reads, reads + 1} /\ quiet' \in 0 .. 2
        /\ pc' = "top" => quiet' <= 1
    BY <1>8, <2>2 DEF ReadTimesOut, Finish, Continue, limits
  <2>4. LimitInv'
    BY <2>1, <2>2, <2>3 DEF StateOK, LimitInv
  <2>5. reads' \in Nat /\ reads' <= ReadLimit
    BY <2>2, <2>3
  <2>6. StateOK'
    BY <2>1, <2>2, <2>3, <2>5 DEF device, op, StateOK, TypeOK, ReadLimit
  <2> QED  BY <2>4, <2>6
<1>9. CASE ReadFails
  BY <1>9 DEF ReadFails, Fault, Finish, device, op, limits, StateOK, TypeOK, LimitInv, ReadLimit
<1>10. CASE CancelRead
  <2>1. /\ pipe' \in Seq(Chunks)
        /\ \A i \in 1 .. Len(pipe') : pipe'[i].part \in 1 .. pipe'[i].parts
    BY <1>10, TailType, Zenon DEF CancelRead, StateOK, TypeOK
  <2> QED  BY <1>10, <2>1 DEF CancelRead, Finish, op, limits, StateOK, TypeOK, LimitInv, ReadLimit
<1>11. CASE TakeAck
  <2>1. Skips
    BY <1>11, NumbersOK DEF TakeAck, Continue, Skips
  <2> QED  BY <2>1, SkippingOK
<1>12. CASE TakeOther
  <2>1. Skips
    BY <1>12, NumbersOK DEF TakeOther, ContinueUnlessIgnored, Continue, Finish, Skips
  <2> QED  BY <2>1, SkippingOK
<1>13. CASE TakeDamagedStale
  <2>1. faults' \in 0 .. MaxFaults
    BY <1>13, NumbersOK, ConstantTypes DEF TakeDamagedStale, Acknowledged, Fault
  <2>2. Skips
    BY <1>13, <2>1 DEF TakeDamagedStale, Acknowledged, ContinueUnlessIgnored, Continue,
         Finish, Skips
  <2> QED  BY <2>2, SkippingOK
<1>14. CASE TakeStale
  <2> DEFINE frames == 1 + StaleSoFar(staleFrames)
             size   == Len(packet) + StaleSoFar(staleTotal)
  <2>1. packet[1] \in Chunks /\ pc = "packet"
    BY <1>14 DEF TakeStale, Count, StateOK, LimitInv
  <2>2. frames \in 0 .. MaxFrames + 1 /\ size \in 0 .. MaxTotal + MaxChunks
    BY <2>1 DEF StaleSoFar, StateOK, TypeOK, LimitInv
  <2> HIDE DEF frames, size
  <2>3. /\ staleSeq' \in 0 .. SeqCount
        /\ staleFrames' \in 0 .. MaxFrames + 1 /\ staleTotal' \in 0 .. MaxTotal + MaxChunks
        /\ staleFrames' \in {0, frames} /\ staleTotal' \in {0, size}
    <3> DEFINE over == packet[1].final /\ frames <= MaxFrames /\ size <= MaxTotal
    <3>1. /\ staleSeq' = IF over THEN NoSeq ELSE packet[1].seq
          /\ staleFrames' = IF over THEN 0 ELSE frames
          /\ staleTotal' = IF over THEN 0 ELSE size
      BY <1>14 DEF TakeStale, frames, size
    <3>2. packet[1].seq \in 0 .. SeqCount
      BY <2>1 DEF Chunks
    <3> HIDE DEF over
    <3> QED  BY <2>2, <3>1, <3>2 DEF NoSeq
  <2>4. AfterStale(frames, size) \/ (Fault /\ Finish("failed"))
    BY <1>14 DEF TakeStale, Acknowledged, frames, size
  <2>5. \/ pc' = "done" /\ outcome' \in {"failed", "limit"}
        \/ pc' = "top" /\ UNCHANGED outcome /\ frames <= MaxFrames /\ size <= MaxTotal
    BY <2>2, <2>4 DEF AfterStale, Finish, Continue
  <2>6. faults' \in 0 .. MaxFaults
    BY <1>14 DEF TakeStale, Acknowledged, Fault, StateOK, TypeOK
  <2>7. Count /\ ignored' = ignored + 1 /\ UNCHANGED <<collected, total>>
    BY <1>14 DEF TakeStale
  <2>8. StateOK'
    <3>1. /\ mode # "drain" /\ mode' = mode /\ reads' = reads + 1
          /\ reads \in Nat /\ reads < MaxReads /\ ignored \in Nat /\ ignored <= reads
      BY <2>7 DEF Count, op, StateOK, LimitInv, ReadLimit
    <3>2. reads' \in Nat /\ ignored' \in Nat /\ reads' <= MaxReads /\ ignored' <= MaxReads
      BY <2>7, <3>1
    <3> QED  BY <2>2, <2>3, <2>5, <2>6, <2>7, <3>1, <3>2 DEF Count, device, op, StateOK, TypeOK
  <2>9. LimitInv'
    <3>1. /\ ignored \in Nat /\ reads \in Nat /\ ignored <= reads /\ pc = "packet"
          /\ Len(collected) <= MaxFrames
      BY <2>1 DEF StateOK, LimitInv
    <3>2. reads' = reads + 1 /\ quiet' = 0 /\ collected' = collected /\ ignored' = ignored + 1
      BY <2>7 DEF Count
    <3>3. staleFrames' \in {0, frames} /\ staleTotal' \in {0, size}
      BY <2>3
    <3>4. pc' = "top" => staleFrames' <= MaxFrames /\ staleTotal' <= MaxTotal
      BY <2>5, <3>3, CollectorAssumption
    <3> QED  BY <2>5, <3>1, <3>2, <3>4 DEF LimitInv
  <2> QED  BY <2>8, <2>9
<1>15. CASE TakeDamagedOwn
  <2>1. Skips
    BY <1>15, NumbersOK DEF TakeDamagedOwn, Finish, Skips
  <2> QED  BY <2>1, SkippingOK
<1>16. CASE TakeOwn
  <2>1. packet[1] \in Chunks /\ pc = "packet"
    BY <1>16 DEF TakeOwn, Count, StateOK, LimitInv
  <2>2. /\ collected' \in Seq(Chunks) /\ Len(collected') = Len(collected) + 1
        /\ Len(collected) <= MaxFrames /\ total' \in Nat
    BY <1>16, <2>1 DEF TakeOwn, StateOK, LimitInv
  <2>3. /\ faults' \in 0 .. MaxFaults
        /\ pc' \in {"top", "join", "done"} /\ outcome' \in {outcome, "failed", "limit"}
        /\ pc' = "top" => Len(collected') <= MaxFrames
    BY <1>16, <2>2 DEF TakeOwn, Acknowledged, Fault, Finish, Continue, StateOK, TypeOK
  <2>4. Count /\ UNCHANGED <<ignored, staleSeq, staleFrames, staleTotal>>
    BY <1>16 DEF TakeOwn
  <2>5. LimitInv'
    BY <2>1, <2>2, <2>3, <2>4 DEF Count, device, op, StateOK, LimitInv
  <2>6. StateOK'
    BY <2>1, <2>2, <2>3, <2>4 DEF Count, device, op, StateOK, TypeOK, LimitInv, ReadLimit
  <2> QED  BY <2>5, <2>6
<1>17. CASE TakeDrained
  <2>1. LimitInv'
    BY <1>17 DEF TakeDrained, Continue, device, op, StateOK, LimitInv
  <2>2. StateOK'
    BY <1>17 DEF TakeDrained, Continue, device, op, StateOK, TypeOK, LimitInv, ReadLimit
  <2> QED  BY <2>1, <2>2
<1>18. CASE Join
  BY <1>18 DEF Join, Finish, device, op, limits, StateOK, TypeOK, LimitInv, ReadLimit
<1>19. CASE UNCHANGED vars
  <2> USE <1>19 DEF vars, device, op, limits
  <2>1. TypeOK'    BY DEF StateOK, TypeOK
  <2>2. StateOK'   BY <2>1 DEF StateOK
  <2>3. LimitInv'  BY DEF LimitInv, ReadLimit
  <2> QED  BY <2>2, <2>3
<1> QED  BY <1>1, <1>2, <1>3, <1>4, <1>5, <1>6, <1>7, <1>8, <1>9, <1>10, <1>11, <1>12,
            <1>13, <1>14, <1>15, <1>16, <1>17, <1>18, <1>19 DEF Next

\* The limits of MotuUsbDatastore bound what a collection reads and keeps,
\* whatever the device sends.
THEOREM TypeCorrect == Spec => []TypeOK
<1>1. StateOK => TypeOK
  BY DEF StateOK
<1> QED  BY <1>1, InitState, NextState, PTL DEF Spec

-----------------------------------------------------------------------------
(* The steps that neither send nor start anything.                          *)

Collecting ==
  \/ ClockAdvances \/ Top \/ ReadChunk \/ ReadTimesOut \/ ReadFails \/ CancelRead
  \/ TakeAck \/ TakeOther \/ TakeDamagedStale \/ TakeStale
  \/ TakeDamagedOwn \/ TakeOwn \/ TakeDrained \/ Join
  \/ UNCHANGED vars

Taking ==
  TakeAck \/ TakeOther \/ TakeDamagedStale \/ TakeStale \/ TakeDamagedOwn \/ TakeOwn \/ TakeDrained

LEMMA TakingStep ==
  ASSUME Taking
  PROVE  /\ UNCHANGED <<owed, messageSeq, op, clock, pipe, packet, need>>
         /\ pc = "packet" /\ pc' \in {"top", "join", "done"}
         /\ Fault \/ UNCHANGED faults
         /\ outcome' = outcome \/ (pc' = "done" /\ outcome' # "ok")
         /\ UNCHANGED collected \/ TakeOwn
<1> USE DEF Count, Finish, Continue, device
<1>1. CASE TakeAck
  BY <1>1 DEF TakeAck
<1>2. CASE TakeOther
  BY <1>2 DEF TakeOther, ContinueUnlessIgnored
<1>3. CASE TakeDamagedStale
  BY <1>3 DEF TakeDamagedStale, Acknowledged, ContinueUnlessIgnored
<1>4. CASE TakeStale
  BY <1>4 DEF TakeStale, Acknowledged, AfterStale
<1>5. CASE TakeDamagedOwn
  BY <1>5 DEF TakeDamagedOwn
<1>6. CASE TakeOwn
  BY <1>6 DEF TakeOwn, Acknowledged
<1>7. CASE TakeDrained
  BY <1>7 DEF TakeDrained
<1> QED  BY <1>1, <1>2, <1>3, <1>4, <1>5, <1>6, <1>7 DEF Taking

LEMMA CollectingStep ==
  ASSUME StateOK, Collecting
  PROVE  /\ UNCHANGED <<owed, messageSeq, op>>
         /\ UNCHANGED pipe \/ (pipe # <<>> /\ pipe' = Tail(pipe))
         /\ Pending' \subseteq Pending
         /\ faults' = 0 => faults = 0
         /\ clock' = "early" => clock = "early"
         /\ outcome' = outcome \/ (pc' = "done" /\ pc # "done")
         /\ outcome' = "ok" => outcome = "ok" \/ Join \/ mode = "drain"
         /\ UNCHANGED collected \/ TakeOwn
         /\ pc = "done" => pc' = "done"
<1>0. pipe # <<>> =>
        /\ Head(pipe) = pipe[1] /\ 1 \in DOMAIN pipe
        /\ \A i \in DOMAIN Tail(pipe) : i + 1 \in DOMAIN pipe /\ Tail(pipe)[i] = pipe[i + 1]
  <2> SUFFICES ASSUME pipe # <<>>
               PROVE  /\ Head(pipe) = pipe[1] /\ 1 \in DOMAIN pipe
                      /\ \A i \in DOMAIN Tail(pipe) :
                           i + 1 \in DOMAIN pipe /\ Tail(pipe)[i] = pipe[i + 1]
    OBVIOUS
  <2>1. pipe \in Seq(Chunks)
    BY DEF StateOK
  <2> QED  BY <2>1
<1>a. faults \in Nat /\ packet \in Seq(Chunks)
  BY NumbersOK DEF StateOK
<1> USE <1>a DEF Finish, Continue, Fault, device, op, Pending
<1>1. CASE ClockAdvances
  BY <1>1 DEF ClockAdvances
<1>2. CASE Top
  <2>1. Pending' \subseteq Pending
    BY <1>2 DEF Top
  <2> HIDE DEF Pending
  <2> QED  BY <1>2, <2>1 DEF Top
<1>3. CASE ReadChunk
  <2>1. \A i \in DOMAIN pipe' : pipe'[i] \in Pending
    BY <1>3, <1>0 DEF ReadChunk
  <2>2. \A i \in DOMAIN packet' : packet'[i] \in Pending
    <3>1. packet' = Append(packet, pipe[1]) /\ 1 \in DOMAIN pipe
      BY <1>3, <1>0 DEF ReadChunk
    <3>2. \A i \in DOMAIN packet' : (i \in DOMAIN packet /\ packet'[i] = packet[i]) \/ packet'[i] = pipe[1]
      BY <3>1
    <3> QED  BY <1>3, <3>1, <3>2 DEF ReadChunk
  <2>3. Pending' \subseteq Pending
    BY <2>1, <2>2
  <2> HIDE DEF Pending
  <2> QED  BY <1>3, <2>3 DEF ReadChunk
<1>4. CASE ReadTimesOut
  BY <1>4 DEF ReadTimesOut
<1>5. CASE ReadFails
  BY <1>5 DEF ReadFails
<1>6. CASE CancelRead
  <2>1. \A i \in DOMAIN pipe' : pipe'[i] \in Pending
    BY <1>6, <1>0 DEF CancelRead
  <2> QED  BY <1>6, <2>1 DEF CancelRead
<1>7. CASE Taking
  BY <1>7, TakingStep
<1>8. CASE Join
  BY <1>8, Zenon DEF Join
<1>9. CASE UNCHANGED vars
  BY <1>9 DEF vars
<1> QED  BY <1>1, <1>2, <1>3, <1>4, <1>5, <1>6, <1>7, <1>8, <1>9, Zenon DEF Collecting, Taking

\* Every step sends, starts an operation, or collects.
LEMMA Steps ==
  ASSUME [Next]_vars
  PROVE  \/ DeviceSends \/ DeviceChatters
         \/ \E m \in {"poll", "call"} : StartRequest(m) \/ WriteFails(m)
         \/ Collecting
BY DEF Next, Collecting

-----------------------------------------------------------------------------
(* The sequence numbers in use, and whose response is collected.            *)

LEMMA AgeType ==
  ASSUME StateOK, NEW seq \in 0 .. SeqCount - 1
  PROVE  /\ Age(seq) \in 1 .. SeqCount
         /\ Age(seq) = SeqCount <=> seq = messageSeq
         /\ messageSeq' = messageSeq => Age(seq)' = Age(seq)
         /\ messageSeq' = NextMessageSeq =>
              Age(seq)' = IF seq = messageSeq THEN 1 ELSE Age(seq) + 1
<1>1. messageSeq \in 0 .. SeqCount - 1 /\ SeqCount \in Nat
  BY ConstantTypes DEF StateOK, TypeOK
<1>2. NextMessageSeq = IF messageSeq = SeqCount - 1 THEN 0 ELSE messageSeq + 1
  BY <1>1, NumberType
<1> QED  BY <1>1, <1>2 DEF Age

LEMMA PendingType ==
  ASSUME StateOK, NEW c \in Pending
  PROVE  c \in Chunks
BY DEF Pending, StateOK

LEMMA SendingPending ==
  ASSUME StateOK, NEW p \in owed, NEW n \in 1 .. MaxChunks, Sends(p, n)
  PROVE  \A c \in Pending' : c \in Pending \/ \E i \in 1 .. n : c = pipe'[i]
<1>1. /\ DOMAIN pipe' = 1 .. n /\ pc = "read" /\ pc' = pc /\ packet' = packet
  BY DEF Sends, host
<1>2. \A i \in DOMAIN packet : packet[i] \in Pending
  BY <1>1 DEF Pending
<1>3. \A c \in Pending' : (\E i \in 1 .. n : c = pipe'[i]) \/ \E i \in DOMAIN packet : c = packet[i]
  BY <1>1 DEF Pending
<1> QED  BY <1>2, <1>3

LEMMA ChatteringPending ==
  ASSUME StateOK, DeviceChatters
  PROVE  \A c \in Pending' : c \in Pending \/ c = pipe'[1]
<1>1. /\ DOMAIN pipe' = {1} /\ pc = "read" /\ pc' = pc /\ packet' = packet
  BY ChatteringStep DEF host
<1>2. \A i \in DOMAIN packet : packet[i] \in Pending
  BY <1>1 DEF Pending
<1>3. \A c \in Pending' : c = pipe'[1] \/ \E i \in DOMAIN packet : c = packet[i]
  BY <1>1 DEF Pending
<1> QED  BY <1>2, <1>3

LEMMA StartingPending ==
  ASSUME NEW m \in {"poll", "call"}, StartRequest(m) \/ WriteFails(m)
  PROVE  Pending' \subseteq Pending
BY DEF StartRequest, WriteFails, Fresh, Pending, device

LEMMA NextSeq ==
  ASSUME StateOK, StateOK', LimitInv, SeqInv, [Next]_vars
  PROVE  SeqInv'
<1> USE ConstantTypes
<1>1. ASSUME NEW p \in owed, NEW n \in 1 .. MaxChunks, Sends(p, n)
      PROVE  SeqInv'
  <2>1. /\ \A q \in owed' : (q = Advanced(p, n) /\ p.seg # MaxSegments - 1) \/ (q \in owed /\ q # p)
        /\ UNCHANGED <<messageSeq, cur>>
        /\ p \in Responses
    BY <1>1, Zenon DEF Sends, host, op, StateOK
  <2>2. p.seg # MaxSegments - 1 => Advanced(p, n).seq = p.seq
    BY <2>1, AdvancedType
  <2>3. \A q \in owed' : Age(q.seq) <= cur
    BY <2>1, <2>2 DEF SeqInv
  <2>4. \A c \in Pending' : c.seq # NoSeq => Age(c.seq) <= cur
    <3>1. /\ \A i \in 1 .. n : pipe'[i].seq = p.seq
          /\ \A c \in Pending' : c \in Pending \/ \E i \in 1 .. n : c = pipe'[i]
      BY <1>1, SendingPending, Zenon DEF Sends
    <3> QED  BY <3>1 DEF SeqInv
  <2>5. \A q, r \in owed' : q.seq = r.seq => q = r
    BY <2>1, <2>2 DEF SeqInv
  <2>6. \A seq : Age(seq)' = Age(seq)
    BY <2>1 DEF Age
  <2> QED  BY <2>1, <2>3, <2>4, <2>5, <2>6 DEF SeqInv, NoSeq
<1>2. CASE DeviceChatters
  <2>1. UNCHANGED <<messageSeq, cur, owed>> /\ pipe'[1].seq = NoSeq
    BY <1>2, ChatteringStep DEF host, op
  <2>2. \A seq : Age(seq)' = Age(seq)
    BY <2>1 DEF Age
  <2> QED  BY <1>2, <2>1, <2>2, ChatteringPending DEF SeqInv, NoSeq
<1>3. ASSUME NEW m \in {"poll", "call"}, StartRequest(m)
      PROVE  SeqInv'
  <2>1. /\ cur' = cur + 1 /\ cur \in Nat /\ cur < SeqCount
        /\ messageSeq' = NextMessageSeq /\ messageSeq \in 0 .. SeqCount - 1
        /\ owed' = owed \cup {Owed(cur + 1, messageSeq)}
    <3>1. cur \in Nat /\ messageSeq \in 0 .. SeqCount - 1
      BY NumbersOK
    <3> QED  BY <1>3, <3>1 DEF StartRequest, MayStart
  <2>2. \A seq \in 0 .. SeqCount - 1 :
          Age(seq) <= cur => seq # messageSeq /\ Age(seq)' <= cur'
    BY <2>1, AgeType
  <2>3. PICK fresh \in 0 .. SeqCount - 1 : fresh = messageSeq
    BY <2>1
  <2>4. Age(fresh)' = 1 /\ Owed(cur + 1, messageSeq).seq = fresh
    BY <2>1, <2>3, AgeType DEF Owed
  <2>5. \A q \in owed : q.seq \in 0 .. SeqCount - 1 /\ Age(q.seq) <= cur
    BY DEF StateOK, Responses, SeqInv
  <2>6. \A q \in owed' : Age(q.seq)' <= cur'
    BY <2>1, <2>2, <2>4, <2>5
  <2>7. \A c \in Pending : c.seq # NoSeq => Age(c.seq)' <= cur'
    BY <2>1, <2>2, PendingType DEF SeqInv, Chunks, NoSeq
  <2>8. \A q, r \in owed' : q.seq = r.seq => q = r
    BY <2>1, <2>2, <2>3, <2>4, <2>5 DEF SeqInv
  <2> QED  BY <1>3, <2>6, <2>7, <2>8, StartingPending DEF SeqInv, NoSeq
<1>4. ASSUME NEW m \in {"poll", "call"}, WriteFails(m)
      PROVE  SeqInv'
  <2>1. cur' = cur + 1 /\ cur \in Nat /\ UNCHANGED <<messageSeq, owed>>
    <3>1. cur \in Nat
      BY NumbersOK
    <3> QED  BY <1>4, <3>1 DEF WriteFails, device
  <2>2. \A seq \in 0 .. SeqCount - 1 : Age(seq) <= cur => Age(seq)' <= cur'
    BY <2>1, AgeType
  <2>3. \A q \in owed : q.seq \in 0 .. SeqCount - 1
    BY DEF StateOK, Responses
  <2>4. \A c \in Pending : c.seq # NoSeq => c.seq \in 0 .. SeqCount - 1
    BY PendingType DEF Chunks, NoSeq
  <2> QED  BY <1>4, <2>1, <2>2, <2>3, <2>4, StartingPending DEF SeqInv, NoSeq
<1>5. CASE Collecting
  <2>1. UNCHANGED <<messageSeq, cur, owed>> /\ Pending' \subseteq Pending
    BY <1>5, CollectingStep DEF op
  <2>2. \A seq : Age(seq)' = Age(seq)
    BY <2>1 DEF Age
  <2> QED  BY <2>1, <2>2 DEF SeqInv, NoSeq
<1> QED  BY <1>1, <1>2, <1>3, <1>4, <1>5, Steps, SendingStep

\* A number of the next request is not in use.
LEMMA FreshSeq ==
  ASSUME StateOK, SeqInv, cur < MaxRequests
  PROVE  /\ \A p \in owed : p.seq # messageSeq
         /\ \A c \in Pending : c.seq # messageSeq
<1>1. cur < SeqCount /\ messageSeq \in 0 .. SeqCount - 1 /\ cur \in Nat
  BY ConstantTypes DEF StateOK, TypeOK
<1>2. \A seq \in 0 .. SeqCount - 1 : Age(seq) <= cur => seq # messageSeq
  BY <1>1, AgeType, ConstantTypes
<1>3. \A p \in owed : p.seq \in 0 .. SeqCount - 1
  BY DEF StateOK, Responses
<1>4. \A c \in Pending : c.seq # NoSeq => c.seq \in 0 .. SeqCount - 1
  BY PendingType, ConstantTypes DEF Chunks, NoSeq
<1> QED  BY <1>1, <1>2, <1>3, <1>4 DEF SeqInv, NoSeq

LEMMA NextOwn ==
  ASSUME StateOK, LimitInv, SeqInv, OwnInv, [Next]_vars
  PROVE  OwnInv'
<1> USE ConstantTypes
<1>1. ASSUME NEW p \in owed, NEW n \in 1 .. MaxChunks, Sends(p, n)
      PROVE  OwnInv'
  <2>1. /\ \A q \in owed' : (q = Advanced(p, n) /\ p.seg # MaxSegments - 1) \/ q \in owed
        /\ UNCHANGED <<expected, mode, cur, pc, collected, outcome>>
        /\ p \in Responses
    BY <1>1, Zenon DEF Sends, host, op, StateOK
  <2>2. p.seg # MaxSegments - 1 => Advanced(p, n).seq = p.seq /\ Advanced(p, n).req = p.req
    BY <2>1, AdvancedType
  <2>3. pc # "done" => \A q \in owed' : q.seq = expected => q.req = cur
    BY <2>1, <2>2 DEF OwnInv
  <2>4. pc # "done" =>
          \A c \in Pending' : c.kind = "response" /\ c.seq = expected => c.req = cur
    <3>1. \A i \in 1 .. n : pipe'[i].seq = p.seq /\ pipe'[i].req = p.req
      BY <1>1 DEF Sends
    <3>2. \A c \in Pending' : c \in Pending \/ \E i \in 1 .. n : c = pipe'[i]
      BY <1>1, SendingPending
    <3> QED  BY <3>1, <3>2 DEF OwnInv
  <2> QED  BY <2>1, <2>3, <2>4, Zenon DEF OwnInv, NoSeq, ResponseIsOwn
<1>2. CASE DeviceChatters
  <2>1. UNCHANGED <<expected, mode, cur, pc, collected, outcome, owed>> /\ pipe'[1].kind # "response"
    BY <1>2, ChatteringStep, Zenon DEF host, op
  <2> QED  BY <1>2, <2>1, ChatteringPending DEF OwnInv, NoSeq, ResponseIsOwn
<1>3. ASSUME NEW m \in {"poll", "call"}, StartRequest(m)
      PROVE  OwnInv'
  <2>1. /\ cur' = cur + 1 /\ cur < MaxRequests /\ expected' = messageSeq
        /\ owed' = owed \cup {Owed(cur + 1, messageSeq)}
        /\ collected' = <<>> /\ outcome' = "none" /\ messageSeq # NoSeq
    <3>1. messageSeq # NoSeq
      BY DEF StateOK, TypeOK, NoSeq
    <3> QED  BY <1>3, <3>1 DEF StartRequest, MayStart, Fresh
  <2>2. /\ \A p \in owed : p.seq # messageSeq
        /\ \A c \in Pending' : c.seq # messageSeq
    BY <1>3, <2>1, FreshSeq, StartingPending
  <2>3. \A p \in owed' : p.seq = expected' => p.req = cur'
    BY <2>1, <2>2 DEF Owed
  <2>4. \A c \in Pending' : c.seq # expected'
    BY <2>1, <2>2
  <2>5. ResponseIsOwn' /\ expected' # NoSeq
    BY <2>1 DEF ResponseIsOwn, NoSeq
  <2> QED  BY <2>1, <2>3, <2>4, <2>5 DEF OwnInv, NoSeq
<1>4. ASSUME NEW m \in {"poll", "call"}, WriteFails(m)
      PROVE  OwnInv'
  BY <1>4, Zenon DEF WriteFails, OwnInv, ResponseIsOwn
<1>5. CASE Collecting
  <2>1. /\ UNCHANGED <<owed, expected, mode, cur>> /\ Pending' \subseteq Pending
        /\ pc = "done" => pc' = "done"
        /\ outcome' = outcome \/ (pc' = "done" /\ pc # "done")
        /\ outcome' = "ok" => outcome = "ok" \/ Join \/ mode = "drain"
        /\ UNCHANGED collected \/ TakeOwn
    BY <1>5, CollectingStep DEF op
  <2>2. pc' # "done" => \A i \in DOMAIN collected' : collected'[i].req = cur
    <3>1. CASE TakeOwn
      <4>1. /\ packet[1] \in Pending /\ packet[1].kind = "response" /\ packet[1].seq = expected
            /\ collected' = Append(collected, packet[1]) /\ packet[1] \in Chunks
        <5>1. /\ pc = "packet" /\ packet[1].kind = "response" /\ packet[1].seq = expected
              /\ collected' = Append(collected, packet[1])
          BY <3>1, Zenon DEF TakeOwn, Count, IsOwn, IsStale, IsResponse
        <5>2. 1 \in DOMAIN packet /\ packet[1] \in Chunks
          BY <5>1 DEF LimitInv, StateOK
        <5> QED  BY <5>1, <5>2 DEF Pending
      <4>2. packet[1].req = cur
        BY <3>1, <4>1, Zenon DEF OwnInv, TakeOwn, Count
      <4>3. \A i \in DOMAIN collected : collected[i].req = cur
        BY <3>1, Zenon DEF OwnInv, TakeOwn, Count
      <4> QED  BY <4>1, <4>2, <4>3 DEF StateOK
    <3>2. CASE UNCHANGED collected
      BY <2>1, <3>2 DEF OwnInv
    <3> QED  BY <2>1, <3>1, <3>2
  <2>3. ResponseIsOwn'
    <3> SUFFICES ASSUME outcome' = "ok", mode # "drain"
                 PROVE  /\ collected' # <<>> /\ collected'[Len(collected')].final
                        /\ \A i \in 1 .. Len(collected') :
                             collected'[i].req = cur /\ collected'[i].seg = i - 1
      BY <2>1 DEF ResponseIsOwn
    <3>1. CASE outcome = "ok"
      BY <2>1, <3>1, Zenon DEF OwnInv, ResponseIsOwn, TakeOwn, Count
    <3>2. CASE Join
      <4>1. UNCHANGED collected /\ collected # <<>> /\ InOrder(collected) /\ pc # "done"
        BY <3>2 DEF Join, Finish
      <4>2. Len(collected) \in Nat \ {0} /\ DOMAIN collected = 1 .. Len(collected)
        BY <4>1 DEF StateOK
      <4>3. \A i \in 1 .. Len(collected) : collected[i].req = cur /\ collected[i].seg = i - 1
        BY <4>1, <4>2, Zenon DEF InOrder, OwnInv
      <4>4. Len(collected) \in 1 .. Len(collected)
        BY <4>2
      <4>5. collected[Len(collected)].final
        BY <4>1, <4>4, Zenon DEF InOrder
      <4> QED  BY <4>1, <4>3, <4>5
    <3> QED  BY <2>1, <3>1, <3>2, Zenon
  <2> QED  BY <2>1, <2>2, <2>3, Zenon DEF OwnInv, NoSeq
<1> QED  BY <1>1, <1>2, <1>3, <1>4, <1>5, Steps, SendingStep

LEMMA InitPending ==
  ASSUME Init
  PROVE  /\ owed = {} /\ pc = "top" /\ mode = "drain" /\ expected = NoSeq /\ cur = 0
         /\ collected = <<>> /\ outcome = "none"
         /\ \A c \in Pending : \E i \in 1 .. Len(pipe) : c = pipe[i]
<1>1. StateOK
  BY InitState
<1>2. /\ owed = {} /\ pc = "top" /\ mode = "drain" /\ expected = NoSeq /\ cur = 0
      /\ collected = <<>> /\ outcome = "none"
  BY DEF Init
<1>3. pipe \in Seq(Chunks)
  BY <1>1 DEF StateOK
<1>4. DOMAIN pipe = 1 .. Len(pipe)
  BY <1>3
<1> QED  BY <1>2, <1>4 DEF Pending

LEMMA InitInv == Init => Inv
<1> SUFFICES ASSUME Init PROVE Inv
  OBVIOUS
<1>1. StateOK /\ LimitInv
  BY InitState
<1>2. SeqInv
  BY InitPending, InitPipe, Zenon DEF SeqInv
<1>3. OwnInv
  <2>1. ResponseIsOwn
    BY InitPending DEF ResponseIsOwn
  <2>2. \A c \in Pending : c.kind = "response" /\ c.seq = expected => c.req = cur
    BY InitPending, InitPipe
  <2>3. \A i \in DOMAIN collected : collected[i].req = cur
    BY InitPending
  <2> QED  BY <2>1, <2>2, <2>3, InitPending DEF OwnInv
<1> QED  BY <1>1, <1>2, <1>3 DEF Inv

LEMMA NextInv == Inv /\ [Next]_vars => Inv'
<1> SUFFICES ASSUME Inv, [Next]_vars PROVE Inv'
  OBVIOUS
<1>1. StateOK /\ LimitInv /\ SeqInv /\ OwnInv
  BY DEF Inv
<1>2. StateOK' /\ LimitInv'
  BY <1>1, NextState
<1> QED  BY <1>1, <1>2, NextSeq, NextOwn DEF Inv

\* _collect_response returns the response to its own request and nothing else,
\* however many requests were cancelled, timed out or failed before it, in a
\* session with fewer requests than there are message sequence numbers (2^32).
THEOREM CollectsOwnResponse == Spec => []ResponseIsOwn
<1>1. Inv => ResponseIsOwn
  BY DEF Inv, OwnInv
<1> QED  BY <1>1, InitInv, NextInv, PTL DEF Spec
=============================================================================
