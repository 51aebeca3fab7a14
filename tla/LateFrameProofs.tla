-------------------------- MODULE LateFrameProofs --------------------------
(***************************************************************************)
(* When MotuUsbDatastore fails: the frames of earlier responses that reach *)
(* it late do no harm, however many there are and however they are cut.    *)
(***************************************************************************)
EXTENDS ResponseCollectorProofs

\* A leaf of these proofs takes the SMT solver a second or less, on a busy machine
\* more; the leaves that need Zenon say so.
USE SMTT(30)

\* A chunk of a sound device that the host knows what to do with.
Expectable(c) == ~c.bad /\ (c.kind = "response" \/ (c.kind = "ack" /\ c.seq = NoSeq))

\* The pipe holds the end of one frame, the last one sent of its response.
PipeInv ==
  /\ \A i \in DOMAIN pipe :
       /\ pipe[i].part = pipe[i].parts + i - Len(pipe) /\ Len(pipe) <= pipe[i].parts
       /\ pipe[i].parts <= pipe[i].sofar
       /\ \A p \in owed : pipe[i].seq = p.seq => p.seg = pipe[i].seg + 1 /\ p.sofar = pipe[i].sofar
  /\ \A i, j \in DOMAIN pipe : pipe[i].seq = pipe[j].seq
  /\ faults = 0 => \A c \in Pending : Expectable(c)

\* Nothing has gone wrong in this collection.
Sound == mode # "drain" /\ clean /\ faults = 0 /\ clock = "early"

\* A frame is taken whole ...
FrameInv ==
  /\ pc \in {"top", "join"} \/ (pc = "read" /\ packet = <<>>) => Aligned
  /\ pc = "packet" \/ (pc = "read" /\ packet # <<>>) =>
       /\ packet[1].part = 1 /\ packet[1].parts = need
       /\ packet[1].parts <= packet[1].sofar
       /\ Len(packet) + Len(pipe) = need
       /\ \A c \in Pending : c.seq = packet[1].seq
       /\ \A i \in DOMAIN packet, p \in owed :
            packet[i].seq = p.seq => p.seg = packet[i].seg + 1 /\ p.sofar = packet[i].sofar

\* ... and follows the ones that were taken before it.
OrderInv ==
  /\ pc # "done" =>
       /\ \A i \in DOMAIN collected : collected[i].seg = i - 1
       /\ \A c \in Pending : c.kind = "response" /\ c.seq = expected =>
            c.seg = Len(collected) /\ c.sofar = total + c.parts
       /\ \A p \in owed : p.seq = expected /\ (\A c \in Pending : c.seq # expected) =>
            p.seg = Len(collected) /\ p.sofar = total
       /\ \A c \in Pending : c.kind = "response" /\ c.seq = staleSeq =>
            staleFrames <= c.seg /\ staleTotal + c.parts <= c.sofar
       /\ \A p \in owed : p.seq = staleSeq =>
            staleFrames <= p.seg /\ staleTotal <= p.sofar
  /\ pc \in {"top", "read", "packet"} => \A i \in DOMAIN collected : ~collected[i].final
  /\ pc = "join" => collected # <<>> /\ InOrder(collected)

SoundInv == (Sound => FrameInv /\ OrderInv) /\ LateFramesAreHarmless

LateInv == Inv /\ PipeInv /\ SoundInv

-----------------------------------------------------------------------------
(* The pipe.                                                                *)

LEMMA FaultCounts ==
  ASSUME StateOK, Fault
  PROVE  faults' # 0
BY DEF Fault, StateOK, TypeOK

LEMMA NextPipe ==
  ASSUME StateOK, LimitInv, SeqInv, PipeInv, [Next]_vars
  PROVE  PipeInv'
<1> USE ConstantTypes
<1>1. ASSUME NEW p \in owed, NEW n \in 1 .. MaxChunks, Sends(p, n)
      PROVE  PipeInv'
  <2>1. /\ \A q \in owed' : (q = Advanced(p, n) /\ p.seg # MaxSegments - 1) \/ (q \in owed /\ q # p)
        /\ p \in Responses /\ DOMAIN pipe' = 1 .. n /\ Len(pipe') = n
    BY <1>1 DEF Sends, StateOK
  <2>2. p.seg # MaxSegments - 1 =>
          Advanced(p, n).seg = p.seg + 1 /\ Advanced(p, n).sofar = p.sofar + n
    BY <2>1, AdvancedType
  <2>3. \A q \in owed' : q.seq = p.seq => q.seg = p.seg + 1 /\ q.sofar = p.sofar + n
    BY <2>1, <2>2 DEF SeqInv
  <2>4. \A i \in DOMAIN pipe' :
          /\ pipe'[i].part = pipe'[i].parts + i - Len(pipe') /\ Len(pipe') <= pipe'[i].parts
          /\ pipe'[i].parts <= pipe'[i].sofar
          /\ \A q \in owed' :
               pipe'[i].seq = q.seq => q.seg = pipe'[i].seg + 1 /\ q.sofar = pipe'[i].sofar
    BY <1>1, <2>1, <2>3 DEF Sends, Responses
  <2>5. faults' = 0 => \A c \in Pending' : Expectable(c)
    <3>1. Fault => faults' # 0
      BY FaultCounts
    <3>2. faults' = 0 => faults = 0 /\ \A i \in 1 .. n : pipe'[i].kind = "response" /\ ~pipe'[i].bad
      BY <1>1, <3>1, Zenon DEF Sends
    <3>3. \A c \in Pending' : c \in Pending \/ \E i \in 1 .. n : c = pipe'[i]
      BY <1>1, SendingPending
    <3>4. faults' = 0 => \A i \in 1 .. n : Expectable(pipe'[i])
      BY <3>2 DEF Expectable
    <3>5. faults' = 0 => \A c \in Pending : Expectable(c)
      BY <3>2 DEF PipeInv
    <3> QED  BY <3>3, <3>4, <3>5, Zenon
  <2>6. \A i, j \in DOMAIN pipe' : pipe'[i].seq = pipe'[j].seq
    BY <1>1, <2>1 DEF Sends
  <2> QED  BY <2>4, <2>5, <2>6 DEF PipeInv
<1>2. CASE DeviceChatters
  <2>1. /\ \A i \in DOMAIN pipe' : i = 1
        /\ Len(pipe') = 1 /\ pipe'[1].seq = NoSeq /\ UNCHANGED owed
        /\ pipe'[1].part = 1 /\ pipe'[1].parts = 1 /\ pipe'[1].sofar = 1
    BY <1>2, ChatteringStep
  <2>2. \A q \in owed : q.seq # NoSeq
    BY DEF StateOK, Responses, NoSeq
  <2>3. faults' = 0 => \A c \in Pending' : Expectable(c)
    <3>1. faults' = 0 => faults = 0 /\ Expectable(pipe'[1])
      BY <1>2, ChatteringStep, FaultCounts, Zenon DEF Expectable
    <3> QED  BY <1>2, <3>1, ChatteringPending, Zenon DEF PipeInv
  <2> QED  BY <2>1, <2>2, <2>3 DEF PipeInv
<1>3. ASSUME NEW m \in {"poll", "call"}, StartRequest(m)
      PROVE  PipeInv'
  <2>1. /\ cur < MaxRequests /\ UNCHANGED <<pipe, faults>>
        /\ owed' = owed \cup {Owed(cur + 1, messageSeq)}
    BY <1>3 DEF StartRequest, MayStart
  <2>2. \A i \in DOMAIN pipe : pipe[i].seq # messageSeq
    BY <2>1, FreshSeq DEF Pending
  <2> QED  BY <1>3, <2>1, <2>2, StartingPending DEF PipeInv, Owed
<1>4. ASSUME NEW m \in {"poll", "call"}, WriteFails(m)
      PROVE  PipeInv'
  BY <1>4, StartingPending DEF WriteFails, device, Fault, StateOK, TypeOK, PipeInv
<1>5. CASE Collecting
  <2>1. /\ UNCHANGED owed /\ Pending' \subseteq Pending
        /\ UNCHANGED pipe \/ (pipe # <<>> /\ pipe' = Tail(pipe))
        /\ faults' = 0 => faults = 0
    BY <1>5, CollectingStep
  <2>2. CASE UNCHANGED pipe
    BY <2>1, <2>2 DEF PipeInv
  <2>3. CASE pipe # <<>> /\ pipe' = Tail(pipe)
    <3>1. /\ Len(pipe') = Len(pipe) - 1 /\ Len(pipe) \in Nat
          /\ \A i \in DOMAIN pipe' : i \in Nat /\ i + 1 \in DOMAIN pipe /\ pipe'[i] = pipe[i + 1]
      BY <2>3 DEF StateOK
    <3>2. \A i \in DOMAIN pipe : pipe[i].parts \in Nat
      <4>1. \A i \in DOMAIN pipe : pipe[i] \in Chunks
        BY DEF StateOK
      <4> QED  BY <4>1 DEF Chunks
    <3>3. \A i \in DOMAIN pipe' :
            /\ pipe'[i].part = pipe'[i].parts + i - Len(pipe') /\ Len(pipe') <= pipe'[i].parts
            /\ pipe'[i].parts <= pipe'[i].sofar
            /\ \A q \in owed' :
                 pipe'[i].seq = q.seq => q.seg = pipe'[i].seg + 1 /\ q.sofar = pipe'[i].sofar
      BY <2>1, <3>1, <3>2 DEF PipeInv
    <3>4. \A i, j \in DOMAIN pipe' : pipe'[i].seq = pipe'[j].seq
      BY <3>1 DEF PipeInv
    <3>5. faults' = 0 => \A c \in Pending' : Expectable(c)
      BY <2>1 DEF PipeInv
    <3> QED  BY <3>3, <3>4, <3>5 DEF PipeInv
  <2> QED  BY <2>1, <2>2, <2>3
<1> QED  BY <1>1, <1>2, <1>3, <1>4, <1>5, Steps, SendingStep

-----------------------------------------------------------------------------
(* A collection in which nothing goes wrong.                                *)

\* The ways in which such a collection may end.
EndsWell ==
  \/ outcome \in {"ok", "closed", "cancelled"}
  \/ outcome = "limit" /\ (packet[1].seg >= MaxFrames \/ packet[1].sofar > MaxTotal)
  \/ outcome = "timeout" /\ reads = MaxReads

LEMMA SoundMeaning == LateFramesAreHarmless <=> (pc = "done" /\ Sound => EndsWell)
BY DEF LateFramesAreHarmless, Sound, EndsWell

\* A step that ends the collection has only to end it well.
LEMMA SoundEnd ==
  ASSUME pc' = "done", Sound' => EndsWell'
  PROVE  SoundInv'
<1>1. LateFramesAreHarmless'
  BY SoundMeaning, PTL
<1> QED  BY <1>1 DEF SoundInv, FrameInv, OrderInv

LEMMA Unsound ==
  ASSUME ~Sound'
  PROVE  SoundInv'
<1>1. LateFramesAreHarmless'
  BY SoundMeaning, PTL
<1> QED  BY <1>1 DEF SoundInv

\* The packet taken is an acknowledgement or one whole frame of a response.
LEMMA SoundPacket ==
  ASSUME StateOK, LimitInv, PipeInv, SoundInv, Sound, pc = "packet"
  PROVE  /\ packet[1] \in Chunks /\ packet[1] \in Pending
         /\ IsResponse \/ (IsAck /\ packet[1].seq = NoSeq)
         /\ Parses
         /\ Len(packet) = packet[1].parts /\ packet[1].parts <= packet[1].sofar
         /\ pipe = <<>>
         /\ \A c \in Pending : c.seq = packet[1].seq
         /\ \A p \in owed : p.seq = packet[1].seq =>
              p.seg = packet[1].seg + 1 /\ p.sofar = packet[1].sofar
<1>1. FrameInv /\ faults = 0
  BY DEF SoundInv, Sound
<1>2. packet # <<>> /\ need <= Len(packet) /\ packet \in Seq(Chunks) /\ pipe \in Seq(Chunks)
  BY DEF LimitInv, StateOK
<1>3. 1 \in DOMAIN packet /\ packet[1] \in Chunks /\ Len(packet) \in Nat /\ Len(pipe) \in Nat
  BY <1>2
<1>4. packet[1] \in Pending
  BY <1>3 DEF Pending
<1>5. Expectable(packet[1])
  BY <1>1, <1>4 DEF PipeInv
<1>6. /\ packet[1].part = 1 /\ packet[1].parts = need /\ packet[1].parts <= packet[1].sofar
      /\ Len(packet) + Len(pipe) = need
      /\ \A c \in Pending : c.seq = packet[1].seq
      /\ \A p \in owed : p.seq = packet[1].seq =>
           p.seg = packet[1].seg + 1 /\ p.sofar = packet[1].sofar
  BY <1>1, <1>3 DEF FrameInv
<1>7. Len(packet) = need /\ Len(pipe) = 0
  BY <1>2, <1>3, <1>6 DEF StateOK, TypeOK
<1>8. pipe = <<>>
  BY <1>2, <1>7
<1>9. (IsResponse \/ (IsAck /\ packet[1].seq = NoSeq)) /\ Parses
  BY <1>5, <1>6, Zenon DEF Expectable, IsResponse, Parses, IsAck
<1> QED  BY <1>3, <1>4, <1>6, <1>7, <1>8, <1>9

LEMMA SoundStart ==
  ASSUME StateOK, SeqInv, PipeInv, NEW m \in {"poll", "call"}, StartRequest(m)
  PROVE  SoundInv'
<1>1. /\ cur < MaxRequests /\ UNCHANGED pipe /\ expected' = messageSeq /\ clean' = Aligned
      /\ owed' = owed \cup {Owed(cur + 1, messageSeq)}
      /\ collected' = <<>> /\ total' = 0 /\ pc' = "top" /\ packet' = <<>>
      /\ staleSeq' = NoSeq /\ staleFrames' = 0 /\ staleTotal' = 0
  BY DEF StartRequest, MayStart, Fresh
<1>2. Sound' => Aligned'
  BY <1>1, Zenon DEF Sound, Aligned
<1>3. /\ \A p \in owed : p.seq # messageSeq
      /\ \A c \in Pending' : c.seq # messageSeq
  BY <1>1, FreshSeq, StartingPending
<1>4. \A c \in Pending' : c \in Chunks /\ c.parts <= c.sofar
  BY <1>1 DEF Pending, PipeInv, StateOK
<1>5. \A c \in Pending' : c.seg \in Nat /\ c.parts \in Nat
  BY <1>4, ConstantTypes DEF Chunks
<1>6. \A p \in owed : p.seg \in Nat /\ p.sofar \in Nat
  BY ConstantTypes DEF StateOK, Responses
<1>7. OrderInv'
  BY <1>1, <1>3, <1>4, <1>5, <1>6 DEF OrderInv, Owed
<1>8. Sound' => FrameInv'
  BY <1>1, <1>2, Zenon DEF FrameInv
<1> QED  BY <1>1, <1>7, <1>8 DEF SoundInv, LateFramesAreHarmless

LEMMA SoundSends ==
  ASSUME StateOK, LimitInv, SeqInv, SoundInv, NEW p \in owed, NEW n \in 1 .. MaxChunks, Sends(p, n)
  PROVE  SoundInv'
<1>0. /\ pc = "read" /\ pipe = <<>> /\ UNCHANGED host
      /\ UNCHANGED <<mode, clean, clock, pc, packet, need, collected, total, expected,
                     staleSeq, staleFrames, staleTotal>>
      /\ faults' = 0 => faults = 0
  BY DEF Sends, host, op, limits, Fault, StateOK, TypeOK
<1> SUFFICES ASSUME Sound' PROVE FrameInv' /\ OrderInv'
  BY <1>0 DEF SoundInv, LateFramesAreHarmless
<1>1. FrameInv /\ OrderInv
  BY <1>0 DEF Sound, SoundInv
<1>2. packet = <<>> /\ Pending = {}
  BY <1>0, <1>1 DEF FrameInv, LimitInv, StateOK, TypeOK, Pending
<1>3. \A c \in Pending' : \E i \in 1 .. n : c = pipe'[i]
  BY <1>2, SendingPending
<1>4. FrameInv'
  BY <1>0, <1>2 DEF FrameInv, Aligned, Sends
<1>5. p \in Responses /\ p.sofar \in Nat /\ p.seg \in Nat /\ n \in Nat
  BY ConstantTypes DEF StateOK, Responses
<1>6. \A c \in Pending' : /\ c.seq = p.seq /\ c.seg = p.seg
                          /\ c.sofar = p.sofar + n /\ c.parts = n
  BY <1>3 DEF Sends
<1>7. \A c \in Pending' : c.seq = expected => c.seg = Len(collected) /\ c.sofar = total + c.parts
  BY <1>0, <1>1, <1>2, <1>6 DEF OrderInv
<1>8. \A c \in Pending' : c.seq = staleSeq =>
        staleFrames <= c.seg /\ staleTotal + c.parts <= c.sofar
  BY <1>0, <1>1, <1>5, <1>6 DEF OrderInv, StateOK
<1>9. \A q \in owed' :
        \/ q \in owed
        \/ q.seq = p.seq /\ q.seg = p.seg + 1 /\ q.sofar = p.sofar + n
  BY <1>5, AdvancedType DEF Sends
<1>10. pipe'[1] \in Pending' /\ pipe'[1].seq = p.seq
  BY ConstantTypes DEF Sends, Pending
<1>11. \A q \in owed' : q.seq = expected /\ (\A c \in Pending' : c.seq # expected) =>
         q.seg = Len(collected) /\ q.sofar = total
  BY <1>0, <1>1, <1>2, <1>9, <1>10 DEF OrderInv
<1>12. \A q \in owed' : q.seq = staleSeq => staleFrames <= q.seg /\ staleTotal <= q.sofar
  BY <1>0, <1>1, <1>5, <1>9 DEF OrderInv, StateOK
<1>13. OrderInv'
  BY <1>0, <1>1, <1>7, <1>8, <1>11, <1>12 DEF OrderInv
<1> QED  BY <1>4, <1>13

LEMMA SoundChatters ==
  ASSUME StateOK, LimitInv, SoundInv, DeviceChatters
  PROVE  SoundInv'
<1>0. /\ pc = "read" /\ pipe = <<>> /\ Len(pipe') = 1 /\ pipe'[1].part = 1
      /\ UNCHANGED <<owed, mode, clean, clock, pc, packet, need, collected, total, expected,
                     staleSeq, staleFrames, staleTotal>>
      /\ faults' = 0 => faults = 0
      /\ pipe'[1].kind # "response" /\ pipe'[1].seq = NoSeq /\ pipe' \in Seq(Chunks)
  BY ChatteringStep, FaultCounts DEF host, op, limits
<1> SUFFICES ASSUME Sound' PROVE FrameInv' /\ OrderInv'
  BY <1>0 DEF SoundInv, LateFramesAreHarmless
<1>1. FrameInv /\ OrderInv
  BY <1>0 DEF Sound, SoundInv
<1>2. packet = <<>> /\ Pending = {}
  BY <1>0, <1>1 DEF FrameInv, LimitInv, StateOK, TypeOK, Pending
<1>3. \A c \in Pending' : c.kind # "response" /\ c.seq = NoSeq
  BY <1>0, <1>2, ChatteringPending
<1>4. FrameInv'
  BY <1>0, <1>2 DEF FrameInv, Aligned
<1>5. OrderInv'
  BY <1>0, <1>1, <1>2, <1>3, Zenon DEF OrderInv
<1> QED  BY <1>4, <1>5

\* An acknowledgement is taken and changes nothing.
LEMMA SoundAck ==
  ASSUME StateOK, LimitInv, PipeInv, SoundInv, TakeAck, Sound
  PROVE  pc' # "done" /\ FrameInv' /\ OrderInv'
<1>1. /\ pc = "packet" /\ pc' = "top" /\ OrderInv /\ IsAck
      /\ UNCHANGED <<owed, expected, pipe, packet, collected, total, staleSeq, staleFrames,
                     staleTotal>>
  BY DEF TakeAck, Count, Continue, SoundInv, device, op
<1>2. pipe = <<>> /\ \A c \in Pending : c.seq = NoSeq
  BY <1>1, SoundPacket DEF IsAck, IsResponse
<1>3. Pending' = {} /\ FrameInv'
  BY <1>1, <1>2 DEF Pending, FrameInv, Aligned
<1>4. \A p \in owed : p.seq # NoSeq
  BY ConstantTypes DEF StateOK, Responses, NoSeq
<1>5. \A p \in owed : p.seq = expected => p.seg = Len(collected) /\ p.sofar = total
  BY <1>1, <1>2, <1>4, Zenon DEF OrderInv
<1>6. OrderInv'
  BY <1>1, <1>3, <1>5, Zenon DEF OrderInv
<1> QED  BY <1>1, <1>3, <1>6

LEMMA SoundReads ==
  ASSUME StateOK, LimitInv, PipeInv, SoundInv, ReadChunk, Sound
  PROVE  pc' # "done" /\ FrameInv' /\ OrderInv'
<1>1. FrameInv /\ OrderInv
  BY DEF SoundInv
<1>2. /\ pc = "read" /\ pipe # <<>> /\ pipe' = Tail(pipe) /\ Head(pipe) = pipe[1]
      /\ packet' = Append(packet, pipe[1])
      /\ UNCHANGED <<owed, expected, collected, total, staleSeq, staleFrames, staleTotal>>
  BY DEF ReadChunk, StateOK, op, limits
<1>3. /\ pipe \in Seq(Chunks) /\ packet \in Seq(Chunks) /\ pipe[1] \in Chunks
      /\ Len(pipe) \in Nat \ {0} /\ Len(packet) \in Nat
      /\ Len(pipe') = Len(pipe) - 1 /\ Len(packet') = Len(packet) + 1
      /\ 1 \in DOMAIN pipe
  BY <1>2 DEF StateOK
<1>4. \A i \in DOMAIN packet' : (i \in DOMAIN packet /\ packet'[i] = packet[i]) \/ packet'[i] = pipe[1]
  BY <1>2, <1>3
<1>5. pipe[1].parts \in Nat \ {0} /\ pipe[1].part = pipe[1].parts + 1 - Len(pipe)
  <2>1. pipe[1].parts \in Nat \ {0}
    <3>1. pipe[1] \in Chunks
      BY <1>3
    <3> QED  BY <3>1, ConstantTypes DEF Chunks
  <2>2. pipe[1].part = pipe[1].parts + 1 - Len(pipe)
    BY <1>3 DEF PipeInv
  <2> QED  BY <2>1, <2>2
<1>6. /\ packet'[1].part = 1 /\ packet'[1].parts = need' /\ packet'[1].parts <= packet'[1].sofar
      /\ Len(packet') + Len(pipe') = need' /\ need' \in Nat \ {0}
      /\ packet'[1] \in Pending
      /\ \A c \in Pending : c.seq = packet'[1].seq
  <2>1. CASE packet = <<>>
    <3>1. packet'[1] = pipe[1] /\ pipe[1].part = 1 /\ Len(packet') = 1
      BY <1>1, <1>2, <1>3, <2>1 DEF FrameInv, Aligned
    <3>2. need' = pipe[1].parts
      BY <1>2, <2>1, <3>1 DEF ReadChunk, Announced
    <3>3. pipe[1].parts <= pipe[1].sofar /\ \A i \in DOMAIN pipe : pipe[i].seq = pipe[1].seq
      BY <1>3 DEF PipeInv
    <3>4. pipe[1] \in Pending /\ \A c \in Pending : c.seq = pipe[1].seq
      BY <1>3, <2>1, <3>3 DEF Pending
    <3>5. Len(packet') + Len(pipe') = pipe[1].parts
      <4>1. Len(packet') = 1 /\ Len(pipe') = Len(pipe) - 1 /\ Len(pipe) \in Nat
        BY <1>3, <3>1, Zenon
      <4>2. 1 = pipe[1].parts + 1 - Len(pipe) /\ pipe[1].parts \in Nat
        BY <1>5, <3>1
      <4> QED  BY <4>1, <4>2
    <3> QED  BY <1>5, <3>1, <3>2, <3>3, <3>4, <3>5
  <2>2. CASE packet # <<>>
    <3>1. packet'[1] = packet[1] /\ packet[1] \in Chunks /\ 1 \in DOMAIN packet
      BY <1>2, <1>3, <2>2
    <3>2. need' = need /\ packet[1] \in Pending
      BY <1>2, <2>2, <3>1 DEF ReadChunk, Pending
    <3>3. /\ packet[1].part = 1 /\ packet[1].parts = need /\ packet[1].parts <= packet[1].sofar
          /\ Len(packet) + Len(pipe) = need
          /\ \A c \in Pending : c.seq = packet[1].seq
      BY <1>1, <1>2, <2>2 DEF FrameInv
    <3> QED  BY <1>3, <3>1, <3>2, <3>3
  <2> QED  BY <2>1, <2>2
<1>7. pc' \in {"read", "packet"} /\ packet' # <<>>
  BY <1>3, <1>6 DEF ReadChunk
<1>8. Pending' = Pending
  <2>1. Pending' \subseteq Pending
    BY CollectingStep DEF Collecting
  <2>2. \A i \in DOMAIN packet : i \in DOMAIN packet' /\ packet'[i] = packet[i]
    BY <1>2, <1>3
  <2>3. \A i \in DOMAIN pipe : i = 1 \/ (i - 1 \in DOMAIN pipe' /\ pipe'[i - 1] = pipe[i])
    BY <1>2, <1>3
  <2>4. Len(packet') \in DOMAIN packet' /\ packet'[Len(packet')] = pipe[1]
    BY <1>2, <1>3
  <2>5. \A i \in DOMAIN packet : packet[i] \in Pending'
    BY <1>7, <2>2 DEF Pending
  <2>6. \A i \in DOMAIN pipe : pipe[i] \in Pending'
    BY <1>7, <2>3, <2>4 DEF Pending
  <2>7. Pending \subseteq Pending'
    BY <2>5, <2>6 DEF Pending
  <2> QED  BY <2>1, <2>7
<1>9. \A i \in DOMAIN packet', p \in owed :
        packet'[i].seq = p.seq => p.seg = packet'[i].seg + 1 /\ p.sofar = packet'[i].sofar
  <2>1. \A p \in owed : pipe[1].seq = p.seq => p.seg = pipe[1].seg + 1 /\ p.sofar = pipe[1].sofar
    BY <1>3 DEF PipeInv
  <2>2. \A i \in DOMAIN packet, p \in owed :
          packet[i].seq = p.seq => p.seg = packet[i].seg + 1 /\ p.sofar = packet[i].sofar
    BY <1>1, <1>2 DEF FrameInv
  <2> QED  BY <1>4, <2>1, <2>2
<1>10. FrameInv'
  BY <1>2, <1>6, <1>7, <1>8, <1>9 DEF FrameInv
<1>11. OrderInv'
  BY <1>1, <1>2, <1>7, <1>8 DEF OrderInv
<1> QED  BY <1>7, <1>10, <1>11

LEMMA SoundStale ==
  ASSUME StateOK, LimitInv, PipeInv, SoundInv, TakeStale, Sound, Sound'
  PROVE  \/ pc' = "done" /\ EndsWell'
         \/ pc' = "top" /\ FrameInv' /\ OrderInv'
<1> DEFINE c == packet[1]
           frames == 1 + StaleSoFar(staleFrames)
           size   == Len(packet) + StaleSoFar(staleTotal)
<1>1. pc = "packet" /\ OrderInv /\ UNCHANGED <<owed, expected, pipe, packet, collected, total>>
  BY DEF TakeStale, Count, SoundInv, device, op
<1>2. /\ c \in Chunks /\ c \in Pending /\ c.kind = "response" /\ c.seq # expected
      /\ Len(packet) = c.parts /\ c.parts <= c.sofar /\ pipe = <<>>
      /\ \A d \in Pending : d.seq = c.seq
      /\ \A p \in owed : p.seq = c.seq => p.seg = c.seg + 1 /\ p.sofar = c.sofar
  BY <1>1, SoundPacket DEF TakeStale, IsStale, IsResponse
<1>3. /\ c.seg \in Nat /\ c.sofar \in Nat /\ c.parts \in Nat
      /\ staleFrames \in Nat /\ staleTotal \in Nat
  BY <1>2, ConstantTypes DEF Chunks, StateOK
<1>4. c.seq = staleSeq => staleFrames <= c.seg /\ staleTotal + c.parts <= c.sofar
  BY <1>1, <1>2, Zenon DEF OrderInv
<1>5. frames \in Nat /\ size \in Nat /\ frames <= c.seg + 1 /\ size <= c.sofar
  BY <1>2, <1>3, <1>4 DEF StaleSoFar
<1>6. \/ staleSeq' = NoSeq
      \/ staleSeq' = c.seq /\ staleFrames' = frames /\ staleTotal' = size
  BY DEF TakeStale
<1>7. AfterStale(frames, size)
  <2>1. faults = 0 /\ faults' = 0 /\ ~Fault
    BY DEF Sound, Fault
  <2>2. Acknowledged(AfterStale(frames, size))
    BY DEF TakeStale
  <2> HIDE DEF frames, size
  <2> QED  BY <2>1, <2>2 DEF Acknowledged
<1> HIDE DEF c, frames, size
<1>8. CASE frames > MaxFrames \/ size > MaxTotal
  <2>1. pc' = "done" /\ outcome' = "limit"
    BY <1>7, <1>8 DEF AfterStale, Finish
  <2>2. c.seg >= MaxFrames \/ c.sofar > MaxTotal
    BY <1>3, <1>5, <1>8, ConstantTypes
  <2> QED  BY <1>1, <2>1, <2>2 DEF EndsWell, c
<1>9. CASE ~(frames > MaxFrames \/ size > MaxTotal)
  <2>1. pc' = "top"
    BY <1>7, <1>9 DEF AfterStale, Continue
  <2>2. Pending' = {} /\ FrameInv'
    BY <1>1, <1>2, <2>1 DEF Pending, FrameInv, Aligned
  <2>3. \A p \in owed : p.seq = expected => p.seg = Len(collected) /\ p.sofar = total
    BY <1>1, <1>2, Zenon DEF OrderInv
  <2>4. \A p \in owed : p.seq = staleSeq' => staleFrames' <= p.seg /\ staleTotal' <= p.sofar
    <3>1. \A p \in owed : p.seq # NoSeq
      BY ConstantTypes DEF StateOK, Responses, NoSeq
    <3> QED  BY <1>2, <1>3, <1>5, <1>6, <3>1
  <2>5. OrderInv'
    BY <1>1, <2>1, <2>2, <2>3, <2>4 DEF OrderInv
  <2> QED  BY <2>1, <2>2, <2>5
<1> QED  BY <1>8, <1>9

LEMMA SoundOwn ==
  ASSUME StateOK, LimitInv, PipeInv, SoundInv, TakeOwn, Sound, Sound'
  PROVE  \/ pc' = "done" /\ EndsWell'
         \/ pc' \in {"top", "join"} /\ FrameInv' /\ OrderInv'
<1> DEFINE c == packet[1]
<1>1. /\ pc = "packet" /\ OrderInv
      /\ UNCHANGED <<owed, expected, pipe, packet, staleSeq, staleFrames, staleTotal>>
      /\ collected' = Append(collected, c) /\ total' = total + Len(packet)
  BY DEF TakeOwn, Count, SoundInv, device, op
<1>2. /\ c \in Chunks /\ c \in Pending /\ c.kind = "response" /\ c.seq = expected
      /\ Len(packet) = c.parts /\ pipe = <<>>
      /\ \A p \in owed : p.seq = c.seq => p.seg = c.seg + 1 /\ p.sofar = c.sofar
  BY <1>1, SoundPacket DEF TakeOwn, IsOwn, IsStale, IsResponse
<1>3. c.seg = Len(collected) /\ c.sofar = total + c.parts /\ c.sofar = total'
  BY <1>1, <1>2 DEF OrderInv
<1>4. /\ c.seg \in Nat /\ collected \in Seq(Chunks) /\ collected' \in Seq(Chunks)
      /\ Len(collected) \in Nat /\ Len(collected') = Len(collected) + 1
      /\ \A i \in DOMAIN collected' :
           \/ i \in DOMAIN collected /\ collected'[i] = collected[i] /\ i # Len(collected')
           \/ i = Len(collected') /\ collected'[i] = c
  <2>1. c.seg \in Nat
    BY <1>2 DEF Chunks
  <2> HIDE DEF c
  <2>2. collected \in Seq(Chunks)
    BY DEF StateOK
  <2> QED  BY <1>1, <1>2, <2>1, <2>2
<1>5. \/ pc' = "done" /\ outcome' = "limit" /\ (Len(collected') > MaxFrames \/ total' > MaxTotal)
      \/ pc' = "join" /\ c.final
      \/ pc' = "top" /\ ~c.final
  <2>1. ~Fault
    BY FaultCounts DEF Sound
  <2> QED  BY <2>1 DEF TakeOwn, Acknowledged, Finish, Continue
<1> HIDE DEF c
<1>6. CASE pc' = "done"
  <2>1. outcome' = "limit" /\ (c.seg >= MaxFrames \/ c.sofar > MaxTotal)
    BY <1>3, <1>4, <1>5, <1>6, ConstantTypes
  <2> QED  BY <1>1, <1>6, <2>1 DEF EndsWell, c
<1>7. CASE pc' \in {"top", "join"}
  <2>1. Pending' = {} /\ FrameInv'
    BY <1>1, <1>2, <1>7 DEF Pending, FrameInv, Aligned
  <2>2. \A i \in DOMAIN collected' : collected'[i].seg = i - 1
    BY <1>1, <1>3, <1>4 DEF OrderInv
  <2>3. \A p \in owed : p.seq = expected => p.seg = Len(collected') /\ p.sofar = total'
    BY <1>2, <1>3, <1>4
  <2>4. \A p \in owed : p.seq = staleSeq => staleFrames <= p.seg /\ staleTotal <= p.sofar
    BY <1>1 DEF OrderInv
  <2>5. \A i \in DOMAIN collected : ~collected[i].final
    BY <1>1 DEF OrderInv
  <2>6. pc' = "top" => \A i \in DOMAIN collected' : ~collected'[i].final
    BY <1>4, <1>5, <2>5
  <2>7. pc' = "join" => collected' # <<>> /\ InOrder(collected')
    <3> SUFFICES ASSUME pc' = "join" PROVE collected' # <<>> /\ InOrder(collected')
      OBVIOUS
    <3>1. collected' # <<>> /\ DOMAIN collected' = 1 .. Len(collected')
      BY <1>4
    <3>2. \A i \in DOMAIN collected' : collected'[i].final \in BOOLEAN
      <4>1. collected' \in Seq(Chunks) /\ \A i \in DOMAIN collected' : collected'[i] \in Chunks
        BY <1>4
      <4> QED  BY <4>1 DEF Chunks
    <3>3. c.final
      BY <1>5
    <3>4. \A i \in DOMAIN collected' : collected'[i].final <=> i = Len(collected')
      BY <1>4, <2>5, <3>3, Zenon
    <3>5. \A i \in DOMAIN collected' : collected'[i].final = (i = Len(collected'))
      BY <3>2, <3>4, Zenon
    <3> QED  BY <2>2, <3>1, <3>5, Zenon DEF InOrder
  <2>8. OrderInv'
    BY <1>1, <1>7, <2>1, <2>2, <2>3, <2>4, <2>6, <2>7, Zenon DEF OrderInv
  <2> QED  BY <1>7, <2>1, <2>8
<1> QED  BY <1>5, <1>6, <1>7

LEMMA NextSound ==
  ASSUME StateOK, StateOK', LimitInv, SeqInv, PipeInv, SoundInv, [Next]_vars
  PROVE  SoundInv'
<1>1. ASSUME NEW p \in owed, NEW n \in 1 .. MaxChunks, Sends(p, n)
      PROVE  SoundInv'
  BY <1>1, SoundSends
<1>2. CASE DeviceChatters
  BY <1>2, SoundChatters
<1>3. ASSUME NEW m \in {"poll", "call"}, StartRequest(m)
      PROVE  SoundInv'
  BY <1>3, SoundStart
<1>4. ASSUME NEW m \in {"poll", "call"}, WriteFails(m)
      PROVE  SoundInv'
  <2>1. faults' # 0
    BY <1>4, FaultCounts DEF WriteFails
  <2> QED  BY <2>1, Unsound DEF Sound
<1>5. CASE Collecting
  <2> SUFFICES ASSUME Sound' PROVE SoundInv'
    BY Unsound
  <2>1. Sound /\ UNCHANGED <<owed, mode, expected>>
    BY <1>5, CollectingStep, Zenon DEF Sound, op
  <2>2. FrameInv /\ OrderInv /\ mode # "drain" /\ clock' = "early" /\ faults' = 0
    BY <2>1 DEF SoundInv, Sound
  <2>3. pc' # "done" /\ FrameInv' /\ OrderInv' => SoundInv'
    BY DEF SoundInv, LateFramesAreHarmless
  <2>4. CASE ClockAdvances
    BY <2>2, <2>4 DEF ClockAdvances
  <2>5. CASE Top
    <3>1. UNCHANGED <<pipe, collected, total, reads, staleSeq, staleFrames, staleTotal>> /\ pc = "top"
      BY <2>5 DEF Top, device, limits
    <3>2. CASE pc' = "done"
      <4>1. outcome' = "closed" \/ (outcome' = "timeout" /\ reads >= MaxReads)
        BY <2>2, <2>5, <3>2 DEF Top, Finish
      <4>2. EndsWell'
        <5>1. reads \in Nat /\ MaxReads \in Nat /\ reads <= MaxReads
          BY <2>2, ConstantTypes, Zenon DEF StateOK, TypeOK
        <5> QED  BY <3>1, <4>1, <5>1 DEF EndsWell
      <4> QED  BY <3>2, <4>2, SoundEnd
    <3>3. CASE pc' = "read"
      <4>1. packet' = <<>> /\ Pending' = Pending
        BY <2>5, <3>1, <3>3 DEF Top, Pending
      <4>2. FrameInv'
        BY <2>2, <3>1, <3>3, <4>1 DEF FrameInv, Aligned
      <4>3. OrderInv'
        BY <2>1, <2>2, <3>1, <3>3, <4>1, Zenon DEF OrderInv
      <4> QED  BY <2>3, <3>3, <4>2, <4>3
    <3> QED  BY <2>5, <3>2, <3>3 DEF Top, Finish
  <2>6. CASE ReadChunk
    BY <2>1, <2>3, <2>6, SoundReads
  <2>7. CASE ReadTimesOut
    BY <2>1, <2>7 DEF ReadTimesOut, Sound
  <2>8. CASE ReadFails
    BY <2>2, <2>8, FaultCounts DEF ReadFails
  <2>9. CASE CancelRead
    BY <2>9, SoundEnd, Zenon DEF CancelRead, Finish, EndsWell
  <2>10. CASE TakeAck
    BY <2>1, <2>3, <2>10, SoundAck
  <2>16. CASE TakeOther \/ TakeDamagedStale \/ TakeDamagedOwn
    BY <2>1, <2>16, SoundPacket, Zenon DEF TakeOther, TakeDamagedStale, TakeDamagedOwn, Count
  <2>11. CASE TakeStale
    BY <2>1, <2>3, <2>11, SoundStale, SoundEnd
  <2>12. CASE TakeOwn
    BY <2>1, <2>3, <2>12, SoundOwn, SoundEnd
  <2>13. CASE TakeDrained
    BY <2>2, <2>13 DEF TakeDrained
  <2>14. CASE Join
    <3>1. pc' = "done" /\ outcome' = "ok"
      BY <2>2, <2>14, Zenon DEF Join, Finish, OrderInv
    <3> QED  BY <3>1, SoundEnd DEF EndsWell
  <2>15. CASE UNCHANGED vars
    <3>1. UNCHANGED <<pipe, owed, pc, packet, need, collected, total, expected, staleSeq,
                      staleFrames, staleTotal, outcome, reads, mode, clean, faults, clock>>
      BY <2>15 DEF vars, device, op, limits
    <3>2. Pending' = Pending
      BY <3>1, Zenon DEF Pending
    <3>3. FrameInv'
      BY <2>2, <3>1, <3>2, Zenon DEF FrameInv, Aligned
    <3>4. OrderInv'
      BY <2>2, <3>1, <3>2, Zenon DEF OrderInv, InOrder
    <3>5. LateFramesAreHarmless'
      BY <3>1, Zenon DEF SoundInv, LateFramesAreHarmless
    <3> QED  BY <3>3, <3>4, <3>5 DEF SoundInv
  <2> QED  BY <1>5, <2>4, <2>5, <2>6, <2>7, <2>8, <2>9, <2>10, <2>11, <2>12, <2>13, <2>14,
              <2>15, <2>16 DEF Collecting
<1> QED  BY <1>1, <1>2, <1>3, <1>4, <1>5, Steps, SendingStep

-----------------------------------------------------------------------------
(* The invariant.                                                           *)

LEMMA InitLate == Init => LateInv
<1> SUFFICES ASSUME Init PROVE LateInv
  OBVIOUS
<1>1. Inv /\ StateOK
  BY InitInv DEF Inv
<1>2. PipeInv
  <2>1. DOMAIN pipe = 1 .. Len(pipe)
    BY <1>1 DEF StateOK
  <2>2. \A c \in Pending : Expectable(c)
    BY InitPending, InitPipe DEF Expectable
  <2>3. /\ owed = {} /\ MaxChunks \in Nat
        /\ \A i \in DOMAIN pipe :
             /\ pipe[i].part = pipe[i].parts + i - Len(pipe) /\ Len(pipe) <= pipe[i].parts
             /\ pipe[i].parts <= pipe[i].sofar /\ pipe[i].seq = NoSeq
    BY <2>1, InitPending, InitPipe, ConstantTypes
  <2> QED  BY <2>2, <2>3 DEF PipeInv
<1>3. SoundInv
  BY InitPending DEF SoundInv, Sound, LateFramesAreHarmless
<1> QED  BY <1>1, <1>2, <1>3 DEF LateInv

LEMMA NextLate == LateInv /\ [Next]_vars => LateInv'
<1> SUFFICES ASSUME LateInv, [Next]_vars PROVE LateInv'
  OBVIOUS
<1>1. Inv /\ StateOK /\ LimitInv /\ SeqInv /\ PipeInv /\ SoundInv
  BY DEF LateInv, Inv
<1>2. Inv' /\ StateOK'
  BY <1>1, NextInv DEF Inv
<1> QED  BY <1>1, <1>2, NextPipe, NextSound DEF LateInv

\* With a sound device and time left, the late frames of other responses never
\* make a collection fail.
THEOREM LateFramesDoNoHarm == Spec => []LateFramesAreHarmless
<1>1. LateInv => LateFramesAreHarmless
  BY DEF LateInv, SoundInv
<1> QED  BY <1>1, InitLate, NextLate, PTL DEF Spec
=============================================================================
