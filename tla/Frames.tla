------------------------------- MODULE Frames -------------------------------
(***************************************************************************)
(* Frame construction of motu_proxy/protocol.py.  A frame must fit in its  *)
(* two 16-bit length fields, so the contents are abstracted to lengths in  *)
(* bytes: p the path, b the JSON body, c the client number.  u16 raises on *)
(* a number of more than 16 bits.                                          *)
(***************************************************************************)
EXTENDS Integers

MaxU16 == 65535

SizedWordLen(n) == 4 + n

\* query_fields_len of a client number of c digits, c = 0: no client
ClientFieldLen(c) ==
  IF c = 0 THEN 4 ELSE 4 + SizedWordLen(6) + SizedWordLen(c)

MaxMotuPayloadBytes == MaxU16 - 4 - 4 - 16

\* The header Unsecure-Auth-MOTU: unicorn666 is always sent.
PostRequestLen(p, c) ==
  SizedWordLen(4) + SizedWordLen(p) + 4 + SizedWordLen(18) + SizedWordLen(10)
    + ClientFieldLen(c)

MaxPostJsonBodyBytes(p, c) ==
  MaxMotuPayloadBytes - (20 + PostRequestLen(p, c) + 4 + 12)

\* validate_post_frame_size does not raise
PostAdmitted(p, b, c) == b <= MaxPostJsonBodyBytes(p, c)

\* build_post_frame: UTOM and four words, the request, then the body
PostPayloadLen(p, b, c) ==
  4 + 4 * 4 + PostRequestLen(p, c) + 4 + SizedWordLen(4) + SizedWordLen(b)

\* build_motu_frame: the header and five fields before the payload, then the
\* sequence number, the type and the length of the whole
BodyLen(payload) == 4 + 4 + 4 + 4 + 2 + 2 + payload
FrameLen(payload) == 4 + BodyLen(payload)

MotuFrameRaises(payload) == payload > MaxMotuPayloadBytes

\* u16(len(motu_payload)) and u16(len(body) + 4) can be packed.
FieldsFit(payload) == payload <= MaxU16 /\ FrameLen(payload) <= MaxU16

-----------------------------------------------------------------------------
HostSeqMin == 32
HostSeqCount == 32
HostSeqs == HostSeqMin .. HostSeqMin + HostSeqCount - 1

\* HostSequencer.take returns _next and advances it.
NextHostSeq(seq) == ((seq + 1 - HostSeqMin) % HostSeqCount) + HostSeqMin
=============================================================================
