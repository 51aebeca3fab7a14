--------------------------- MODULE EnvelopeInputs ---------------------------
(* The envelopes the device sends, and what must be read from them.          *)
EXTENDS Envelope, InputState

HeaderTexts ==
  {<<>>, <<Space>>, <<EtagByte>>, <<Space, EtagByte, Space>>, <<Binary>>, <<7, Space, 7>>}

Sized(v) == <<Len(v)>> \o v

\* The cells of pairs of a name and a value, one after the other.
HeaderCells(headers) ==
  LET upto[n \in 0..Len(headers)] ==
        IF n = 0 THEN <<>>
        ELSE upto[n - 1] \o Sized(headers[n][1]) \o Sized(headers[n][2])
  IN upto[Len(headers)]

\* What the device sends (external), with a header count that may be too large.
Encoded(m) ==
  <<Utom, 8, 1, 0, 2 + Len(HeaderCells(m.headers)), m.status, Len(m.headers) + m.extra>>
    \o HeaderCells(m.headers) \o m.body

(* The envelope is read as it was written: the body from its first to its    *)
(* last byte, the status, and the ETag of the last header of that name; a    *)
(* header count that is too large does not make it read the body as headers  *)
(* (parser.py:186-208, 310-328).                                             *)
EnvelopeIsRead ==
  kind = "message" =>
    LET read  == ParseResponse(Encoded(input))
        etags == {i \in DOMAIN input.headers : IsEtag(input.headers[i][1])}
    IN /\ read.body = input.body /\ read.status = input.status
       /\ etags = {} => read.etag = NoValue
       /\ \A i \in etags : (\A j \in etags : j <= i) =>
            read.etag = DecodeHeaderValue(input.headers[i][2])

=============================================================================
