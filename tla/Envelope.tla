------------------------------ MODULE Envelope ------------------------------
(***************************************************************************)
(* The UTOM envelope of a joined response, as motu_proxy/parser.py reads   *)
(* it: status, headers and body.  A response is a sequence of cells, a     *)
(* cell a 32-bit word or a byte; offsets count the cells before, so 28     *)
(* bytes are 7 cells.                                                      *)
(***************************************************************************)
EXTENDS Integers, Sequences, FiniteSetsExt

Utom    == 9001  \* the four bytes "UTOM"
EtagByte == 9002 \* the text "ETag", in whatever case
Binary  == 9003  \* a byte outside 0x20..0x7E
Space   == 9004  \* 0x20, the one white space inside that range
MaxSize == 4096
NoValue == <<-1>>

WordAt(d, offset) == d[offset + 1]

\* _read_sized_value, and where the next one begins
ReadSizedValue_NoBound(d, offset, end) ==
  LET size == IF offset < Len(d) THEN WordAt(d, offset) ELSE MaxSize + 1 IN
  IF size > MaxSize \/ offset + 1 + size > Len(d) THEN [value |-> NoValue, next |-> offset]
  ELSE [value |-> SubSeq(d, offset + 2, offset + 1 + size), next |-> offset + 1 + size]
ReadSizedValue(d, offset, end) ==
  IF offset + 1 > end THEN [value |-> NoValue, next |-> offset]
  ELSE LET size == WordAt(d, offset) IN
       IF size > MaxSize \/ offset + 1 + size > end
       THEN [value |-> NoValue, next |-> offset]
       ELSE [value |-> SubSeq(d, offset + 2, offset + 1 + size),
             next |-> offset + 1 + size]

\* _decode_header_value: without the spaces around it; None if nothing is left
DecodeHeaderValue(v) ==
  LET kept == {i \in DOMAIN v : v[i] # Space} IN
  IF kept = {} \/ \E i \in DOMAIN v : v[i] = Binary THEN NoValue
  ELSE SubSeq(v, Min(kept), Max(kept))

IsEtag(name) == DecodeHeaderValue(name) = <<EtagByte>>

\* One pass of the loop of _parse_utom_response over the headers; stop stands
\* for its return.
ReadHeader(d, end, s) ==
  LET name  == ReadSizedValue(d, s.offset, end)
      value == ReadSizedValue(d, name.next, end) IN
  IF s.stop \/ name.value = NoValue \/ value.value = NoValue
  THEN [s EXCEPT !.stop = TRUE]
  ELSE [s EXCEPT !.offset = value.next,
                 !.etag = IF IsEtag(name.value)
                          THEN DecodeHeaderValue(value.value) ELSE @]

\* The loop, header_count times.
Headers(d, end) ==
  LET count == WordAt(d, 6)
      after[n \in 0..count] ==
        IF n = 0 THEN [offset |-> 7, etag |-> NoValue, stop |-> FALSE]
        ELSE ReadHeader(d, end, after[n - 1])
  IN after[count]

ParseResponse(d) ==
  LET end == 5 + WordAt(d, 4)
      status == WordAt(d, 5)
  IN IF Len(d) < 7 \/ Head(d) # Utom \/ end > Len(d) \/ end < 7
     THEN [body |-> d, etag |-> NoValue, status |-> 0]
     ELSE [body |-> SubSeq(d, end + 1, Len(d)), etag |-> Headers(d, end).etag,
           status |-> IF status \in 100..599 THEN status ELSE 0]

=============================================================================
