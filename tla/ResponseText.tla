---------------------------- MODULE ResponseText ----------------------------
(***************************************************************************)
(* The two scans of motu_proxy/parser.py over a body for JSON.             *)
(***************************************************************************)
EXTENDS Integers, SequencesExt

(* Bytes of a body, by what the scans tell apart: quote and backslash have  *)
(* names, "x" is any byte without a meaning.                                *)
Opening == {"{", "["}
Closing == {"}", "]"}
Chars   == Opening \cup Closing \cup {"quote", "backslash", " ", "x"}

ClosingOf(c) == IF c = "{" THEN "}" ELSE "]"

\* The state of both scans inside a string after the byte c.
InString(s, c) ==
  [s EXCEPT !.escaped = ~s.escaped /\ c = "backslash",
            !.string  = s.escaped \/ c # "quote"]

Trim(body) ==
  LET solid == {i \in DOMAIN body : body[i] # " "} IN
  IF solid = {} THEN <<>> ELSE SubSeq(body, Min(solid), Max(solid))

\* is_single_json_container: stack holds the closing bytes that are due, the
\* innermost last; verdict becomes TRUE at the byte that empties it.
ScanContainer_AnyClosing(s, c) ==
  CASE s.verdict # "open"  -> [s EXCEPT !.verdict = "no"]
    [] s.string            -> InString(s, c)
    [] c = "quote"         -> [s EXCEPT !.string = TRUE]
    [] c \in Opening       -> [s EXCEPT !.stack = Append(@, ClosingOf(c))]
    [] c \in Closing       ->
         [s EXCEPT !.stack = Front(@),
                   !.verdict = IF Len(s.stack) > 1 THEN "open" ELSE "yes"]
    [] OTHER               -> s
ScanContainer(s, c) ==
  CASE s.verdict # "open"  -> [s EXCEPT !.verdict = "no"]
    [] s.string            -> InString(s, c)
    [] c = "quote"         -> [s EXCEPT !.string = TRUE]
    [] c \in Opening       -> [s EXCEPT !.stack = Append(@, ClosingOf(c))]
    [] c \in Closing       ->
         [s EXCEPT !.stack = Front(@),
                   !.verdict = IF c # Last(s.stack) THEN "no"
                               ELSE IF Len(s.stack) > 1 THEN "open" ELSE "yes"]
    [] OTHER               -> s

IsSingleJsonContainer(body) ==
  LET text == Trim(body) IN
  /\ text # <<>> /\ Head(text) \in Opening
  /\ FoldLeft(ScanContainer,
              [stack |-> <<ClosingOf(Head(text))>>, string |-> FALSE,
               escaped |-> FALSE, verdict |-> "open"],
              Tail(text)).verdict = "yes"

\* extract_json_bytes: counts braces from the first one on; <<>> for None.
ScanObject(s, c) ==
  CASE s.found          -> s
    [] s.string         -> [InString(s, c) EXCEPT !.text = Append(@, c)]
    [] OTHER            ->
         LET depth == s.depth + (IF c = "{" THEN 1 ELSE IF c = "}" THEN -1 ELSE 0) IN
         [s EXCEPT !.text = Append(@, c), !.string = c = "quote",
                   !.depth = depth, !.found = c = "}" /\ depth = 0]

ExtractJson(body) ==
  LET braces == {i \in DOMAIN body : body[i] = "{"}
      scan == FoldLeft(ScanObject,
                       [text |-> <<>>, depth |-> 0, string |-> FALSE,
                        escaped |-> FALSE, found |-> FALSE],
                       SubSeq(body, Min(braces), Len(body)))
  IN IF braces = {} \/ ~scan.found THEN <<>> ELSE scan.text

=============================================================================
