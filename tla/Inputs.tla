------------------------------- MODULE Inputs -------------------------------
(***************************************************************************)
(* The algorithms without state - path normalisation, the schema, the      *)
(* envelope and the scans of a response, device discovery - composed as    *)
(* the request path composes them, and compared with reference             *)
(* definitions.  A behaviour chooses one input, or writes a text or a path *)
(* one token after the other.                                              *)
(***************************************************************************)
EXTENDS Schema, ResponseText, EnvelopeInputs, SysfsInputs

CONSTANTS MaxTokens,  \* bound: tokens of a path
          MaxText     \* bound: bytes of a text

vars == <<kind, input>>

Init == kind = "none" /\ input = <<>>

Choose(k, S) == kind = "none" /\ kind' = k /\ \E x \in S : input' = x
Extend(k, S, max) ==
  /\ \/ kind = "none" /\ kind' = k
     \/ kind = k /\ Len(input) < max /\ UNCHANGED kind
  /\ \E t \in S : input' = Append(input, t)

-----------------------------------------------------------------------------
(* Paths.                                                                   *)

Tokens == {"/", "%2F", "%252F", "blank", "%20", "0123456789abcdef", "datastore", "host",
           "meters"}

WritePath ==
  Extend("path", IF input = <<>> THEN Tokens \cup {Host} ELSE Tokens, MaxTokens)


-----------------------------------------------------------------------------
(* Rows of the schema, each with every way to fill in its placeholders.     *)

Fill(pattern) ==
  CASE pattern = "<index>"                   -> {"0", "12"}
    [] pattern = "<uid>"                     -> Uids
    [] pattern = "<ibank_or_obank>"          -> {"ibank", "obank"}
    [] pattern = "<input_or_output>_streams" -> {"input_streams", "output_streams"}
    [] pattern = "<effect_resource>"         -> {"dsp", "0"}
    [] OTHER                                 -> {pattern}

Filled(row) ==
  FoldLeft(LAMBDA names, pattern : {Append(n, x) : n \in names, x \in Fill(pattern)},
           {<<>>}, row.path)

PathOf(names) ==
  DatastorePath \o FlattenSeq([i \in DOMAIN names |-> <<"/", names[i]>>])

Values == {Null, Bool, Infinite, Version, Text(<<>>), Text(<<"int", "int">>),
           Text(<<"int", "text">>), Text(<<"text">>), Real100(50), Int100(0),
           Int100(100)}

\* The bounds of the row and the numbers next to them.
EdgeValues(row) ==
  Values \cup UNION {{Real100(n - 1), Int100(n), Real100(n + 1)} : n \in Range(row.range)}

ChooseRow == Choose("row", SCHEMA)

\* The values the type of a row stands for.
Domain(row) ==
  {v \in EdgeValues(row) :
     \/ v.kind = "null" /\ "opt" \in row.modifiers
     \/ v.kind \in {"int", "real"} /\ row.base \in {"int", "real"}
        /\ (v.kind = "real" => row.base = "real")
        /\ row.modifiers \cap {"list", "pair"} = {}
        /\ (row.modifiers \cap {"bool", "enum"} # {} => v.num \in {0, 100})
        /\ (row.range # <<>> => v.num \in row.range[1]..row.range[2])
     \/ v.kind = "string"
        /\ CASE "pair" \in row.modifiers ->
                  Len(v.parts) = 2 /\ (row.base = "int" => Range(v.parts) \subseteq {"int"})
             [] "list" \in row.modifiers -> row.base = "int" => Range(v.parts) \subseteq {"int"}
             [] row.base = "semver"      -> v = Version
             [] OTHER                    -> row.base = "string"}

-----------------------------------------------------------------------------
(* Bodies of several keys.                                                  *)

Monitor == <<"/", "mix", "/", "monitor", "/", "0">>

Keys == {<<"value">>, <<"assign">>, <<"uid">>, <<"host", "/", "os">>,
         <<"/", "datastore", "/", "host", "/", "os">>, Monitor \o <<"/", "auto">>}

Writes ==
  [path : {DatastorePath, DatastorePath \o Monitor, DatastorePath \o Monitor \o <<"/">>,
           <<"/", "meters">>},
   body : {<< <<k, v>>, <<l, w>> >> :
             k \in Keys, l \in Keys, v \in {Int100(100), Text(<<"text">>)},
             w \in {Int100(100), Text(<<"text">>)}},
   unknown : BOOLEAN]

ChooseWrite == Choose("write", {w \in Writes : w.body[1][1] # w.body[2][1]})

\* A relative key is below the path, "value" is the path itself.
Names(path, key) ==
  IF key = <<"value">> THEN Tail(Segments(path))
  ELSE IF Head(key) = "/"
  THEN SelectSeq(Segments(key), LAMBDA n : n # <<"datastore">>)
  ELSE Tail(Segments(path)) \o Segments(key)

(* A write is accepted exactly when every key of its body names, below the  *)
(* path it is sent to or absolutely, a path that may be written, and gives   *)
(* it a value its type, range and choices allow - at the bounds of every row *)
(* of the table, in whichever order the keys come.  No row hides another: a  *)
(* path that a row describes matches that row alone, so the order of the     *)
(* table and the score never decide (schema.py:475-558, 610-694).            *)
WritesFollowSchema ==
  /\ kind = "row" =>
       \A names \in Filled(input) :
         /\ FindPathSchema(PathOf(names)) = {input}
         /\ Candidates(Tail(Segments(PathOf(names)))) = {input}
         /\ \A v \in EdgeValues(input) :
              (ValidateWrite(PathOf(names), << << <<"value">>, v>> >>, FALSE) = "none")
                <=> (input.permission = "rw" /\ v \in Domain(input))
  /\ kind = "write" =>
       LET rows(k) == {r \in SCHEMA : Matches(r.path, Names(input.path, k))}
           allowed(k, v) == \/ \E r \in rows(k) : r.permission = "rw" /\ ValueOk(r, v)
                            \/ input.unknown /\ rows(k) = {}
       IN (ValidateWrite(input.path, input.body, input.unknown) = "none") <=>
            /\ InDatastore(input.path)
            /\ \A i \in DOMAIN input.body : allowed(input.body[i][1], input.body[i][2])

-----------------------------------------------------------------------------
(* Texts.  The reference is a grammar: a container is a pair of brackets    *)
(* around containers, strings and other bytes.                              *)

WriteText == Extend("text", Chars, MaxText)

Inside(s) == SubSeq(s, 2, Len(s) - 1)

\* The inside of a string: no quote but after a backslash.
Quoted[s \in Seq(Chars)] ==
  \/ s = <<>>
  \/ s[1] = "backslash" /\ Len(s) > 1 /\ Quoted[SubSeq(s, 3, Len(s))]
  \/ s[1] \notin {"backslash", "quote"} /\ Quoted[Tail(s)]

IsString(s) == Len(s) > 1 /\ s[1] = "quote" /\ Last(s) = "quote" /\ Quoted[Inside(s)]

InBrackets(s) == Len(s) > 1 /\ s[1] \in Opening /\ Last(s) = ClosingOf(s[1])

\* The inside of a container.
Items[s \in Seq(Chars)] ==
  \/ s = <<>>
  \/ s[1] \in {" ", "x", "backslash"} /\ Items[Tail(s)]
  \/ \E n \in 2..Len(s) :
       LET first == SubSeq(s, 1, n) IN
       /\ IsString(first) \/ (InBrackets(first) /\ Items[Inside(first)])
       /\ Items[SubSeq(s, n + 1, Len(s))]

IsContainer(s) == InBrackets(s) /\ Items[Inside(s)]

(* A body is served as application/json exactly when it is one container,    *)
(* with white space around it at most, and what the command line prints as   *)
(* JSON is the first object of the response, whole, whatever precedes it:    *)
(* neither two containers nor brackets and escaped quotes inside strings     *)
(* mislead the scans (parser.py:135-160, 257-299).                           *)
ScansFollowGrammar ==
  kind = "text" =>
    /\ IsSingleJsonContainer(input) <=> IsContainer(Trim(input))
    /\ \A i \in DOMAIN input :
         input[i] = "{" /\ (\A j \in 1..i - 1 : input[j] # "{") =>
           \A n \in i + 1..Len(input) :
             IsContainer(SubSeq(input, i, n)) => ExtractJson(input) = SubSeq(input, i, n)

-----------------------------------------------------------------------------
(* Envelopes.                                                               *)

ChooseMessage ==
  Choose("message",
         [status : {0, 200, 304}, headers : BoundedSeq(HeaderTexts \X HeaderTexts, 2),
          extra : 0..1, body : {<<>>, <<1>>, <<1, EtagByte, 1, 7>>}])

-----------------------------------------------------------------------------
PlugDevice == Extend("sysfs", Devices, 2)

-----------------------------------------------------------------------------
Next ==
  \/ WritePath
  \/ ChooseRow
  \/ ChooseWrite
  \/ WriteText
  \/ ChooseMessage
  \/ PlugDevice
=============================================================================
