------------------------------- MODULE Schema -------------------------------
(***************************************************************************)
(* motu_proxy/schema.py: the documented datastore schema and the           *)
(* validation of a write against it.  A row's path is its sequence of      *)
(* segments, its type a base and the modifiers _split_type finds, its      *)
(* range empty or the least and the greatest value.  Numbers are in        *)
(* hundredths, because one bound is 0.01.                                  *)
(***************************************************************************)
EXTENDS Paths, Integers, SequencesExt

Row(path, base, modifiers, permission) ==
  [path |-> path, base |-> base, modifiers |-> modifiers,
   permission |-> permission, range |-> <<>>, enum |-> {}]

Rows(prefix, names, base, modifiers, permission) ==
  {Row(Append(prefix, n), base, modifiers, permission) : n \in names}

Ranged(prefix, names, base, least, greatest) ==
  {[Row(Append(prefix, n), base, {}, "rw") EXCEPT !.range = <<least, greatest>>]
     : n \in names}

Switches(prefix, names) == Rows(prefix, names, "real", {"bool"}, "rw")

\* "Shelf=0,Para=1" and "RMS=0,Peak=1"
Choice(prefix, names) ==
  {[r EXCEPT !.enum = {0, 100}] : r \in Rows(prefix, names, "real", {"enum"}, "rw")}

-----------------------------------------------------------------------------
(* RAW_SCHEMA.                                                              *)

Caps ==
  {Row(<<"uid">>, "string", {}, "r"), Row(<<"host", "os">>, "string", {}, "rw"),
   Row(<<"avb", "devs">>, "string", {"list"}, "r")}
    \cup Rows(<<"ext", "caps">>, {"avb", "router", "mixer"}, "semver", {"opt"}, "r")

AvbDevice ==
  LET dev == <<"avb", "<uid>">>
      clock == dev \o <<"master_clock">> IN
  Rows(dev, {"entity_model_id_h32", "entity_model_id_l32"}, "int", {}, "r")
    \cup Rows(dev, {"entity_name"}, "string", {}, "rw")
    \cup Rows(dev, {"model_name", "vendor_name", "firmware_version",
                    "serial_number", "acquired_id"}, "string", {}, "r")
    \cup Rows(dev, {"hostname", "motu.mdns.type", "url"}, "string", {"opt"}, "r")
    \cup Rows(dev, {"apiversion"}, "semver", {"opt"}, "r")
    \cup Rows(dev, {"controller_ignore"}, "int", {"bool"}, "r")
    \cup Rows(dev, {"current_configuration"}, "int", {}, "rw")
    \cup Rows(clock, {"capable"}, "int", {"bool"}, "r")
    \cup Rows(clock, {"uid"}, "string", {"opt"}, "rw")

AvbConfiguration ==
  LET cfg == <<"avb", "<uid>", "cfg", "<index>">>
      sources == cfg \o <<"clock_sources">>
      streams == cfg \o <<"<input_or_output>_streams">> IN
  Rows(cfg, {"object_name"}, "string", {}, "r")
    \cup Rows(cfg, {"identify"}, "int", {"bool"}, "rw")
    \cup Rows(cfg, {"current_sampling_rate", "clock_source_index"}, "int", {}, "rw")
    \cup Rows(cfg, {"sample_rates"}, "int", {"list"}, "r")
    \cup Rows(sources, {"num"}, "int", {}, "r")
    \cup Rows(sources \o <<"<index>">>, {"object_name", "type"}, "string", {}, "r")
    \cup Rows(sources \o <<"<index>">>, {"stream_id"}, "int", {"opt"}, "r")
    \cup Rows(streams, {"num"}, "int", {}, "r")
    \cup Rows(streams \o <<"<index>">>, {"object_name"}, "string", {}, "r")
    \cup Rows(streams \o <<"<index>">>, {"num_ch"}, "int", {}, "r")
    \cup Rows(cfg \o <<"input_streams", "<index>">>, {"talker"}, "string", {"pair"}, "rw")

ExtBanks ==
  LET ext == <<"ext">>
      either == <<"ext", "<ibank_or_obank>", "<index>">>
      ibank == <<"ext", "ibank", "<index>">>
      obank == <<"ext", "obank", "<index>">> IN
  Rows(ext, {"clockLocked", "smuxPerBank"}, "int", {"bool"}, "r")
    \cup Rows(ext, {"wordClockMode", "wordClockThru"}, "string", {}, "rw")
    \cup Rows(<<"ext", "vlimit">>, {"lookahead"}, "int", {"bool", "opt"}, "rw")
    \cup Rows(ext, {"enableHostVolControls"}, "int", {"bool"}, "rw")
    \cup Rows(ext, {"maxUSBToHost"}, "int", {}, "rw")
    \cup Rows(either, {"name"}, "string", {}, "r")
    \cup Rows(either, {"maxCh", "numCh", "calcCh"}, "int", {}, "r")
    \cup Rows(either, {"userCh"}, "int", {}, "rw")
    \cup Rows(either, {"smux"}, "string", {}, "rw")
    \cup Rows(ibank, {"madiClock"}, "string", {}, "r")
    \cup Rows(obank, {"madiClock"}, "string", {}, "rw")
    \cup Rows(ibank, {"madiFormat"}, "int", {}, "r")
    \cup Rows(obank, {"madiFormat"}, "int", {}, "rw")

ExtChannels ==
  LET ch(bank) == <<"ext", bank, "<index>", "ch", "<index>">>
      either == ch("<ibank_or_obank>") IN
  Rows(either, {"name"}, "string", {}, "rw")
    \cup Rows(ch("obank"), {"src"}, "int", {"pair", "opt"}, "rw")
    \cup Rows(either, {"phase", "pad"}, "int", {"bool", "opt"}, "rw")
    \cup Rows(ch("ibank"), {"48V", "vlLimit", "vlClip"}, "int", {"bool", "opt"}, "rw")
    \cup Rows(either, {"trim", "stereoTrim"}, "int", {"opt"}, "rw")
    \cup Rows(either, {"trimRange", "stereoTrimRange"}, "int", {"pair", "opt"}, "rw")
    \cup Rows(either, {"connection"}, "int", {"bool", "opt"}, "r")

Strip(name) == <<"mix", name, "<index>">>

Equalizer(strip) ==
  LET band(b) == Strip(strip) \o <<"eq", b>> IN
  UNION {Switches(band(b), {"enable"})
           \cup Ranged(band(b), {"freq"}, "int", 2000, 2000000)
           \cup Ranged(band(b), {"gain"}, "real", -2000, 2000)
           \cup Ranged(band(b), {"bw"}, "real", 1, 300)
         : b \in {"highshelf", "mid1", "mid2", "lowshelf"}}
    \cup UNION {Choice(band(b), {"mode"}) : b \in {"highshelf", "lowshelf"}}

Leveler(strip) ==
  LET leveler == Strip(strip) \o <<"leveler">> IN
  Switches(leveler, {"enable", "limit"})
    \cup Ranged(leveler, {"makeup", "reduction"}, "real", 0, 10000)

Matrix(strip, switches) ==
  LET matrix == Strip(strip) \o <<"matrix">> IN
  Switches(matrix, switches) \cup Ranged(matrix, {"fader"}, "real", 0, 400)

Sends(strip, to) ==
  UNION {Ranged(Strip(strip) \o <<"matrix", t, "<index>">>, {"send"}, "real", 0, 400)
         : t \in to}

MixChannels ==
  LET chan(part) == Append(Strip("chan"), part) IN
  Rows(<<"mix", "ctrls", "dsp">>, {"usage"}, "int", {}, "r")
    \cup Rows(<<"mix", "ctrls", "<effect_resource>">>, {"avail"}, "int", {"bool", "opt"}, "r")
    \cup Sends("chan", {"aux", "group", "reverb"})
    \cup UNION {Ranged(chan("matrix") \o <<t, "<index>">>, {"pan"}, "real", -100, 100)
                : t \in {"aux", "group", "reverb"}}
    \cup Switches(chan("hpf"), {"enable"})
    \cup Ranged(chan("hpf"), {"freq"}, "int", 2000, 2000000)
    \cup Equalizer("chan")
    \cup Switches(chan("gate"), {"enable"})
    \cup Ranged(chan("gate"), {"release"}, "real", 5000, 200000)
    \cup Ranged(chan("gate"), {"threshold"}, "real", 0, 100)
    \cup Ranged(chan("gate"), {"attack"}, "real", 1000, 50000)
    \cup Switches(chan("comp"), {"enable"})
    \cup Ranged(chan("comp"), {"release"}, "real", 1000, 200000)
    \cup Ranged(chan("comp"), {"threshold"}, "real", -4000, 0)
    \cup Ranged(chan("comp"), {"ratio"}, "real", 100, 1000)
    \cup Ranged(chan("comp"), {"attack"}, "real", 1000, 10000)
    \cup Ranged(chan("comp"), {"trim"}, "real", -2000, 2000)
    \cup Choice(chan("comp"), {"peak"})
    \cup Matrix("chan", {"enable", "solo", "mute"})
    \cup Ranged(chan("matrix"), {"pan"}, "real", -100, 100)

MixBuses ==
  Equalizer("main") \cup Leveler("main") \cup Matrix("main", {"enable", "mute"})
    \cup Equalizer("aux")
    \cup Matrix("aux", {"enable", "prefader", "panner", "mute"})

MixGroups ==
  UNION {Sends(s, {"aux", "reverb"}) \cup Equalizer(s) \cup Leveler(s)
           \cup Matrix(s, {"enable", "solo", "prefader", "panner", "mute"})
         : s \in {"group", "reverb"}}

MixOutputs ==
  LET reverb == Append(Strip("reverb"), "reverb") IN
  Switches(reverb, {"enable"})
    \cup Ranged(reverb, {"reverbtime"}, "int", 10000, 6000000)
    \cup Ranged(reverb, {"hf", "mf"}, "int", 50000, 1500000)
    \cup Ranged(reverb, {"predelay"}, "int", 0, 50000)
    \cup Ranged(reverb, {"mfratio", "hfratio"}, "int", 100, 10000)
    \cup Ranged(reverb, {"tailspread"}, "int", -10000, 10000)
    \cup Ranged(reverb, {"mod"}, "int", 0, 10000)
    \cup Matrix("monitor", {"enable", "mute"})
    \cup Ranged(Strip("monitor"), {"assign"}, "int", -200, 409600)
    \cup Ranged(Strip("monitor"), {"override"}, "int", -100, 409600)
    \cup Switches(Strip("monitor"), {"auto"})

SCHEMA ==
  Caps \cup AvbDevice \cup AvbConfiguration \cup ExtBanks \cup ExtChannels
    \cup MixChannels \cup MixBuses \cup MixGroups \cup MixOutputs

-----------------------------------------------------------------------------
(* find_path_schema.                                                        *)

Decimals == {"0", "12"}

\* _placeholder_matches and _placeholder_value_matches; a name of several
\* tokens matches only where anything does.
Placeholders == {"<index>", "<uid>", "<ibank_or_obank>",
                 "<input_or_output>_streams", "<effect_resource>"}

PlaceholderMatches(pattern, name) ==
  CASE pattern = "<index>"                   -> name \in {<<d>> : d \in Decimals}
    [] pattern = "<uid>"                     -> name \in {<<u>> : u \in Uids}
    [] pattern = "<ibank_or_obank>"          -> name \in {<<"ibank">>, <<"obank">>}
    [] pattern = "<input_or_output>_streams" -> name \in {<<"input_streams">>, <<"output_streams">>}
    [] pattern = "<effect_resource>"         -> TRUE
    [] OTHER                                 -> FALSE

Matches(pattern, names) ==
  /\ Len(pattern) = Len(names)
  /\ \A i \in DOMAIN pattern :
       <<pattern[i]>> = names[i] \/ PlaceholderMatches(pattern[i], names[i])

\* _match_score: more exact segments win; the rest are placeholders
Exact(pattern, names) == Cardinality({i \in DOMAIN pattern : <<pattern[i]>> = names[i]})

Candidates(names) == {r \in SCHEMA : Matches(r.path, names)}

\* _relative_datastore_path is not None
InDatastore(path) == StartsWith(NormalizePath(path), DatastorePath)

\* The names between the slashes, empty ones dropped, each a sequence of tokens.
Segments(p) ==
  LET split(names, t) ==
        IF t = "/" THEN Append(names, <<>>)
        ELSE Append(Front(names), Append(Last(names), t))
  IN SelectSeq(FoldLeft(split, << <<>> >>, p), LAMBDA n : n # <<>>)

Requested(path) == Tail(Segments(NormalizePath(path)))

\* The first of the best candidates; WritesFollowSchema shows it is the only one.
Best(found, names) ==
  {r \in found : \A o \in found : Exact(o.path, names) <= Exact(r.path, names)}

FindPathSchema(path) ==
  LET names == Requested(path) IN
  IF InDatastore(path) THEN Best(Candidates(names), names) ELSE {}

-----------------------------------------------------------------------------
(* Values: a number is in hundredths, a string is its parts between colons, *)
(* each an integer or not.                                                  *)

Value(kind, num, parts, semver) ==
  [kind |-> kind, num |-> num, parts |-> parts, semver |-> semver]
Null       == Value("null", 0, <<>>, FALSE)
Bool       == Value("bool", 100, <<>>, FALSE)   \* JSON true
Int100(n)  == Value("int", n, <<>>, FALSE)
Real100(n) == Value("real", n, <<>>, FALSE)
Infinite   == Value("infinite", 0, <<>>, FALSE) \* 1e999
Text(parts) == Value("string", 0, parts, FALSE)
Version    == Value("string", 0, <<"text">>, TRUE)

ScalarOk(v, base) ==
  CASE base = "string" -> v.kind = "string"
    [] base = "semver" -> v.kind = "string" /\ v.semver
    [] base = "int"    -> v.kind = "int"
    [] base = "real"   -> v.kind \in {"int", "real"}

\* _validate_string_parts
PartsOk(v, base, least, greatest) ==
  /\ v.kind = "string" /\ Len(v.parts) \in least..greatest
  /\ base = "int" => \A i \in DOMAIN v.parts : v.parts[i] = "int"

AnyLength == 100  \* no limit on the parts of a list

InRange_Either(row, v) ==
  row.range # <<>> => row.range[1] <= v.num \/ v.num <= row.range[2]
InRange(row, v) ==
  row.range # <<>> => row.range[1] <= v.num /\ v.num <= row.range[2]

\* _validate_value does not raise
ValueOk(row, v) ==
  \/ "opt" \in row.modifiers /\ v = Null
  \/ "list" \in row.modifiers /\ PartsOk(v, row.base, 0, AnyLength)
  \/ "pair" \in row.modifiers /\ PartsOk(v, row.base, 2, 2)
  \/ /\ row.modifiers \cap {"list", "pair"} = {}
     /\ ScalarOk(v, row.base)
     /\ row.enum # {} => v.num \in row.enum
     /\ "bool" \in row.modifiers => v.num \in {0, 100}
     /\ InRange(row, v)

-----------------------------------------------------------------------------
(* validate_datastore_write_object.  A body is a sequence of <<key, value>>, *)
(* a key a path.                                                             *)

\* rstrip("/")
RStrip(p) ==
  LET names == {i \in DOMAIN p : p[i] # "/"} IN
  SubSeq(p, 1, IF names = {} THEN 0 ELSE Max(names))

\* _iter_write_values
Target(path, key) ==
  LET base == RStrip(NormalizePath(path)) IN
  CASE key = <<"value">>                                     -> base
    [] StartsWith(key, <<"/">>) \/ base = DatastorePath -> NormalizePath(key)
    [] OTHER                              -> NormalizePath(base \o <<"/">> \o key)

KeyFailure(target, v, allowUnknown) ==
  LET rows == FindPathSchema(target) IN
  IF rows = {} THEN IF allowUnknown /\ InDatastore(target) THEN "none" ELSE "Invalid"
  ELSE LET row == CHOOSE r \in rows : TRUE IN
       IF row.permission # "rw" THEN "Forbidden"
       ELSE IF ValueOk(row, v) THEN "none" ELSE "Invalid"

\* "none", or the exception of the first key that raises one
ValidateWrite(path, body, allowUnknown) ==
  LET failure(i) == KeyFailure(Target(path, body[i][1]), body[i][2], allowUnknown)
      failed == {i \in DOMAIN body : failure(i) # "none"} IN
  IF ~InDatastore(path) THEN "Invalid"
  ELSE IF failed = {} THEN "none" ELSE failure(Min(failed))
=============================================================================
