------------------------------- MODULE Paths -------------------------------
(***************************************************************************)
(* motu_proxy/paths.py.  A path is a sequence of tokens: "/", a name, a     *)
(* slash that is percent-encoded once or twice, a blank, a blank that is   *)
(* encoded, or the scheme and host of an absolute URL.  Two names in a row *)
(* are one longer name.                                                    *)
(***************************************************************************)
EXTENDS Naturals, Sequences, FiniteSetsExt

Uids     == {"0123456789abcdef"}  \* sixteen hexadecimal digits
Host     == "http://host"
DatastorePath == <<"/", "datastore">>

StartsWith(p, prefix) == Len(prefix) <= Len(p) /\ SubSeq(p, 1, Len(prefix)) = prefix

\* path.strip()
StripBlanks(p) ==
  LET solid == {i \in DOMAIN p : p[i] # "blank"} IN
  IF solid = {} THEN <<>> ELSE SubSeq(p, Min(solid), Max(solid))

\* urllib.parse.unquote
Unquote(p) ==
  [i \in DOMAIN p |-> CASE p[i] = "%2F"   -> "/"
                        [] p[i] = "%252F" -> "%2F"
                        [] p[i] = "%20"   -> "blank"
                        [] OTHER          -> p[i]]

\* urlparse(path).path, of a path that starts with http:// or https://
WithoutHost(p) ==
  LET slashes == {i \in DOMAIN p : p[i] = "/"} IN
  IF ~StartsWith(p, <<Host>>) THEN p
  ELSE IF slashes = {} THEN <<>> ELSE SubSeq(p, Min(slashes), Len(p))

WithoutUid(p) ==
  IF \E u \in Uids : StartsWith(p, <<"/", u, "/">>) THEN SubSeq(p, 3, Len(p)) ELSE p

NormalizePath(path) ==
  LET decoded  == Unquote(StripBlanks(path))
      local    == WithoutUid(WithoutHost(decoded))
      absolute == IF StartsWith(local, <<"/">>) THEN local ELSE <<"/">> \o local
  IN CASE decoded = <<>> \/ absolute = <<"/">>        -> DatastorePath
       [] absolute = DatastorePath
          \/ StartsWith(absolute, DatastorePath \o <<"/">>)
          \/ absolute \in {<<"/", "apiversion">>, <<"/", "meters">>} -> absolute
       [] OTHER                                       -> DatastorePath \o absolute

\* Nothing of a normalised path is left that a second pass would decode or strip.
Settled(p) == (\A i \in 1..Len(p) : p[i] # "%2F") /\ p[Len(p)] # "blank"

=============================================================================
