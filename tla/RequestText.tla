---------------------------- MODULE RequestText ----------------------------
(***************************************************************************)
(* The url of a request as HttpServer::parseRequest (src/server.hpp) and   *)
(* decodeUrl (src/server.cpp) read it, and as a client writes it.          *)
(*                                                                         *)
(* A text is a sequence of tokens: characters, words without any special   *)
(* one, and whole escapes, such as "%26".                                  *)
(***************************************************************************)
EXTENDS Integers, Sequences, SequencesExt

CONSTANT
    Word           \* the words of urls

NUL == "NUL"

\* What decodeUrl makes of an escape.  One that is no number leaves 0.
Meaning == [e \in {"%26", "%3D", "%3F", "%zz"} |->
    CASE e = "%26" -> "&" [] e = "%3D" -> "=" [] e = "%3F" -> "?" [] e = "%zz" -> NUL]

Escape == DOMAIN Meaning

Token == Word \cup {"?", "&", "="}

ASSUME WordAssumption == Word \cap (Escape \cup {"?", "&", "=", NUL}) = {}

\* The first place of c in s, or one past the end.
Find(s, c) ==
    CHOOSE i \in 1 .. Len(s) + 1 :
        /\ i <= Len(s) => s[i] = c
        /\ \A j \in 1 .. i - 1 : s[j] # c

Before(s, c) == SubSeq(s, 1, Find(s, c) - 1)

After(s, c) == SubSeq(s, Find(s, c) + 1, Len(s))

Unescaped(text) == [i \in DOMAIN text |-> IF text[i] \in Escape THEN Meaning[text[i]] ELSE text[i]]

\* A mutated form of decodeUrl: the string is as long as its buffer.
DecodeAll(text) == Unescaped(text)

\* decodeUrl ends at the first 0 of its buffer.
decodeUrl(text) == Before(Unescaped(text), NUL)

\* The parts of s between c.
Parts(s, c) ==
    LET read[n \in 0 .. Len(s)] ==
            IF n = 0 THEN <<<<>>>>
            ELSE IF s[n] = c THEN Append(read[n - 1], <<>>)
            ELSE Append(Front(read[n - 1]), Append(Last(read[n - 1]), s[n]))
    IN read[Len(s)]

\* split reads the parts with getline: an empty one at the end is none.
split(s, c) ==
    LET parts == Parts(s, c)
    IN IF Last(parts) = <<>> THEN Front(parts) ELSE parts

\* The parameters of a decoded url, in their order.  A later one replaces one with
\* the same name.
Parameters(url) ==
    LET parts == split(After(url, "?"), "&")
    IN [i \in DOMAIN parts |-> [name |-> Before(parts[i], "="), value |-> After(parts[i], "=")]]

\* parseRequest decodes the url before it looks for "?", "&" and "=".
parseRequest(text) ==
    LET url == decodeUrl(text)
    IN IF Find(url, "?") < Len(url)
       THEN [url |-> Before(url, "?"), parameters |-> Parameters(url)]
       ELSE [url |-> url, parameters |-> <<>>]

\* request["parameters"][name], the empty text if there is none.
Parameter(request, name) ==
    LET places == {i \in DOMAIN request.parameters : request.parameters[i].name = name}
    IN IF places = {} THEN <<>> ELSE request.parameters[Max(places)].value

-----------------------------------------------------------------------------
(* What a client sends.                                                    *)

\* What a client may ask for.  "%zz" is a client's mistake.
Asked ==
    LET Sent == Token \cup {"%zz"}
    IN [path : Seq(Word), parameters : Seq([name : Seq(Sent), value : Seq(Sent)])]

\* Names and values are escaped.
Escaped(s) ==
    [i \in DOMAIN s |-> CASE s[i] = "&" -> "%26" [] s[i] = "=" -> "%3D"
                          [] s[i] = "?" -> "%3F" [] OTHER -> s[i]]

\* The n-th parameter of a url.
Written(p, n) ==
    (IF n = 1 THEN <<"?">> ELSE <<"&">>) \o Escaped(p.name) \o <<"=">> \o Escaped(p.value)

\* The text of a url: its path and its parameters.
Text(ask) ==
    LET text[n \in 0 .. Len(ask.parameters)] ==
            IF n = 0 THEN ask.path ELSE text[n - 1] \o Written(ask.parameters[n], n)
    IN text[Len(ask.parameters)]
=============================================================================
