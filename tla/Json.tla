-------------------------------- MODULE Json --------------------------------
(***************************************************************************)
(* The parser of src/src/utils/json.cpp, and the text of a payload as      *)
(* clients write it: an object of strings.                                 *)
(*                                                                         *)
(* A text is a sequence of characters, where a word without any special    *)
(* character counts as one, and so does the escape "\\n".  The parser      *)
(* splits an object or an array at the commas it does not find inside      *)
(* something, and parses the parts; it reads past the end of a text that   *)
(* leaves something open.                                                  *)
(***************************************************************************)
EXTENDS Integers, Sequences, SequencesExt

Quote == "\""
Backslash == "\\"

\* The values, without those of numbers.  Undefined: the parser reads what is not
\* the text's, or throws.
Null == [type |-> "null"]
Number == [type |-> "number"]
Bool(b) == [type |-> "bool", val |-> b]
Undefined == [type |-> "undefined"]

\* The text without spaces at both ends.
Trim(s) ==
    LET kept == {i \in DOMAIN s : s[i] # " "}
    IN IF kept = {} THEN <<>> ELSE SubSeq(s, Min(kept), Max(kept))

Closer == [c \in {"{", "["} |-> IF c = "{" THEN "}" ELSE "]"]

\* How deep the scan is after c in the braces, or the brackets, it is inside of.
Depth(scan, c) ==
    CASE scan.inside \in DOMAIN Closer ->
            scan.depth + (IF c = scan.inside THEN 1 ELSE IF c = Closer[scan.inside] THEN -1 ELSE 0)
      [] scan.inside = "" /\ c \in DOMAIN Closer -> 1
      [] OTHER -> 0

\* What the scan is inside of after c.  Inside braces it does not look for quotes.
Inside(scan, c) ==
    CASE scan.inside = "" -> IF c \in DOMAIN Closer \cup {Quote} THEN c ELSE ""
      [] scan.inside = Quote -> IF c = Quote THEN "" ELSE IF c = Backslash THEN c ELSE Quote
      [] scan.inside = Backslash -> Quote
      [] OTHER -> IF Depth(scan, c) = 0 THEN "" ELSE scan.inside

NoScan == [parts |-> <<>>, part |-> <<>>, inside |-> "", depth |-> 0]

\* A comma, or the end, ends a part that has begun.
Consume(scan, c, end) ==
    IF scan.inside = "" /\ c \in {",", end} /\ scan.part # <<>>
    THEN [NoScan EXCEPT !.parts = Append(scan.parts, scan.part)]
    ELSE [scan EXCEPT !.part = Append(@, c), !.inside = Inside(scan, c), !.depth = Depth(scan, c)]

\* The parts of what follows the opening brace or bracket.
Scan(s, end) == FoldLeft(LAMBDA scan, c : Consume(scan, c, end), NoScan, s)

Colon(part) == SelectInSeq(part, LAMBDA c : c = ":")

\* What a member has before its colon, with the quotes.
QuotedKey(part) == Trim(SubSeq(part, 1, Colon(part) - 1))

IsMember(part) == Colon(part) # 0 /\ Len(QuotedKey(part)) >= 2

KeyOf(part) == SubSeq(QuotedKey(part), 2, Len(QuotedKey(part)) - 1)

ValueOf(part) == SubSeq(part, Colon(part) + 1, Len(part))

\* A mutated form of Closed: the last character is not looked at.
MaybeClosed(s, end) == TRUE

Closed(s, end) == Last(s) = end

\* Of the escapes deflate knows "\n", and neither "\"" nor "\\".
deflate(s) == [i \in DOMAIN s |-> IF s[i] = "\\n" THEN "newline" ELSE s[i]]

\* What is neither an object nor an array.  A number is what is nothing else.
Scalar(s) ==
    CASE s[1] = Quote -> IF Len(s) >= 2 THEN [type |-> "string", val |-> deflate(Tail(Front(s)))] ELSE Null
      [] s[1] \in {"true", "false"} -> Bool(s[1] = "true")
      [] s[1] = "null" -> Null
      [] OTHER -> Number

Object(parts, values) ==
    [type |-> "object",
     val |-> [key \in {KeyOf(parts[i]) : i \in DOMAIN parts} |->
        values[Max({i \in DOMAIN parts : KeyOf(parts[i]) = key})]]]

\* An object that is not closed is null, an array empty or null likewise.
parse(source) ==
    LET value[text \in Seq(STRING)] ==
            LET s == Trim(text)
                scan == Scan(Tail(s), Closer[s[1]])
                values == [i \in DOMAIN scan.parts |->
                    IF s[1] = "[" THEN value[scan.parts[i]]
                    ELSE IF IsMember(scan.parts[i]) THEN value[ValueOf(scan.parts[i])] ELSE Undefined]
            IN IF s = <<>> THEN Null
               ELSE IF s[1] \notin DOMAIN Closer THEN Scalar(s)
               ELSE IF ~Closed(s, Closer[s[1]]) THEN Null
               ELSE IF scan.inside # "" \/ \E i \in DOMAIN values : values[i].type = "undefined"
               THEN Undefined
               ELSE IF s[1] = "[" THEN [type |-> "array", val |-> values]
               ELSE Object(scan.parts, values)
    IN value[source]

\* data[key].toString() of an object whose values are strings, or of no object.
Field(data, key) ==
    IF data.type = "object" /\ key \in DOMAIN data.val THEN data.val[key].val ELSE <<>>

-----------------------------------------------------------------------------
(* What a client sends.                                                    *)

Escape == [c \in {Quote, Backslash, "newline"} |->
    IF c = "newline" THEN <<"\\n">> ELSE <<Backslash, c>>]

Quoted(s) ==
    <<Quote>> \o FlattenSeq([i \in DOMAIN s |-> IF s[i] \in DOMAIN Escape THEN Escape[s[i]] ELSE <<s[i]>>])
              \o <<Quote>>

\* The payload with these fields, in their order.
Stringify(fields) ==
    <<"{">> \o FlattenSeq([i \in DOMAIN fields |->
                (IF i = 1 THEN <<>> ELSE <<",">>)
                    \o Quoted(fields[i].key) \o <<":">> \o Quoted(fields[i].value)])
            \o <<"}">>
=============================================================================
