--------------------------- MODULE MCConnections ---------------------------
(***************************************************************************)
(* Connections for TLC: requests of every kind.                            *)
(***************************************************************************)
EXTENDS Connections

Asks(line, op, length) ==
    [line |-> line, op |-> op, length |-> length, fields |-> <<>>, split |-> 0]

\* A payload of two fields, whose text is cut in two behind its k-th character.
Posts(username, password, k) ==
    [Asks("good", "payload", 2) EXCEPT !.split = k,
        !.fields = <<[key |-> <<"username">>, value |-> username],
                     [key |-> <<"password">>, value |-> password]>>]

\* {"username":"bob",  "password":"two\nlines"}
Plain == Posts(<<"bob">>, <<"two", "newline", "lines">>, 9)

\* {"username":"bob","password":"}  more"}
Braced == Posts(<<"bob">>, <<"}", "more">>, 15)

\* Payloads that may be cut, behind a comma or behind a brace, a big file, a script
\* that stops the server, and a request that is not HTTP/1.1.
Wants == {Plain, Braced, Asks("good", "file", 0), Asks("good", "stop", 0), Asks("bad", "other", 0)}

\* What the proofs of PunctualPayloadWhole and WholeOrNothing take from the parser,
\* and what that of TypeOK does.
ASSUME ParserAssumption == ParserUndoesPrinter
ASSUME TextsAssumption == ReadingsAreTexts
=============================================================================
