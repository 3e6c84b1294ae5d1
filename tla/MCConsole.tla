----------------------------- MODULE MCConsole -----------------------------
(***************************************************************************)
(* Console for TLC: scripts, and requests that parseRequest cuts.          *)
(***************************************************************************)
EXTENDS Console

Words == {"/api/server", "code", "sid", "hi", "ho", "on", "off", "wrong", "x"}

Path == <<"/api/server">>

Asks(parameters) == [path |-> Path, parameters |-> parameters]

CodeName == <<"code">>

Runs(script) == [name |-> CodeName, value |-> script]

Sid == [name |-> <<"sid">>, value |-> <<"x">>]

\* Scripts that print twice, set the option, hold "=" and "?" and do not compile; a
\* second parameter, none, and a broken escape before an "&" in the script.
SomeAsks == {
    Asks(<<Runs(<<"hi", "hi">>)>>),
    Asks(<<Runs(<<"on", "ho">>)>>),
    Asks(<<Sid, Runs(<<"x", "=", "?", "off">>)>>),
    Asks(<<Runs(<<"hi", "wrong">>), Sid>>),
    Asks(<<>>),
    Asks(<<Runs(<<"ho", "%zz", "&", "hi">>)>>)}

Threads == Permutations(Thread)
=============================================================================
