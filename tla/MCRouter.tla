------------------------------ MODULE MCRouter ------------------------------
(***************************************************************************)
(* Router for TLC, with the plugins of src/server.cpp and src/plugins.json *)
(* in the order they are registered.                                       *)
(***************************************************************************)
EXTENDS Router

Api(piece) == <<"/", "api/", piece>>

Root == <<"/">>

Entry(name, method, suburl) == [name |-> name, methods |-> {method}, suburl |-> suburl, active |-> TRUE]

AllPlugins == <<
    Entry("call as function", "GET", Api("server")),
    Entry("get-stats", "GET", Api("stats")),
    Entry("get-file", "GET", Root),
    Entry("get-comments", "GET", Api("comments")),
    Entry("get-top-sites", "GET", Api("sites")),
    Entry("post-comment", "POST", Api("comments")),
    Entry("vote-comment", "PATCH", Api("comments")),
    Entry("signup", "POST", Api("signup")),
    Entry("signin", "GET", Api("signin")),
    Entry("check-sid", "GET", Api("checksid")),
    Entry("signout", "GET", Api("signout")),
    Entry("set-user-data", "PATCH", Api("user")),
    Entry("is-username-available", "GET", Api("checkuser")),
    Entry("set-user-data", "PATCH", Api("user")),
    Entry("options-200", "OPTIONS", Root)>>

Asks(method, url) == [method |-> method, url |-> url, name |-> "get-comments", active |-> TRUE]

Calls(name, active) == [method |-> "GET", url |-> Api("server"), name |-> name, active |-> active]

\* A url that two plugins match, one that two copies of a plugin match, one
\* that none does; and the scripts.
SomeRequests ==
    {Asks("GET", Api("comments")), Asks("PATCH", Api("user")), Asks("POST", Root)}
    \cup {Calls(n, a) : n \in ScriptName, a \in BOOLEAN}

Threads == Permutations(Thread)
=============================================================================
