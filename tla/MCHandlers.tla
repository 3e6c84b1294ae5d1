----------------------------- MODULE MCHandlers -----------------------------
(***************************************************************************)
(* Handlers for TLC: a file of init.sql's shape, and names that LIKE tells *)
(* apart from, or takes for, each other.                                   *)
(***************************************************************************)
EXTENDS HandlerProperties

Threads == Permutations(Thread)

\* The accounts of init.sql: one without a session, and "test" with one.
Admin == [name |-> "admin", password |-> "code", sid |-> NoSid]
Test == [name |-> "test", password |-> "code", sid |-> [owner |-> "test", nr |-> 0]]

AdminAndTest == <<Admin, Test>>
OnlyTest == <<Test>>

\* The comment of init.sql.
Welcome == <<[author |-> "test", votes |-> <<>>]>>
NoComments == <<>>

Exactly == {<<n, n>> : n \in Name}

\* LIKE ignores the case of letters.
IgnoringCase == Exactly \cup {<<"bob", "Bob">>, <<"Bob", "bob">>}
=============================================================================
