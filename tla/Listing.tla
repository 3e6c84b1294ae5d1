------------------------------ MODULE Listing ------------------------------
(***************************************************************************)
(* getComments and getTopSites of src/plugin.cpp.  Each handler has one    *)
(* prepared statement, static and so shared by every thread that serves    *)
(* it: a thread resets it, binds its two arguments and steps it until it   *)
(* is done, and no lock keeps other threads from it meanwhile.  Other      *)
(* handlers post comments and vote.                                        *)
(*                                                                         *)
(* Every call of SQLite is a step, but the calls that read the columns of  *)
(* one row are taken together.  What a thread collects after another one   *)
(* has used its statement may be anything, and is left out.                *)
(***************************************************************************)
EXTENDS Integers, FiniteSets, FiniteSetsExt, SequencesExt

CONSTANTS
    Thread,        \* the threads that serve listings
    Site,          \* the urls comments are posted for
    AnySite,       \* the pattern that every url matches
    Voter,         \* the ids of the users who vote
    NoUser,        \* the id of nobody
    Limit,         \* the counts clients ask for
    Requests,      \* the requests clients send
    MaxComments,   \* bound: rows in the comments table
    MaxSeen        \* bound: the contents of the table while one listing is made

VARIABLES
    comments,      \* the comments table: where a comment is, and who voted
    stmt,          \* the two statements
    pc,            \* the call each thread makes next
    req,           \* the request each thread serves
    got,           \* what sqlite3_step last returned to each thread
    listing,       \* what each thread has collected, and no other has disturbed
    \* History, which no handler reads:
    alone,         \* the threads whose statement no other has used since their reset
    seen           \* the contents of the table since the reset of those threads

vars == <<comments, stmt, pc, req, got, listing, alone, seen>>

Kind == {"comments", "sites"}

Pattern == Site \cup {AnySite}

Comment == [site : Site, votes : SUBSET Voter]

Request == [kind : Kind, site : Pattern, limit : Limit, user : Voter \cup {NoUser}]

\* The request of a thread that serves none.
NoRequest == [kind |-> "none"]

Entry == [id : 1 .. MaxComments, likes : Nat, voted : BOOLEAN] \cup [site : Site, count : Nat]

ASSUME ListingAssumption ==
    /\ AnySite \notin Site
    /\ NoUser \notin Voter /\ IsFiniteSet(Voter)
    /\ Limit \subseteq Nat
    /\ Requests \subseteq Request
    /\ MaxComments \in Nat /\ MaxSeen \in Nat

-----------------------------------------------------------------------------
(* The queries.                                                            *)

\* where url like pattern
Matching(table, pattern) ==
    {c \in DOMAIN table : pattern = AnySite \/ table[c].site = pattern}

CommentRows(table, pattern) ==
    {[id |-> c, votes |-> table[c].votes, count |-> Cardinality(table[c].votes)] :
        c \in Matching(table, pattern)}

SiteRows(table, pattern) ==
    {[site |-> s, count |-> Cardinality({c \in Matching(table, pattern) : table[c].site = s})] :
        s \in {table[c].site : c \in Matching(table, pattern)}}

\* order by count desc limit n: rows that tie come in any order.
Ordered(rows, n) ==
    LET size == IF Cardinality(rows) < n THEN Cardinality(rows) ELSE n
        Descending(s) == \A i, j \in DOMAIN s : i < j => s[i].count >= s[j].count
        Best(s) == \A x \in rows \ ToSet(s), i \in DOMAIN s : s[i].count >= x.count
    IN  {s \in UNION {SetToSeqs(S) : S \in kSubset(size, rows)} :
            Descending(s) /\ Best(s)}

\* What a statement may return from a table, given its arguments.
Results(kind, table, pattern, n) ==
    Ordered(IF kind = "comments" THEN CommentRows(table, pattern) ELSE SiteRows(table, pattern), n)

\* What a handler makes of rows.
EntriesOf(r, rows) ==
    IF r.kind = "sites" THEN rows
    ELSE [i \in DOMAIN rows |-> [id |-> rows[i].id, likes |-> rows[i].count,
                                 voted |-> r.user \in rows[i].votes]]

-----------------------------------------------------------------------------
(* The statements.                                                         *)

\* A statement that was reset: SQLite computes its rows at the next step, as
\* they have to be sorted.
Fresh == [site |-> AnySite, limit |-> 0, rows |-> <<>>, at |-> 0, status |-> "row"]

StatementOK(s) ==
    /\ s.site \in Pattern
    /\ s.limit \in Limit \cup {0}
    /\ s.at \in 0 .. Len(s.rows) + 1
    /\ s.status \in {"row", "done"}

TypeOK ==
    /\ comments \in Seq(Comment) /\ Len(comments) <= MaxComments
    /\ DOMAIN stmt = Kind /\ \A k \in Kind : StatementOK(stmt[k])
    /\ pc \in [Thread -> {"idle", "reset", "bindSite", "bindLimit", "test", "step", "columns", "reply"}]
    /\ req \in [Thread -> Request \cup {NoRequest}]
    /\ got \in [Thread -> {"row", "done"}]
    /\ listing \in [Thread -> Seq(Entry)]
    /\ alone \subseteq Thread

Init ==
    /\ comments = <<>>
    /\ stmt = [k \in Kind |-> Fresh]
    /\ pc = [t \in Thread |-> "idle"]
    /\ req = [t \in Thread |-> NoRequest]
    /\ got = [t \in Thread |-> "row"]
    /\ listing = [t \in Thread |-> <<>>]
    /\ seen = [t \in Thread |-> {}]
    /\ alone = {}

\* The statement of the request t serves.
Mine(t) == stmt[req[t].kind]

\* The other threads that use the statement of t.
Others(t) == {u \in Thread \ {t} : req[u].kind = req[t].kind}

\* t has changed its statement to s, and disturbs the others who use it.
Use(t, s) ==
    /\ stmt' = [stmt EXCEPT ![req[t].kind] = s]
    /\ alone' = alone \ Others(t)
    /\ seen' = [u \in Thread |-> IF u \in Others(t) THEN {} ELSE seen[u]]

\* What the threads have collected when t adds the entries of s.
Collect(t, s) ==
    listing' = [u \in Thread |-> IF u \in Others(t) THEN <<>>
                                 ELSE IF u = t /\ t \in alone THEN listing[t] \o s ELSE listing[u]]

Goto(t, from, to) == pc[t] = from /\ pc' = [pc EXCEPT ![t] = to]

-----------------------------------------------------------------------------
(* The handlers that list.                                                 *)

\* A request arrives; getUserId has found its user.
Accept(t) ==
    /\ Goto(t, "idle", "reset")
    /\ \E r \in Requests : req' = [req EXCEPT ![t] = r]
    /\ UNCHANGED <<comments, stmt, got, listing, alone, seen>>

\* A mutated form of ResetStatement: m_status keeps its value.
StatusKept(s) == [s EXCEPT !.at = 0, !.rows = <<>>]

ResetStatement(s) == [s EXCEPT !.at = 0, !.rows = <<>>, !.status = "row"]

\* stmt::reset
Reset(t) ==
    /\ Goto(t, "reset", "bindSite")
    /\ stmt' = [stmt EXCEPT ![req[t].kind] = ResetStatement(Mine(t))]
    /\ alone' = (alone \ Others(t)) \cup {t}
    /\ seen' = [u \in Thread |-> IF u = t THEN {comments}
                                 ELSE IF u \in Others(t) THEN {} ELSE seen[u]]
    /\ Collect(t, <<>>)
    /\ UNCHANGED <<comments, req, got>>

\* stmt::setArgs: SQLite refuses to bind arguments of a statement that was
\* stepped and not reset, and setArgs ignores that.
BindSite(t) ==
    /\ Goto(t, "bindSite", "bindLimit")
    /\ Use(t, IF Mine(t).at = 0 THEN [Mine(t) EXCEPT !.site = req[t].site] ELSE Mine(t))
    /\ Collect(t, <<>>)
    /\ UNCHANGED <<comments, req, got>>

\* A mutated form of BindLimit: the index of the argument is not advanced.
LimitBoundFirst(t) ==
    /\ Goto(t, "bindLimit", "test")
    /\ Use(t, IF Mine(t).at = 0 THEN [Mine(t) EXCEPT !.site = req[t].limit] ELSE Mine(t))
    /\ Collect(t, <<>>)
    /\ UNCHANGED <<comments, req, got>>

BindLimit(t) ==
    /\ Goto(t, "bindLimit", "test")
    /\ Use(t, IF Mine(t).at = 0 THEN [Mine(t) EXCEPT !.limit = req[t].limit] ELSE Mine(t))
    /\ Collect(t, <<>>)
    /\ UNCHANGED <<comments, req, got>>

\* while(stmt.status() == SQLITE_ROW)
Test(t) ==
    /\ \/ Goto(t, "test", "step") /\ Mine(t).status = "row"
       \/ Goto(t, "test", "reply") /\ Mine(t).status = "done"
    /\ UNCHANGED <<comments, stmt, req, got, listing, alone, seen>>

\* The statement after sqlite3_step: one that was reset, or that is done, runs
\* its query.
Stepped(kind, s) ==
    IF s.at \in DOMAIN s.rows
    THEN {IF s.at < Len(s.rows) THEN [s EXCEPT !.at = @ + 1] ELSE [s EXCEPT !.at = 1, !.rows = <<>>]}
    ELSE {[s EXCEPT !.at = 1, !.rows = r] : r \in Results(kind, comments, s.site, s.limit)}

\* stmt::next calls sqlite3_step.
Step(t) ==
    /\ Goto(t, "step", "columns")
    /\ \E s \in Stepped(req[t].kind, Mine(t)) :
        /\ Use(t, s)
        /\ got' = [got EXCEPT ![t] = IF s.at \in DOMAIN s.rows THEN "row" ELSE "done"]
    /\ Collect(t, <<>>)
    /\ UNCHANGED <<comments, req>>

\* The columns of the row a statement is at are NULL, which the handlers skip,
\* when it is at none.
RowAt(s) == IF s.at \in DOMAIN s.rows THEN <<s.rows[s.at]>> ELSE <<>>

\* stmt::next stores what sqlite3_step returned and reads the columns.
Columns(t) ==
    /\ Goto(t, "columns", "test")
    /\ Use(t, [Mine(t) EXCEPT !.status = got[t]])
    /\ Collect(t, EntriesOf(req[t], RowAt(Mine(t))))
    /\ got' = [got EXCEPT ![t] = "row"]
    /\ UNCHANGED <<comments, req>>

\* The answer is sent.
Close(t) ==
    /\ Goto(t, "reply", "idle")
    /\ req' = [req EXCEPT ![t] = NoRequest]
    /\ listing' = [listing EXCEPT ![t] = <<>>]
    /\ alone' = alone \ {t}
    /\ seen' = [seen EXCEPT ![t] = {}]
    /\ UNCHANGED <<comments, stmt, got>>

Serve(t) ==
    \/ Reset(t) \/ BindSite(t) \/ BindLimit(t) \/ Test(t) \/ Step(t) \/ Columns(t) \/ Close(t)

-----------------------------------------------------------------------------
(* The handlers that write.                                                *)

Write(table) ==
    /\ \A t \in alone : Cardinality(seen[t] \cup {table}) <= MaxSeen
    /\ comments' = table
    /\ seen' = [t \in Thread |-> IF t \in alone THEN seen[t] \cup {table} ELSE {}]
    /\ UNCHANGED <<stmt, pc, req, got, listing, alone>>

\* postComment
Post ==
    /\ Len(comments) < MaxComments
    /\ \E s \in Site : Write(Append(comments, [site |-> s, votes |-> {}]))

\* voteComment: a user votes, or takes the vote back.
Vote ==
    \E c \in DOMAIN comments, u \in Voter :
        Write([comments EXCEPT ![c].votes = IF u \in @ THEN @ \ {u} ELSE @ \cup {u}])

Next == Post \/ Vote \/ \E t \in Thread : Accept(t) \/ Serve(t)

Spec == Init /\ [][Next]_vars

-----------------------------------------------------------------------------
(* Properties.                                                             *)

\* The entries a request asks for, if the table is as given.
Asked(r, table) ==
    {EntriesOf(r, rows) : rows \in Results(r.kind, table, r.site, r.limit)}

\* A listing whose statement no other thread touched is complete, sorted and
\* taken at one moment of the request, whatever was posted or voted meanwhile
\* and in whatever state earlier requests, also those that disturbed each
\* other, left the statement.
UndisturbedListingIsSnapshot ==
    \A t \in alone : pc[t] = "reply" => \E table \in seen[t] : listing[t] \in Asked(req[t], table)
=============================================================================
