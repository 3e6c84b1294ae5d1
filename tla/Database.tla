------------------------------ MODULE Database ------------------------------
(***************************************************************************)
(* The tables of main.db3 as the request handlers of src/plugin.cpp see    *)
(* them, and one operator per SQL statement the handlers run.  Every       *)
(* thread of the server shares one serialized SQLite connection (db), so a *)
(* statement is atomic and sqlite3_changes belongs to the connection.      *)
(*                                                                         *)
(* A row's id is its position: rows are inserted with AUTOINCREMENT and    *)
(* never deleted.  The columns no decision depends on (email, headline,    *)
(* content, url, date) are left out.  The columns sid and session are      *)
(* always written together and sid is the hash of session, so a sid IS its *)
(* session text: the name it was opened for, and a serial number for the   *)
(* time and random parts of the key.                                       *)
(***************************************************************************)
EXTENDS Integers, FiniteSets, Sequences, SequencesExt

CONSTANTS
    Name,             \* the usernames clients use
    NoName,           \* the empty username of a request without one
    Password,         \* the passwords clients use
    NoPass,           \* the empty password of a request without one
    Like,             \* the pairs <<pattern, text>> of names SQL's LIKE accepts
    TestName,         \* the name 'test', whose session survives a restart
    InitialUsers,     \* the users table when the server is started
    InitialComments   \* the comments table when the server is started

VARIABLES
    users,            \* the users table
    comments,         \* the comments table
    changed           \* sqlite3_changes(db) # 0

database == <<users, comments, changed>>

Sid == [owner : Name, nr : Nat]

\* The empty string in the columns sid and session, and a request without sid.
NoSid == [owner |-> NoName, nr |-> 0]

\* What getUserId returns when no row matches.
NoUser == -1

UserId == Nat \cup {NoUser}

User == [name : Name, password : Password, sid : Sid \cup {NoSid}]

Comment == [author : Name, votes : Seq(UserId)]

DatabaseTypeOK ==
    /\ users \in Seq(User)
    /\ comments \in Seq(Comment)
    /\ changed \in BOOLEAN

\* No repetition in a list of voters.
NoRepeat(s) == \A i, j \in DOMAIN s : s[i] = s[j] => i = j

\* Two rows never have one name: the UNIQUE constraint of the users table.
UniqueNames(rows) == \A i, j \in DOMAIN rows : rows[i].name = rows[j].name => i = j

ASSUME SentinelAssumption ==
    /\ NoName \notin Name
    /\ NoPass \notin Password
    /\ TestName \in Name

\* A name without an escape character matches itself as a pattern.
ASSUME LikeAssumption ==
    /\ Like \subseteq Name \X Name
    /\ \A n \in Name : <<n, n>> \in Like

ASSUME InitialAssumption ==
    /\ InitialUsers \in Seq(User)
    /\ UniqueNames(InitialUsers)
    /\ \A i \in DOMAIN InitialUsers : InitialUsers[i].sid \in {NoSid} \cup [owner : Name, nr : {0}]
    /\ InitialComments \in Seq(Comment)
    /\ \A c \in DOMAIN InitialComments : NoRepeat(InitialComments[c].votes)

\* Whoever is named in the file matches one of its accounts.
ASSUME OwnerAssumption ==
    /\ \A i \in DOMAIN InitialUsers :
         InitialUsers[i].sid # NoSid => <<InitialUsers[i].sid.owner, InitialUsers[i].name>> \in Like
    /\ \A c \in DOMAIN InitialComments :
         \E i \in DOMAIN InitialUsers : <<InitialComments[c].author, InitialUsers[i].name>> \in Like

DatabaseInit ==
    /\ users = InitialUsers
    /\ comments = InitialComments
    /\ changed = FALSE

-----------------------------------------------------------------------------
(* The conditions of the SELECT and WHERE clauses.                         *)

Rows == DOMAIN users

\* where name like n: the request's name is the pattern.
NameLike(n) == {i \in Rows : <<n, users[i].name>> \in Like}

\* where sid like s: a sid is 64 hexadecimal digits, or empty, and the empty
\* pattern matches exactly the rows without a session.
WithSid(s) == {i \in Rows : users[i].sid = s}

\* where sid like s [and name == n]
WithSession(s, n) == {i \in WithSid(s) : n = NoName \/ users[i].name = n}

\* The first row of an unordered scan of the users table.
FirstRow(S) == CHOOSE i \in S : \A j \in S : i <= j

\* select count(name) from users where name = n
NameTaken(n) == \E i \in Rows : users[i].name = n

\* A row holds the session s.
Live(s) == \E i \in Rows : users[i].sid = s

getUserId(n, s) ==
    LET rows == NameLike(n) \cup WithSid(s)
    IN  IF rows = {} THEN NoUser ELSE FirstRow(rows)

\* A mutated form of isUserValid: the password may be any account's.
AnyPasswordValid(n, p) == NameLike(n) # {} /\ \E i \in Rows : users[i].password = p

isUserValid(n, p) == \E i \in Rows : NameLike(n) = {i} /\ users[i].password = p

-----------------------------------------------------------------------------
(* The statements that write.  Each leaves the number of rows it changed   *)
(* with the connection.                                                    *)

\* update users set sid = s, session = ... where <the row is in S>
SetSid(S, s) ==
    /\ users' = [i \in Rows |-> IF i \in S THEN [users[i] EXCEPT !.sid = s] ELSE users[i]]
    /\ changed' = (S # {})
    /\ UNCHANGED comments

\* update users set password = p, ... where name == n; NoPass keeps the password.
SetPassword(n, p) ==
    /\ users' = [i \in Rows |-> IF users[i].name = n /\ p # NoPass
                                THEN [users[i] EXCEPT !.password = p] ELSE users[i]]
    /\ changed' = NameTaken(n)
    /\ UNCHANGED comments

\* insert into users ..., when the UNIQUE constraint allows it
InsertUserRow(n, p) ==
    /\ ~NameTaken(n)
    /\ users' = Append(users, [name |-> n, password |-> p, sid |-> NoSid])
    /\ changed' = TRUE
    /\ UNCHANGED comments

\* insert into comments ...
InsertCommentRow(author) ==
    /\ comments' = Append(comments, [author |-> author, votes |-> <<>>])
    /\ changed' = TRUE
    /\ UNCHANGED users

\* update comments set votes = v where id like c
SetVotes(c, v) ==
    /\ comments' = [i \in DOMAIN comments |->
                        IF i = c THEN [comments[i] EXCEPT !.votes = v] ELSE comments[i]]
    /\ changed' = (c \in DOMAIN comments)
    /\ UNCHANGED users

\* A statement a constraint refuses: nothing is written, no row is counted.
ConstraintFailed ==
    /\ changed' = FALSE
    /\ UNCHANGED <<users, comments>>
=============================================================================
