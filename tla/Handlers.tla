------------------------------ MODULE Handlers ------------------------------
(***************************************************************************)
(* The account, session and comment handlers of src/plugin.cpp, run by     *)
(* detached threads (HttpServer::run) over the one database connection.    *)
(* A thread's step is one SQL statement, or the reading of                 *)
(* sqlite3_changes, with everything the handler computes up to the next    *)
(* statement: between two steps any other thread may run.                  *)
(*                                                                         *)
(* pc[t] names the statement thread t runs next:                           *)
(*   "uid"           getUserId                                             *)
(*   "cred"          isUserValid                                           *)
(*   "storedSid"     createSession reads the session the row already has   *)
(*   "sess"          isSessionValid reads the session                      *)
(*   "expire"        isSessionValid drops a session that timed out         *)
(*   "storeSid"      createSession stores a fresh session                  *)
(*   "dropSid"       signout                                               *)
(*   "nameFree", "insertUser"                 signup                       *)
(*   "countName"                              usernameAvailable            *)
(*   "readVotes", "writeVotes"                voteComment                  *)
(*   "insertComment"                          postComment                  *)
(*   "update"                                 changeUserData               *)
(*   "changes"       the handler reads sqlite3_changes                     *)
(* besides "idle" (no request) and "replied" (the answer is being sent).   *)
(***************************************************************************)
EXTENDS Database

CONSTANTS
    Thread,        \* the threads HttpServer::run may have running at a time
    Op,            \* the operations clients request
    MaxKeys,       \* bound: sessions created
    MaxComments    \* bound: rows in the comments table

VARIABLES
    pc,            \* the statement each thread runs next
    req,           \* the request each thread serves
    local,         \* the handler's local variables that outlive a statement
    reply,         \* the status code of each thread's answer, 0 before it
    expired,       \* the sessions whose timeout has passed
    keys,          \* the session keys made so far
    known,         \* the sids clients have received
    granted        \* how often clients were told that signup made a name theirs

threads == <<pc, req, local, reply>>
clients == <<known, granted>>
vars == <<database, threads, expired, keys, clients>>

Operations == {"signup", "signin", "checksid", "signout", "post", "vote", "change", "checkuser"}

Label == {"idle", "uid", "cred", "storedSid", "sess", "expire", "storeSid", "dropSid", "nameFree",
          "insertUser", "countName", "readVotes", "writeVotes", "insertComment", "update",
          "changes", "replied"}

Status == {0, 200, 400, 401, 403, 404, 409, 500}

\* What a handler reads from its request.  fresh is the new password of
\* changeUserData (NoPass: none) and email tells whether it sends an email.
Request == [op : Operations, name : Name \cup {NoName}, pass : Password \cup {NoPass},
            sid : Sid \cup {NoSid}, id : Nat, vote : BOOLEAN,
            fresh : Password \cup {NoPass}, email : BOOLEAN]

Local == [uid : UserId, votes : Seq(UserId), sid : Sid \cup {NoSid}]

NoRequest == [op |-> "checksid", name |-> NoName, pass |-> NoPass, sid |-> NoSid,
              id |-> 0, vote |-> FALSE, fresh |-> NoPass, email |-> FALSE]

NoLocal == [uid |-> NoUser, votes |-> <<>>, sid |-> NoSid]

TypeOK ==
    /\ DatabaseTypeOK
    /\ pc \in [Thread -> Label]
    /\ req \in [Thread -> Request]
    /\ local \in [Thread -> Local]
    /\ reply \in [Thread -> Status]
    /\ expired \subseteq Sid
    /\ keys \in Nat
    /\ known \subseteq Sid \cup {NoSid}
    /\ granted \in [Name -> Nat]

ASSUME OpAssumption == Op \subseteq Operations

ASSUME BoundAssumption == MaxKeys \in Nat /\ MaxComments \in Nat

Init ==
    /\ DatabaseInit
    /\ pc = [t \in Thread |-> "idle"]
    /\ req = [t \in Thread |-> NoRequest]
    /\ local = [t \in Thread |-> NoLocal]
    /\ reply = [t \in Thread |-> 0]
    /\ expired = {}
    /\ keys = 0
    /\ known = {users[i].sid : i \in {j \in Rows : users[j].sid # NoSid}}
    /\ granted = [n \in Name |-> 0]

-----------------------------------------------------------------------------
(* The requests clients send.                                              *)

\* The requests of an operation with these names, passwords and sids.
Sends(op, names, passes, sids) ==
    [op : {op}, name : names, pass : passes, sid : sids,
     id : IF op = "vote" THEN 1 .. MaxComments ELSE {0},
     vote : IF op = "vote" THEN BOOLEAN ELSE {FALSE},
     fresh : IF op = "change" THEN Password \cup {NoPass} ELSE {NoPass},
     email : IF op = "change" THEN BOOLEAN ELSE {FALSE}]

\* A post or a vote sends name and password, a sid, or a name and a sid; a
\* signout a sid, nothing, or (README) a name.
Requests(op) ==
    CASE op \in {"signup", "signin", "change"} -> Sends(op, Name, Password, {NoSid})
      [] op = "checksid" -> Sends(op, {NoName}, {NoPass}, known \cup {NoSid})
      [] op = "signout" -> Sends(op, {NoName}, {NoPass}, known \cup {NoSid})
                           \cup Sends(op, Name, {NoPass}, {NoSid})
      [] op = "checkuser" -> Sends(op, Name, {NoPass}, {NoSid})
      [] op \in {"post", "vote"} -> Sends(op, Name, Password, {NoSid})
                                   \cup Sends(op, Name \cup {NoName}, {NoPass}, known)

\* The first statement of each handler.
FirstLabel(op) ==
    CASE op = "signup" -> "nameFree"
      [] op \in {"signin", "post", "change"} -> "cred"
      [] op = "checksid" -> "sess"
      [] op = "signout" -> "dropSid"
      [] op = "vote" -> "uid"
      [] op = "checkuser" -> "countName"

Busy(op) == {t \in Thread : pc[t] # "idle" /\ req[t].op = op}

\* A request arrives and is read and parsed.
Accept(t) ==
    /\ pc[t] = "idle"
    /\ \E op \in Op : \E r \in Requests(op) :
        /\ op = "signin" => keys + Cardinality(Busy("signin")) < MaxKeys
        /\ op = "post" => Len(comments) + Cardinality(Busy("post")) < MaxComments
        /\ req' = [req EXCEPT ![t] = r]
        /\ local' = [local EXCEPT ![t].sid = r.sid]
        /\ pc' = [pc EXCEPT ![t] = FirstLabel(op)]
    /\ UNCHANGED <<database, reply, expired, keys, clients>>

-----------------------------------------------------------------------------
(* The steps of the handlers.                                              *)

At(t, label) == pc[t] = label

Goto(t, label) == pc' = [pc EXCEPT ![t] = label] /\ UNCHANGED reply

\* The handler returns, and constructHttpResponse prints the status.
Answer(t, status) ==
    /\ pc' = [pc EXCEPT ![t] = "replied"]
    /\ reply' = [reply EXCEPT ![t] = status]

\* A step that changes neither the handler's locals nor the clock.
KeepLocals == UNCHANGED <<req, local, expired, keys, clients>>

\* voteComment takes the voter's id before it checks the credentials.
GetUserId(t) ==
    /\ At(t, "uid")
    /\ local' = [local EXCEPT ![t].uid = getUserId(req[t].name, req[t].sid)]
    /\ Goto(t, "cred")
    /\ UNCHANGED <<database, req, expired, keys, clients>>

\* isUserValid, and what each handler does with its answer: a valid password
\* makes || skip isSessionValid.
CheckCredentials(t) ==
    /\ At(t, "cred")
    /\ IF isUserValid(req[t].name, req[t].pass)
       THEN \/ req[t].op = "signin" /\ Goto(t, "storedSid")
            \/ req[t].op = "post" /\ Goto(t, "insertComment")
            \/ req[t].op = "vote" /\ Goto(t, "readVotes")
            \/ req[t].op = "change" /\ Goto(t, "update")
       ELSE \/ req[t].op = "signin" /\ Answer(t, 403)
            \/ req[t].op \in {"post", "vote"} /\ Goto(t, "sess")
            \/ req[t].op = "change" /\ Answer(t, 401)
    /\ KeepLocals
    /\ UNCHANGED database

\* A mutated form of ReadStoredSid: the SELECT has no where clause.
ReadAnySid(t) ==
    /\ At(t, "storedSid")
    /\ local' = [local EXCEPT ![t].sid = users[FirstRow(Rows)].sid]
    /\ Goto(t, "sess")
    /\ UNCHANGED <<database, req, expired, keys, clients>>

\* createSession: the sid the first matching row has now.
ReadStoredSid(t) ==
    /\ At(t, "storedSid")
    /\ local' = [local EXCEPT ![t].sid = users[FirstRow(NameLike(req[t].name))].sid]
    /\ Goto(t, "sess")
    /\ UNCHANGED <<database, req, expired, keys, clients>>

\* A mutated form of SessionName: no handler passes its name on.
NoSessionName(t) == NoName

\* The name isSessionValid looks for beside the sid: checksid and
\* createSession pass none.
SessionName(t) == IF req[t].op \in {"post", "vote"} THEN req[t].name ELSE NoName

SessionFound(t) ==
    /\ local[t].sid # NoSid
    /\ Cardinality(WithSession(local[t].sid, SessionName(t))) = 1

WhenSessionValid(t) ==
    \/ req[t].op \in {"checksid", "signin"} /\ Answer(t, 200)
    \/ req[t].op = "post" /\ Goto(t, "insertComment")
    \/ req[t].op = "vote" /\ Goto(t, "readVotes")

\* A mutated form of WhenSessionInvalid: a sign-in waits for a session to reuse.
SessionAwaited(t) ==
    \/ req[t].op = "signin" /\ Goto(t, "storedSid")
    \/ req[t].op \in {"checksid", "vote"} /\ Answer(t, 401)
    \/ req[t].op = "post" /\ Answer(t, 403)

WhenSessionInvalid(t) ==
    \/ req[t].op = "signin" /\ Goto(t, "storeSid")
    \/ req[t].op \in {"checksid", "vote"} /\ Answer(t, 401)
    \/ req[t].op = "post" /\ Answer(t, 403)

\* isSessionValid reads the session and compares its timeout with the clock.
CheckSession(t) ==
    /\ At(t, "sess")
    /\ \/ SessionFound(t) /\ local[t].sid \notin expired /\ WhenSessionValid(t)
       \/ SessionFound(t) /\ local[t].sid \in expired /\ Goto(t, "expire")
       \/ ~SessionFound(t) /\ WhenSessionInvalid(t)
    /\ KeepLocals
    /\ UNCHANGED database

\* A mutated form of ExpireSession: the UPDATE has no where clause.
ExpireAllSessions(t) ==
    /\ At(t, "expire")
    /\ SetSid(Rows, NoSid)
    /\ WhenSessionInvalid(t)
    /\ KeepLocals

\* isSessionValid drops the session it found timed out, by its owner's name.
ExpireSession(t) ==
    /\ At(t, "expire")
    /\ SetSid(NameLike(local[t].sid.owner), NoSid)
    /\ WhenSessionInvalid(t)
    /\ KeepLocals

\* Mutated forms of FreshSid: the key lacks the name, or an old key is reused.
NamelessSid(t) == [owner |-> NoName, nr |-> keys + 1]

ReusedSid(t) == IF local[t].sid # NoSid THEN local[t].sid
                ELSE [owner |-> req[t].name, nr |-> keys + 1]

\* createSession makes a fresh key and stores it in every matching row.
FreshSid(t) == [owner |-> req[t].name, nr |-> keys + 1]

StoreSidIn(t, rows) ==
    /\ At(t, "storeSid")
    /\ SetSid(rows, FreshSid(t))
    /\ local' = [local EXCEPT ![t].sid = FreshSid(t)]
    /\ keys' = keys + 1
    /\ Goto(t, "changes")
    /\ UNCHANGED <<req, expired, clients>>

\* Mutated forms of StoreSid: the row is found by its old sid, or by the exact name.
StoreSidByOldSid(t) == StoreSidIn(t, WithSid(local[t].sid))

StoreSidByExactName(t) == StoreSidIn(t, {i \in Rows : users[i].name = req[t].name})

StoreSid(t) == StoreSidIn(t, NameLike(req[t].name))

\* A mutated form of DropSid: only a session that has not timed out is dropped.
DropValidSid(t) ==
    /\ At(t, "dropSid")
    /\ SetSid({i \in WithSid(req[t].sid) : req[t].sid \notin expired}, NoSid)
    /\ Answer(t, 200)
    /\ KeepLocals

\* signout; without a sid the empty pattern matches the rows without one.
DropSid(t) ==
    /\ At(t, "dropSid")
    /\ SetSid(WithSid(req[t].sid), NoSid)
    /\ Answer(t, 200)
    /\ KeepLocals

\* A mutated form of CheckNameFree: names are compared with =.
CheckNameUnequal(t) ==
    /\ At(t, "nameFree")
    /\ IF NameTaken(req[t].name) THEN Answer(t, 403) ELSE Goto(t, "insertUser")
    /\ KeepLocals
    /\ UNCHANGED database

\* signup: no row may match the name as a pattern.
CheckNameFree(t) ==
    /\ At(t, "nameFree")
    /\ IF NameLike(req[t].name) = {} THEN Goto(t, "insertUser") ELSE Answer(t, 403)
    /\ KeepLocals
    /\ UNCHANGED database

\* A mutated form of InsertUser: a refused row is not tried again.
InsertUserOnce(t) ==
    /\ At(t, "insertUser")
    /\ \/ InsertUserRow(req[t].name, req[t].pass)
       \/ NameTaken(req[t].name) /\ ConstraintFailed
    /\ Goto(t, "changes")
    /\ KeepLocals

\* signup inserts the row.  A row the UNIQUE constraint refuses is tried again:
\* exec<0> steps the statement until it is SQLITE_DONE.
InsertUser(t) ==
    /\ At(t, "insertUser")
    /\ \/ InsertUserRow(req[t].name, req[t].pass) /\ Goto(t, "changes")
       \/ NameTaken(req[t].name) /\ ConstraintFailed /\ Goto(t, "insertUser")
    /\ KeepLocals

\* usernameAvailable compares names with =.
CountName(t) ==
    /\ At(t, "countName")
    /\ Answer(t, IF NameTaken(req[t].name) THEN 409 ELSE 200)
    /\ KeepLocals
    /\ UNCHANGED database

\* postComment: the author is the name sent, else the name of a row with the
\* sid sent; if there is none the author is NULL, which NOT NULL refuses, and
\* exec<0> tries again.
InsertComment(t) ==
    /\ At(t, "insertComment")
    /\ \/ /\ req[t].name # NoName
          /\ InsertCommentRow(req[t].name)
          /\ Goto(t, "changes")
       \/ /\ req[t].name = NoName
          /\ Live(req[t].sid)
          /\ InsertCommentRow(users[FirstRow(WithSid(req[t].sid))].name)
          /\ Goto(t, "changes")
       \/ /\ req[t].name = NoName
          /\ ~Live(req[t].sid)
          /\ ConstraintFailed
          /\ Goto(t, "insertComment")
    /\ KeepLocals

\* A mutated form of HasVoted: only the last entry of the list is compared.
LastVoteIs(t, votes) == votes # <<>> /\ votes[Len(votes)] = local[t].uid

HasVoted(t, votes) == Contains(votes, local[t].uid)

\* A mutated form of Edited: taking a vote back erases the last entry.
LastErased(t, votes) ==
    IF req[t].vote THEN Append(votes, local[t].uid) ELSE SubSeq(votes, 1, Len(votes) - 1)

\* The handler's copy of the votes after push_back or erase.
Edited(t, votes) ==
    IF req[t].vote THEN Append(votes, local[t].uid) ELSE RemoveFirst(votes, local[t].uid)

\* voteComment reads the comment's votes and edits its own copy: an upvote must
\* be new, a vote taken back must be there.
ReadVotes(t) ==
    /\ At(t, "readVotes")
    /\ LET c == req[t].id IN
       \/ /\ c \in DOMAIN comments
          /\ HasVoted(t, comments[c].votes) # req[t].vote
          /\ local' = [local EXCEPT ![t].votes = Edited(t, comments[c].votes)]
          /\ Goto(t, "writeVotes")
       \/ /\ c \in DOMAIN comments
          /\ HasVoted(t, comments[c].votes) = req[t].vote
          /\ Answer(t, IF req[t].vote THEN 409 ELSE 400)
          /\ UNCHANGED local
       \/ /\ c \notin DOMAIN comments
          /\ Answer(t, 404)
          /\ UNCHANGED local
    /\ UNCHANGED <<database, req, expired, keys, clients>>

\* voteComment writes its copy over the comment's votes.
WriteVotes(t) ==
    /\ At(t, "writeVotes")
    /\ SetVotes(req[t].id, local[t].votes)
    /\ Goto(t, "changes")
    /\ KeepLocals

\* changeUserData authenticates with LIKE and updates with ==.  With neither
\* an email nor a password the statement is empty and never SQLITE_DONE.
UpdateUser(t) ==
    /\ At(t, "update")
    /\ \/ /\ req[t].email \/ req[t].fresh # NoPass
          /\ SetPassword(req[t].name, req[t].fresh)
          /\ Goto(t, "changes")
       \/ /\ ~req[t].email /\ req[t].fresh = NoPass
          /\ Goto(t, "update")
          /\ UNCHANGED database
    /\ KeepLocals

\* The handler asks the connection how many rows its statement changed.
ReadChanges(t) ==
    /\ At(t, "changes")
    /\ IF req[t].op = "signin"
       THEN Answer(t, IF changed THEN 200 ELSE 403)
       ELSE Answer(t, IF changed THEN 200 ELSE 500)
    /\ KeepLocals
    /\ UNCHANGED database

\* The answer is sent and the connection closed.
Close(t) ==
    /\ At(t, "replied")
    /\ known' = IF req[t].op = "signin" /\ reply[t] = 200
                THEN known \cup {local[t].sid} ELSE known
    /\ granted' = IF req[t].op = "signup" /\ reply[t] = 200
                  THEN [granted EXCEPT ![req[t].name] = @ + 1] ELSE granted
    /\ pc' = [pc EXCEPT ![t] = "idle"]
    /\ req' = [req EXCEPT ![t] = NoRequest]
    /\ local' = [local EXCEPT ![t] = NoLocal]
    /\ reply' = [reply EXCEPT ![t] = 0]
    /\ UNCHANGED <<database, expired, keys>>

Step(t) ==
    \/ GetUserId(t)
    \/ CheckCredentials(t)
    \/ ReadStoredSid(t)
    \/ CheckSession(t)
    \/ ExpireSession(t)
    \/ StoreSid(t)
    \/ DropSid(t)
    \/ CheckNameFree(t)
    \/ InsertUser(t)
    \/ CountName(t)
    \/ InsertComment(t)
    \/ ReadVotes(t)
    \/ WriteVotes(t)
    \/ UpdateUser(t)
    \/ ReadChanges(t)
    \/ Close(t)

-----------------------------------------------------------------------------
(* The environment.                                                        *)

\* The timeout of a stored session passes; the session of init.sql has none.
Timeout(s) ==
    /\ Live(s) /\ s.nr > 0 /\ s \notin expired
    /\ expired' = expired \cup {s}
    /\ UNCHANGED <<database, threads, keys, clients>>

\* The process is stopped or crashes, and initPlugin starts on the same file.
\* It drops every session where name not like 'test'; clock(), which timeouts
\* are compared with, starts again from 0.
Restart ==
    /\ users' = [i \in Rows |-> IF i \in NameLike(TestName) THEN users[i]
                                ELSE [users[i] EXCEPT !.sid = NoSid]]
    /\ changed' = (Rows \ NameLike(TestName) # {})
    /\ pc' = [t \in Thread |-> "idle"]
    /\ req' = [t \in Thread |-> NoRequest]
    /\ local' = [t \in Thread |-> NoLocal]
    /\ reply' = [t \in Thread |-> 0]
    /\ expired' = {}
    /\ UNCHANGED <<comments, keys, clients>>

Next ==
    \/ \E t \in Thread : Accept(t) \/ Step(t)
    \/ \E s \in {users[i].sid : i \in Rows} : Timeout(s)
    \/ Restart

\* Without fairness, for what never happens.
Safety == Init /\ [][Next]_vars

\* The kernel schedules every thread; nothing makes a client send a request,
\* a session time out or the server restart.
Spec == Safety /\ \A t \in Thread : WF_vars(Step(t))
=============================================================================
