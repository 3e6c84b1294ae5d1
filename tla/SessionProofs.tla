--------------------------- MODULE SessionProofs ---------------------------
(***************************************************************************)
(* Whose a session is, how it ends, and who wrote a comment, for every set *)
(* of threads, names and keys.  Three facts carry the proofs: only         *)
(* createSession puts a sid into a row, and it puts a fresh one; no row is *)
(* ever lost or renamed; and a handler has found an account for its name   *)
(* before it posts under it.                                               *)
(***************************************************************************)
EXTENDS HandlerProofs, FiniteSetTheorems

\* A row's session after a step is the one it had, or none.
SidsOnlyDropped ==
    \A i \in Rows' : users'[i].sid = NoSid \/ (i \in Rows /\ users'[i].sid = users[i].sid)

\* No session is known whose key is still to be made.
KeysOld ==
    /\ \A i \in Rows : users[i].sid.nr <= keys
    /\ \A s \in known : s.nr <= keys
    /\ \A t \in Thread : req[t].sid.nr <= keys /\ local[t].sid.nr <= keys

\* A handler that posts under a name has found an account for it.
AuthorFound ==
    \A t \in Thread :
        pc[t] = "insertComment" /\ req[t].name # NoName => NameLike(req[t].name) # {}

\* A sign-in that got past its password has found an account.
SigninFound ==
    \A t \in Thread :
        req[t].op = "signin" /\ pc[t] \in {"storedSid", "sess", "expire", "storeSid"}
            => NameLike(req[t].name) # {}

SessionInv ==
    /\ TypeInv
    /\ SessionsBelongToAccount
    /\ KeysOld
    /\ SignoutEndsSession
    /\ AuthorFound
    /\ AuthorsRegistered
    /\ SigninFound

-----------------------------------------------------------------------------
(* What the statements do to the sessions.                                 *)

\* SetSid with a sid or none.
LEMMA SetSidRows ==
    ASSUME DatabaseTypeOK, NEW S, NEW s, SetSid(S, s)
    PROVE  /\ Rows' = Rows
           /\ \A i \in Rows : users'[i].sid = IF i \in S THEN s ELSE users[i].sid
<1>1. \A i \in Rows : users[i] \in User
  BY RowsType DEF DatabaseTypeOK
<1> QED BY <1>1 DEF SetSid, Rows, User

\* Each statement but createSession's keeps or drops sessions.
LEMMA StatementsDrop ==
    ASSUME DatabaseTypeOK,
           \/ \E S : SetSid(S, NoSid)
           \/ \E n, p : SetPassword(n, p)
           \/ \E n, p : InsertUserRow(n, p)
           \/ users' = users
    PROVE  SidsOnlyDropped
<1>1. \A i \in Rows : users[i] \in User
  BY RowsType DEF DatabaseTypeOK
<1>2. CASE \E S : SetSid(S, NoSid)
  BY <1>2, SetSidRows DEF SidsOnlyDropped
<1>3. CASE \E n, p : SetPassword(n, p)
  BY <1>1, <1>3 DEF SetPassword, SidsOnlyDropped, Rows, User
<1>4. CASE \E n, p : InsertUserRow(n, p)
  <2>1. PICK n, p : InsertUserRow(n, p)
    BY <1>4
  <2> DEFINE row == [name |-> n, password |-> p, sid |-> NoSid]
  <2>2. users \in Seq(User) /\ users' = Append(users, row) /\ row.sid = NoSid
    BY <2>1 DEF InsertUserRow, DatabaseTypeOK
  <2> HIDE DEF row
  <2>3. /\ Rows' = Rows \cup {Len(users) + 1}
        /\ \A i \in Rows : users'[i] = users[i]
        /\ users'[Len(users) + 1] = row
    BY <2>2 DEF Rows
  <2> QED BY <2>2, <2>3 DEF SidsOnlyDropped
<1>5. CASE users' = users
  BY <1>5 DEF SidsOnlyDropped, Rows
<1> QED BY <1>2, <1>3, <1>4, <1>5

\* No handler but createSession puts a session into a row or makes a key.
LEMMA StepDrops ==
    ASSUME TypeInv, NEW t \in Thread, Accept(t) \/ Step(t), ~StoreSid(t)
    PROVE  SidsOnlyDropped /\ keys' = keys
<1>1. CASE UNCHANGED <<database, keys>>
  BY <1>1, StatementsDrop DEF database, TypeInv, TypeOK
<1>2. CASE ExpireSession(t) \/ DropSid(t)
  <2>1. (\E S : SetSid(S, NoSid)) /\ keys' = keys
    BY <1>2, Zenon DEF ExpireSession, DropSid, KeepLocals
  <2> QED BY <2>1, StatementsDrop DEF TypeInv, TypeOK
<1>3. CASE InsertUser(t)
  <2>1. (InsertUserRow(req[t].name, req[t].pass) \/ users' = users) /\ keys' = keys
    BY <1>3, Zenon DEF InsertUser, ConstraintFailed, KeepLocals
  <2> QED BY <2>1, StatementsDrop DEF TypeInv, TypeOK
<1>4. CASE InsertComment(t) \/ WriteVotes(t)
  <2>1. users' = users /\ keys' = keys
    BY <1>4 DEF InsertComment, InsertCommentRow, ConstraintFailed, WriteVotes, SetVotes, KeepLocals
  <2> QED BY <2>1, StatementsDrop DEF TypeInv, TypeOK
<1>5. CASE UpdateUser(t)
  <2>1. ((\E n, p : SetPassword(n, p)) \/ users' = users) /\ keys' = keys
    BY <1>5, Zenon DEF UpdateUser, database, KeepLocals
  <2> QED BY <2>1, StatementsDrop DEF TypeInv, TypeOK
<1> QED
  BY <1>1, <1>2, <1>3, <1>4, <1>5, Zenon
     DEF Step, Accept, GetUserId, CheckCredentials, ReadStoredSid, CheckSession, CheckNameFree,
         CountName, ReadVotes, ReadChanges, Close, KeepLocals

\* Only createSession changes the sid a handler holds, and only an answer to a
\* sign-in makes one known.
LEMMA StepKeepsSid ==
    ASSUME TypeInv, NEW t \in Thread, Step(t), ~Close(t)
    PROVE  /\ known' = known
           /\ ~StoreSid(t) /\ ~ReadStoredSid(t) => \A u \in Thread : local'[u].sid = local[u].sid
<1>1. local \in [Thread -> Local]
  BY DEF TypeInv, TypeOK
<1>2. CASE GetUserId(t)
  BY <1>1, <1>2 DEF GetUserId, Local, clients
<1>3. CASE ReadVotes(t)
  BY <1>1, <1>3, Zenon DEF ReadVotes, Local, clients
<1>4. CASE ReadStoredSid(t) \/ StoreSid(t)
  BY <1>4 DEF ReadStoredSid, StoreSid, StoreSidIn, clients
<1>5. CASE ~GetUserId(t) /\ ~ReadVotes(t) /\ ~ReadStoredSid(t) /\ ~StoreSid(t)
  <2>1. KeepLocals
    BY <1>5, Zenon DEF Step, CheckCredentials, CheckSession, ExpireSession, DropSid, CheckNameFree,
       InsertUser, CountName, InsertComment, WriteVotes, UpdateUser, ReadChanges
  <2> QED BY <2>1 DEF KeepLocals, clients
<1> QED BY <1>2, <1>3, <1>4, <1>5

\* What the steps outside the handlers do.
LEMMA EnvironmentKeeps ==
    ASSUME TypeInv, Restart \/ (\E s : Timeout(s)) \/ UNCHANGED vars
    PROVE  /\ SidsOnlyDropped /\ NamesKept
           /\ comments' = comments /\ keys' = keys /\ known' = known
           /\ \/ /\ pc' = [t \in Thread |-> "idle"] /\ req' = [t \in Thread |-> NoRequest]
                 /\ local' = [t \in Thread |-> NoLocal]
              \/ pc' = pc /\ req' = req /\ local' = local /\ reply' = reply
<1>1. \A i \in Rows : users[i] \in User
  BY RowsType DEF TypeInv, TypeOK, DatabaseTypeOK
<1>2. CASE Restart
  <2>1. SidsOnlyDropped /\ NamesKept
    BY <1>1, <1>2 DEF Restart, SidsOnlyDropped, NamesKept, Rows, User
  <2> QED BY <1>2, <2>1 DEF Restart, clients
<1>3. CASE (\E s : Timeout(s)) \/ UNCHANGED vars
  <2>1. users' = users /\ comments' = comments /\ keys' = keys /\ known' = known
        /\ pc' = pc /\ req' = req /\ local' = local /\ reply' = reply
    BY <1>3 DEF Timeout, vars, database, threads, clients
  <2>2. SidsOnlyDropped /\ NamesKept
    BY <2>1, StatementsDrop, StatementsKeepNames DEF TypeInv, TypeOK
  <2> QED BY <2>1, <2>2
<1> QED BY <1>2, <1>3
-----------------------------------------------------------------------------
(* A session belongs to the account it was made for.                       *)

LEMMA OwnersKept ==
    ASSUME TypeInv, SessionsBelongToAccount, NamesKept, SidsOnlyDropped
    PROVE  SessionsBelongToAccount'
<1>1. ASSUME NEW i \in Rows', users'[i].sid # NoSid
      PROVE  i \in NameLike(users[i].sid.owner)'
  <2>1. i \in Rows /\ users'[i].sid = users[i].sid
    BY <1>1 DEF SidsOnlyDropped
  <2>2. <<users[i].sid.owner, users[i].name>> \in Like
    BY <1>1, <2>1 DEF SessionsBelongToAccount, NameLike
  <2> QED BY <1>1, <2>1, <2>2 DEF NamesKept, NameLike, Rows
<1> QED BY <1>1, Zenon DEF SessionsBelongToAccount, NameLike, Rows

LEMMA StoreSidOwners ==
    ASSUME TypeInv, SessionsBelongToAccount, NEW t \in Thread, StoreSid(t)
    PROVE  SessionsBelongToAccount'
<1>1. SetSid(NameLike(req[t].name), FreshSid(t)) /\ FreshSid(t).owner = req[t].name
  BY DEF StoreSid, StoreSidIn, FreshSid
<1>2. /\ Rows' = Rows
      /\ \A i \in Rows : users'[i].sid = IF i \in NameLike(req[t].name) THEN FreshSid(t) ELSE users[i].sid
  BY <1>1, SetSidRows DEF TypeInv, TypeOK
<1>3. NamesKept
  BY StepKeepsNames DEF Step
<1>4. ASSUME NEW i \in Rows', users'[i].sid # NoSid
      PROVE  <<users'[i].sid.owner, users'[i].name>> \in Like
  BY <1>1, <1>2, <1>3, <1>4 DEF SessionsBelongToAccount, NameLike, NamesKept
<1> QED BY <1>4 DEF SessionsBelongToAccount, NameLike

-----------------------------------------------------------------------------
(* Every session known has an old key.                                     *)

LEMMA KeysKept ==
    ASSUME TypeInv, KeysOld, SidsOnlyDropped, keys' = keys,
           \A s \in known' : s.nr <= keys,
           \A u \in Thread : req'[u].sid.nr <= keys /\ local'[u].sid.nr <= keys
    PROVE  KeysOld'
<1>1. NoSid.nr <= keys
  BY DEF NoSid, TypeInv, TypeOK
<1>2. \A i \in Rows' : users'[i].sid.nr <= keys
  BY <1>1 DEF SidsOnlyDropped, KeysOld
<1> QED BY <1>2 DEF KeysOld, Rows

LEMMA AcceptKeys ==
    ASSUME TypeInv, KeysOld, NEW t \in Thread, Accept(t)
    PROVE  KeysOld'
<1>1. PICK op \in Op : \E r \in Requests(op) :
        req' = [req EXCEPT ![t] = r] /\ local' = [local EXCEPT ![t].sid = r.sid]
  BY Zenon DEF Accept
<1>2. PICK r \in Requests(op) :
        req' = [req EXCEPT ![t] = r] /\ local' = [local EXCEPT ![t].sid = r.sid]
  BY <1>1
<1>3. r.sid \in known \cup {NoSid}
  BY <1>2, OpAssumption DEF Requests, Sends, Operations
<1>4. r.sid.nr <= keys
  BY <1>3 DEF KeysOld, NoSid, TypeInv, TypeOK
<1>5. known' = known
  BY DEF Accept, clients
<1>6. \A u \in Thread : req'[u].sid.nr <= keys /\ local'[u].sid.nr <= keys
  BY <1>2, <1>4 DEF KeysOld, TypeInv, TypeOK, Local
<1>7. SidsOnlyDropped /\ keys' = keys
  BY StepDrops DEF Accept, StoreSid, StoreSidIn, At
<1> QED BY <1>5, <1>6, <1>7, KeysKept DEF KeysOld

LEMMA StepKeys ==
    ASSUME TypeInv, KeysOld, NEW t \in Thread, Step(t), ~StoreSid(t)
    PROVE  KeysOld'
<1>1. SidsOnlyDropped /\ keys' = keys
  BY StepDrops
<1>2. CASE Close(t)
  <2>1. /\ known' \subseteq known \cup {local[t].sid}
        /\ req' = [req EXCEPT ![t] = NoRequest] /\ local' = [local EXCEPT ![t] = NoLocal]
    BY <1>2 DEF Close
  <2>2. NoRequest.sid.nr <= keys /\ NoLocal.sid.nr <= keys
    BY DEF NoRequest, NoLocal, NoSid, TypeInv, TypeOK
  <2>3. \A u \in Thread : req'[u].sid.nr <= keys /\ local'[u].sid.nr <= keys
    BY <2>1, <2>2 DEF KeysOld, TypeInv, TypeOK
  <2> QED BY <1>1, <2>1, <2>3, KeysKept DEF KeysOld
<1>3. CASE ~Close(t)
  <2>1. req' = req /\ known' = known
    BY <1>3, OthersStay, StepKeepsSid
  <2>2. \A u \in Thread : local'[u].sid.nr <= keys
    <3>1. CASE ReadStoredSid(t)
      <4> DEFINE i == FirstRow(NameLike(req[t].name))
      <4>1. NameLike(req[t].name) # {} /\ NameLike(req[t].name) \in SUBSET Nat
        BY <3>1, RowsType DEF ReadStoredSid, At, TypeInv, TypeOK, DatabaseTypeOK, RequestOK, NameLike
      <4>2. i \in Rows
        BY <4>1, FirstRowIn DEF NameLike
      <4>3. local' = [local EXCEPT ![t].sid = users[i].sid]
        BY <3>1 DEF ReadStoredSid
      <4> HIDE DEF i
      <4> QED BY <4>2, <4>3 DEF KeysOld, TypeInv, TypeOK, Local
    <3>2. CASE ~ReadStoredSid(t)
      <4>1. \A u \in Thread : local'[u].sid = local[u].sid
        BY <1>3, <3>2, StepKeepsSid
      <4> QED BY <4>1 DEF KeysOld
    <3> QED BY <3>1, <3>2
  <2> QED BY <1>1, <2>1, <2>2, KeysKept DEF KeysOld
<1> QED BY <1>2, <1>3

LEMMA StoreSidKeys ==
    ASSUME TypeInv, KeysOld, NEW t \in Thread, StoreSid(t)
    PROVE  KeysOld'
<1>1. /\ SetSid(NameLike(req[t].name), FreshSid(t)) /\ keys' = keys + 1
      /\ local' = [local EXCEPT ![t].sid = FreshSid(t)] /\ req' = req /\ known' = known
  BY DEF StoreSid, StoreSidIn, clients
<1>2. FreshSid(t).nr = keys + 1 /\ keys \in Nat
  BY DEF FreshSid, TypeInv, TypeOK
<1>3. /\ \A i \in Rows : users[i].sid.nr \in Nat
      /\ \A u \in Thread : req[u].sid.nr \in Nat /\ local[u].sid.nr \in Nat
      /\ \A s \in known : s.nr \in Nat
  <2>1. \A s \in Sid \cup {NoSid} : s.nr \in Nat
    BY DEF Sid, NoSid
  <2>2. \A i \in Rows : users[i] \in User
    BY RowsType DEF TypeInv, TypeOK, DatabaseTypeOK
  <2> QED BY <2>1, <2>2 DEF TypeInv, TypeOK, User, Request, Local
<1>4. \A i \in Rows' : users'[i].sid.nr <= keys + 1
  <2>1. Rows' = Rows /\ \A i \in Rows :
          users'[i].sid = IF i \in NameLike(req[t].name) THEN FreshSid(t) ELSE users[i].sid
    BY <1>1, SetSidRows DEF TypeInv, TypeOK
  <2> QED BY <1>2, <1>3, <2>1 DEF KeysOld
<1>5. \A u \in Thread : req'[u].sid.nr <= keys + 1 /\ local'[u].sid.nr <= keys + 1
  BY <1>1, <1>2, <1>3 DEF KeysOld, TypeInv, TypeOK, Local
<1>6. \A s \in known' : s.nr <= keys + 1
  BY <1>1, <1>2, <1>3 DEF KeysOld
<1> QED BY <1>1, <1>4, <1>5, <1>6 DEF KeysOld, Rows
-----------------------------------------------------------------------------
(* A session whose signout was answered is in no row.                      *)

\* The only statement of a signout.
LEMMA SignoutSteps ==
    ASSUME TypeInv, NEW t \in Thread, Step(t), req[t].op = "signout"
    PROVE  DropSid(t) \/ Close(t)
<1>1. pc[t] \in {"idle", "replied", "dropSid"}
  BY DEF TypeInv, RequestOK, LabelsOf
<1> QED
  BY <1>1 DEF Step, At, GetUserId, CheckCredentials, ReadStoredSid, CheckSession, ExpireSession,
              StoreSid, StoreSidIn, CheckNameFree, InsertUser, CountName, InsertComment, ReadVotes,
              WriteVotes, UpdateUser, ReadChanges

\* A session that is in no row stays out of them.
LEMMA DeadStaysDead ==
    ASSUME SidsOnlyDropped, NEW s, s # NoSid, ~Live(s)
    PROVE  ~Live(s)'
BY DEF SidsOnlyDropped, Live

\* A fresh session is none of those already known.
LEMMA FreshIsNew ==
    ASSUME TypeInv, KeysOld, NEW t \in Thread, StoreSid(t),
           NEW s \in Sid \cup {NoSid}, s.nr <= keys, s # NoSid, ~Live(s)
    PROVE  ~Live(s)'
<1>1. SetSid(NameLike(req[t].name), FreshSid(t)) /\ FreshSid(t).nr = keys + 1 /\ keys \in Nat
  BY DEF StoreSid, StoreSidIn, FreshSid, TypeInv, TypeOK
<1>2. s.nr \in Nat
  BY DEF Sid, NoSid
<1>3. s # FreshSid(t)
  BY <1>1, <1>2
<1>4. \A i \in Rows' : i \in Rows /\ users'[i].sid \in {FreshSid(t), users[i].sid}
  BY <1>1, SetSidRows DEF TypeInv, TypeOK
<1> QED BY <1>3, <1>4 DEF Live

\* No step of a handler brings the session of an answered signout back.
LEMMA SignoutKept ==
    ASSUME TypeInv, KeysOld, SignoutEndsSession, NEW t \in Thread, Accept(t) \/ Step(t)
    PROVE  SignoutEndsSession'
<1>1. ASSUME NEW u \in Thread, Replied(u, "signout", 200)', req'[u].sid # NoSid
      PROVE  ~Live(req[u].sid)'
  <2>1. CASE DropSid(t) /\ u = t
    <3>1. SetSid(WithSid(req[u].sid), NoSid) /\ req' = req
      BY <2>1 DEF DropSid, KeepLocals
    <3>2. Rows' = Rows /\ \A i \in Rows :
            users'[i].sid = IF i \in WithSid(req[u].sid) THEN NoSid ELSE users[i].sid
      BY <3>1, SetSidRows DEF TypeInv, TypeOK
    <3> QED BY <1>1, <3>1, <3>2 DEF WithSid, Live
  <2>2. CASE ~(DropSid(t) /\ u = t)
    <3>1. Replied(u, "signout", 200) /\ req'[u] = req[u]
      <4>1. CASE u # t /\ Step(t)
        BY <1>1, <4>1, OthersStay DEF Replied
      <4>2. CASE u # t /\ Accept(t)
        <5>1. \E r, label : req' = [req EXCEPT ![t] = r] /\ pc' = [pc EXCEPT ![t] = label]
                            /\ reply' = reply
          BY <4>2, Zenon DEF Accept
        <5> QED BY <1>1, <4>2, <5>1 DEF Replied, TypeInv, TypeOK
      <4>3. CASE u = t /\ Step(t)
        <5>1. CASE Close(t)
          BY <1>1, <4>3, <5>1 DEF Close, Replied, TypeInv, TypeOK
        <5>2. CASE ~Close(t)
          BY <1>1, <2>2, <4>3, <5>2, OthersStay, SignoutSteps DEF Replied
        <5> QED BY <5>1, <5>2
      <4>4. CASE u = t /\ Accept(t)
        <5>1. \E op \in Op : pc' = [pc EXCEPT ![t] = FirstLabel(op)]
          BY <4>4, Zenon DEF Accept
        <5>2. \A op \in Op : FirstLabel(op) # "replied"
          BY OpAssumption DEF FirstLabel, Operations
        <5> QED BY <1>1, <4>4, <5>1, <5>2 DEF Replied, TypeInv, TypeOK
      <4> QED BY <4>1, <4>2, <4>3, <4>4
    <3>2. PICK s : s = req[u].sid
      OBVIOUS
    <3>3. s # NoSid /\ ~Live(s) /\ s.nr <= keys /\ s \in Sid \cup {NoSid}
      BY <1>1, <3>1, <3>2 DEF SignoutEndsSession, KeysOld, TypeInv, TypeOK, Request
    <3>4. ~Live(s)'
      BY <3>3, FreshIsNew, StepDrops, DeadStaysDead
    <3> QED BY <3>1, <3>2, <3>4 DEF Live
  <2> QED BY <2>1, <2>2
<1> QED BY <1>1 DEF SignoutEndsSession, Live

-----------------------------------------------------------------------------
(* Every comment's author is somebody.                                     *)

\* A name that matches an account goes on matching one.
LEMMA MatchKept ==
    ASSUME NamesKept, NEW n, NameLike(n) # {}
    PROVE  NameLike(n)' # {}
BY DEF NamesKept, NameLike

\* A step to "insertComment" follows a check that found an account.
LEMMA FoundKept ==
    ASSUME TypeInv, AuthorFound, NEW t \in Thread, Accept(t) \/ Step(t)
    PROVE  AuthorFound'
<1>1. NamesKept
  BY StepKeepsNames
<1>2. ASSUME NEW u \in Thread, pc'[u] = "insertComment", req'[u].name # NoName
      PROVE  NameLike(req[u].name) # {} /\ req'[u].name = req[u].name
  <2>1. CASE u # t /\ Step(t)
    BY <1>2, <2>1, OthersStay DEF AuthorFound
  <2>2. CASE Accept(t)
    <3>1. PICK op \in Op : \E r :
            req' = [req EXCEPT ![t] = r] /\ pc' = [pc EXCEPT ![t] = FirstLabel(op)]
      BY <2>2, Zenon DEF Accept
    <3>2. FirstLabel(op) # "insertComment"
      BY OpAssumption DEF FirstLabel, Operations
    <3> QED BY <1>2, <3>1, <3>2 DEF AuthorFound, TypeInv, TypeOK
  <2>3. CASE u = t /\ Step(t)
    <3>1. CASE CheckCredentials(t)
      <4>1. isUserValid(req[t].name, req[t].pass) /\ req' = req
        BY <1>2, <2>3, <3>1 DEF CheckCredentials, Goto, Answer, KeepLocals, TypeInv, TypeOK
      <4> QED BY <2>3, <4>1 DEF isUserValid
    <3>2. CASE CheckSession(t)
      <4>1. SessionFound(t) /\ req[t].op = "post" /\ req' = req
        BY <1>2, <2>3, <3>2 DEF CheckSession, WhenSessionValid, WhenSessionInvalid, Goto, Answer,
                                KeepLocals, TypeInv, TypeOK
      <4>2. WithSession(local[t].sid, req[t].name) # {}
        BY <4>1, FS_EmptySet DEF SessionFound, SessionName
      <4>3. PICK i \in Rows : users[i].name = req[t].name
        BY <1>2, <2>3, <4>1, <4>2 DEF WithSession, WithSid
      <4>4. users[i].name \in Name
        BY RowsType DEF TypeInv, TypeOK, DatabaseTypeOK, User
      <4>5. i \in NameLike(req[t].name)
        BY <4>3, <4>4, LikeAssumption DEF NameLike
      <4> QED BY <2>3, <4>1, <4>5
    <3>3. CASE InsertComment(t)
      BY <1>2, <2>3, <3>3 DEF InsertComment, At, KeepLocals, AuthorFound
    <3>4. CASE ~CheckCredentials(t) /\ ~CheckSession(t) /\ ~InsertComment(t)
      <4>1. pc'[t] # "insertComment"
        BY <2>3, <3>4 DEF Step, GetUserId, ReadStoredSid, ExpireSession, WhenSessionInvalid, StoreSid,
           StoreSidIn, DropSid, CheckNameFree, InsertUser, CountName, ReadVotes, WriteVotes,
           UpdateUser, ReadChanges, Close, Goto, Answer, TypeInv, TypeOK
      <4> QED BY <1>2, <2>3, <4>1
    <3> QED BY <3>1, <3>2, <3>3, <3>4
  <2> QED BY <2>1, <2>2, <2>3
<1>3. ASSUME NEW u \in Thread, pc'[u] = "insertComment", req'[u].name # NoName
      PROVE  \E i \in Rows' : <<req'[u].name, users'[i].name>> \in Like
  BY <1>1, <1>2, <1>3, MatchKept DEF NameLike
<1> QED BY <1>3, Zenon DEF AuthorFound, NameLike

\* The authors of a table whose comments were all there before.
LEMMA AuthorsKept ==
    ASSUME TypeInv, AuthorsRegistered, NamesKept,
           \A c \in DOMAIN comments' :
               \/ c \in DOMAIN comments /\ comments'[c].author = comments[c].author
               \/ NameLike(comments'[c].author) # {}
    PROVE  AuthorsRegistered'
<1>1. ASSUME NEW c \in DOMAIN comments' PROVE NameLike(comments'[c].author) # {}
  BY DEF AuthorsRegistered
<1>2. ASSUME NEW c \in DOMAIN comments'
      PROVE  \E i \in Rows' : <<comments'[c].author, users'[i].name>> \in Like
  BY <1>1, MatchKept DEF NameLike
<1> QED BY <1>2, Zenon DEF AuthorsRegistered, NameLike

LEMMA StepAuthors ==
    ASSUME TypeInv, AuthorFound, AuthorsRegistered, NEW t \in Thread, Accept(t) \/ Step(t)
    PROVE  AuthorsRegistered'
<1>1. NamesKept
  BY StepKeepsNames
<1>2. comments \in Seq(Comment)
  BY DEF TypeInv, TypeOK, DatabaseTypeOK
<1>3. CASE comments' = comments
  BY <1>1, <1>3, AuthorsKept
<1>4. CASE WriteVotes(t)
  <2>1. \A c \in DOMAIN comments : comments[c] \in Comment
    BY <1>2
  <2>2. DOMAIN comments' = DOMAIN comments
        /\ \A c \in DOMAIN comments : comments'[c].author = comments[c].author
    BY <1>4, <2>1 DEF WriteVotes, SetVotes, Comment
  <2> QED BY <1>1, <2>2, AuthorsKept
<1>5. CASE InsertComment(t) /\ comments' # comments
  <2>1. PICK author : InsertCommentRow(author) /\ NameLike(author) # {}
    <3>1. CASE req[t].name # NoName /\ InsertCommentRow(req[t].name)
      BY <1>5, <3>1 DEF InsertComment, At, AuthorFound
    <3>2. CASE Live(req[t].sid) /\ InsertCommentRow(users[FirstRow(WithSid(req[t].sid))].name)
      <4> DEFINE i == FirstRow(WithSid(req[t].sid))
      <4>1. WithSid(req[t].sid) # {} /\ WithSid(req[t].sid) \in SUBSET Nat
        BY <3>2, RowsType DEF Live, WithSid, TypeInv, TypeOK, DatabaseTypeOK
      <4>2. i \in Rows
        BY <4>1, FirstRowIn DEF WithSid
      <4>3. users[i].name \in Name
        BY <4>2, RowsType DEF TypeInv, TypeOK, DatabaseTypeOK, User
      <4>4. i \in NameLike(users[i].name)
        BY <4>2, <4>3, LikeAssumption DEF NameLike
      <4> QED BY <3>2, <4>4
    <3> QED BY <1>5, <3>1, <3>2, Zenon DEF InsertComment, ConstraintFailed
  <2> DEFINE row == [author |-> author, votes |-> <<>>]
  <2>2. comments' = Append(comments, row) /\ row.author = author
    BY <2>1 DEF InsertCommentRow
  <2> HIDE DEF row
  <2>3. /\ DOMAIN comments' = DOMAIN comments \cup {Len(comments) + 1}
        /\ \A c \in DOMAIN comments : comments'[c] = comments[c]
        /\ comments'[Len(comments) + 1] = row
    BY <1>2, <2>2
  <2> QED BY <1>1, <2>1, <2>2, <2>3, AuthorsKept
<1>6. comments' = comments \/ WriteVotes(t) \/ InsertComment(t)
  <2>1. ASSUME ~WriteVotes(t), ~InsertComment(t) PROVE comments' = comments
    BY <2>1 DEF Step, Accept, GetUserId, CheckCredentials, ReadStoredSid, CheckSession,
       ExpireSession, StoreSid, StoreSidIn, DropSid, SetSid, CheckNameFree, InsertUser, InsertUserRow,
       ConstraintFailed, CountName, ReadVotes, UpdateUser, SetPassword, ReadChanges, Close, database
  <2> QED BY <2>1
<1> QED BY <1>3, <1>4, <1>5, <1>6

-----------------------------------------------------------------------------
(* A sign-in's session goes into a row.                                    *)

\* The statements of a sign-in come after its password was found right.
LEMMA SigninKept ==
    ASSUME TypeInv, SigninFound, NEW t \in Thread, Accept(t) \/ Step(t)
    PROVE  SigninFound'
<1> DEFINE Late == {"storedSid", "sess", "expire", "storeSid"}
<1>1. NamesKept
  BY StepKeepsNames
<1>2. ASSUME NEW u \in Thread, req'[u].op = "signin", pc'[u] \in Late
      PROVE  NameLike(req[u].name) # {} /\ req'[u].name = req[u].name
  <2>1. CASE u # t /\ Step(t)
    BY <1>2, <2>1, OthersStay DEF SigninFound
  <2>2. CASE Accept(t)
    <3>1. PICK op \in Op : \E r \in Requests(op) :
            req' = [req EXCEPT ![t] = r] /\ pc' = [pc EXCEPT ![t] = FirstLabel(op)]
      BY <2>2, Zenon DEF Accept
    <3>2. \A r \in Requests(op) : r.op = op
      BY OpAssumption, RequestsType
    <3>3. FirstLabel(op) \in Late => op # "signin"
      BY OpAssumption DEF FirstLabel, Operations
    <3> QED BY <1>2, <3>1, <3>2, <3>3 DEF SigninFound, TypeInv, TypeOK
  <2>3. CASE u = t /\ Step(t)
    <3>1. req[t].op = "signin" /\ req'[t] = req[t]
      BY <1>2, <2>3, OthersStay DEF Close, TypeInv, TypeOK, NoRequest
    <3>2. CASE pc[t] \in Late
      BY <2>3, <3>1, <3>2 DEF SigninFound
    <3>3. CASE pc[t] = "cred"
      <4>1. CheckCredentials(t)
        BY <2>3, <3>3 DEF Step, At, GetUserId, ReadStoredSid, CheckSession, ExpireSession, StoreSid,
           StoreSidIn, DropSid, CheckNameFree, InsertUser, CountName, InsertComment, ReadVotes,
           WriteVotes, UpdateUser, ReadChanges, Close
      <4>2. isUserValid(req[t].name, req[t].pass)
        BY <1>2, <2>3, <3>1, <4>1 DEF CheckCredentials, Answer, TypeInv, TypeOK
      <4> QED BY <2>3, <3>1, <4>2 DEF isUserValid
    <3>4. CASE pc[t] \in {"changes", "replied", "idle"}
      <4>1. pc'[t] \notin Late
        BY <2>3, <3>4 DEF Step, At, GetUserId, CheckCredentials, ReadStoredSid, CheckSession,
           ExpireSession, StoreSid, StoreSidIn, DropSid, CheckNameFree, InsertUser, CountName,
           InsertComment, ReadVotes, WriteVotes, UpdateUser, ReadChanges, Close, Answer, TypeInv, TypeOK
      <4> QED BY <1>2, <2>3, <4>1
    <3> QED BY <3>1, <3>2, <3>3, <3>4 DEF TypeInv, RequestOK, LabelsOf
  <2> QED BY <2>1, <2>2, <2>3
<1>3. ASSUME NEW u \in Thread, req'[u].op = "signin", pc'[u] \in Late
      PROVE  \E i \in Rows' : <<req'[u].name, users'[i].name>> \in Like
  BY <1>1, <1>2, <1>3, MatchKept DEF NameLike
<1> QED BY <1>3, Zenon DEF SigninFound, NameLike

-----------------------------------------------------------------------------

LEMMA SessionInit ==
    ASSUME Init
    PROVE  SessionInv
<1>1. TypeInv
  BY InitType
<1>2. users = InitialUsers /\ comments = InitialComments /\ keys = 0
  BY DEF Init, DatabaseInit
<1>3. SessionsBelongToAccount
  BY <1>2, OwnerAssumption DEF SessionsBelongToAccount, NameLike, Rows
<1>4. AuthorsRegistered
  BY <1>2, OwnerAssumption DEF AuthorsRegistered, NameLike, Rows
<1>5. KeysOld
  <2>1. \A i \in Rows : users[i].sid.nr = 0
    BY <1>2, InitialAssumption DEF Rows, NoSid
  <2>2. NoRequest.sid.nr = 0 /\ NoLocal.sid.nr = 0
    BY DEF NoRequest, NoLocal, NoSid
  <2>3. \A s \in known : s.nr = 0
    BY <2>1 DEF Init
  <2> QED BY <1>2, <2>1, <2>2, <2>3 DEF Init, KeysOld
<1>6. SignoutEndsSession /\ AuthorFound /\ SigninFound
  BY DEF Init, SignoutEndsSession, Replied, AuthorFound, SigninFound
<1> QED BY <1>1, <1>3, <1>4, <1>5, <1>6 DEF SessionInv

LEMMA SessionNext ==
    ASSUME SessionInv, [Next]_vars
    PROVE  SessionInv'
<1>1. TypeInv'
  BY NextType DEF SessionInv
<1>2. ASSUME NEW t \in Thread, Accept(t) \/ Step(t)
      PROVE  SessionInv'
  <2>1. SignoutEndsSession' /\ AuthorFound' /\ AuthorsRegistered' /\ SigninFound'
    BY <1>2, SignoutKept, FoundKept, StepAuthors, SigninKept DEF SessionInv
  <2>2. CASE StoreSid(t)
    BY <1>1, <2>1, <2>2, StoreSidOwners, StoreSidKeys DEF SessionInv
  <2>3. CASE ~StoreSid(t)
    <3>1. SidsOnlyDropped /\ NamesKept
      BY <1>2, <2>3, StepDrops, StepKeepsNames DEF SessionInv
    <3>2. SessionsBelongToAccount'
      BY <3>1, OwnersKept DEF SessionInv
    <3>3. KeysOld'
      BY <1>2, <2>3, AcceptKeys, StepKeys DEF SessionInv
    <3> QED BY <1>1, <2>1, <3>2, <3>3 DEF SessionInv
  <2> QED BY <2>2, <2>3
<1>3. ASSUME Restart \/ (\E s : Timeout(s)) \/ UNCHANGED vars
      PROVE  SessionInv'
  <2>1. /\ SidsOnlyDropped /\ NamesKept
        /\ comments' = comments /\ keys' = keys /\ known' = known
        /\ \/ /\ pc' = [t \in Thread |-> "idle"] /\ req' = [t \in Thread |-> NoRequest]
              /\ local' = [t \in Thread |-> NoLocal]
           \/ pc' = pc /\ req' = req /\ local' = local /\ reply' = reply
    BY <1>3, EnvironmentKeeps DEF SessionInv
  <2>2. SessionsBelongToAccount'
    BY <2>1, OwnersKept DEF SessionInv
  <2>3. AuthorsRegistered'
    BY <2>1, AuthorsKept DEF SessionInv
  <2>4. KeysOld'
    <3>1. NoRequest.sid.nr <= keys /\ NoLocal.sid.nr <= keys
      BY DEF NoRequest, NoLocal, NoSid, SessionInv, TypeInv, TypeOK
    <3> QED BY <2>1, <3>1, KeysKept DEF SessionInv, KeysOld
  <2>5. ASSUME NEW u \in Thread, Replied(u, "signout", 200)', req'[u].sid # NoSid
        PROVE  ~Live(req[u].sid)'
    <3>1. Replied(u, "signout", 200) /\ req'[u] = req[u]
      BY <2>1, <2>5 DEF Replied
    <3>2. req[u].sid # NoSid /\ ~Live(req[u].sid)
      BY <2>5, <3>1 DEF SessionInv, SignoutEndsSession
    <3> QED BY <2>1, <3>1, <3>2 DEF SidsOnlyDropped, Live
  <2>6. SignoutEndsSession'
    BY <2>5 DEF SignoutEndsSession, Live
  <2>7. AuthorFound'
    <3>1. ASSUME NEW u \in Thread, pc'[u] = "insertComment", req'[u].name # NoName
          PROVE  \E i \in Rows' : <<req'[u].name, users'[i].name>> \in Like
      BY <2>1, <3>1, MatchKept DEF SessionInv, AuthorFound, NameLike
    <3> QED BY <3>1, Zenon DEF AuthorFound, NameLike
  <2>8. SigninFound'
    <3>1. ASSUME NEW u \in Thread, req'[u].op = "signin",
                 pc'[u] \in {"storedSid", "sess", "expire", "storeSid"}
          PROVE  \E i \in Rows' : <<req'[u].name, users'[i].name>> \in Like
      BY <2>1, <3>1, MatchKept DEF SessionInv, SigninFound, NameLike
    <3> QED BY <3>1, Zenon DEF SigninFound, NameLike
  <2> QED BY <1>1, <2>2, <2>3, <2>4, <2>6, <2>7, <2>8 DEF SessionInv
<1>4. \/ \E t \in Thread : Accept(t) \/ Step(t)
      \/ Restart \/ (\E s : Timeout(s)) \/ UNCHANGED vars
  BY Zenon DEF Next
<1> QED BY <1>2, <1>3, <1>4

LEMMA SessionInvAlways == Safety => []SessionInv
<1>1. Init => SessionInv
  BY SessionInit
<1>2. SessionInv /\ [Next]_vars => SessionInv'
  BY SessionNext
<1> QED BY <1>1, <1>2, PTL DEF Safety

\* A row never holds a session made for a name that does not match its account,
\* however many sign in, sign up and time out at a time.
THEOREM SessionsBelongToAccountCorrect == Safety => []SessionsBelongToAccount
<1>1. SessionInv => SessionsBelongToAccount
  BY DEF SessionInv
<1> QED BY <1>1, SessionInvAlways, PTL

\* Once a signout is answered its session is in no row, and no sign-in that was
\* under way puts it back.
THEOREM SignoutEndsSessionCorrect == Safety => []SignoutEndsSession
<1>1. SessionInv => SignoutEndsSession
  BY DEF SessionInv
<1> QED BY <1>1, SessionInvAlways, PTL

\* Every comment has an author some account matches, whatever becomes of sessions
\* between postComment's checks and its insert.
THEOREM AuthorsRegisteredCorrect == Safety => []AuthorsRegistered
<1>1. SessionInv => AuthorsRegistered
  BY DEF SessionInv
<1> QED BY <1>1, SessionInvAlways, PTL

-----------------------------------------------------------------------------
(* The sessions of the handlers implement SessionLife.                     *)

\* What the life of the k-th key is in a row.
LEMMA LiveIsOld ==
    ASSUME TypeInv, KeysOld, NEW k \in Nat, LiveKey(k)
    PROVE  k <= keys
BY DEF KeysOld, LiveKey

\* A step that only drops sessions only ends lives.
LEMMA DropsEndLives ==
    ASSUME SessionInv, SidsOnlyDropped, keys' = keys, NEW k \in Nat
    PROVE  PhaseOf(k)' = PhaseOf(k) \/ (PhaseOf(k) = "live" /\ PhaseOf(k)' = "dead")
<1>1. LiveKey(k)' => LiveKey(k)
  BY DEF SidsOnlyDropped, LiveKey, NoSid
<1>2. LiveKey(k) => ~(k > keys)
  BY LiveIsOld DEF SessionInv, TypeInv, TypeOK
<1> QED BY <1>1, <1>2 DEF PhaseOf

\* createSession begins one life, the next key's, and may end others.
LEMMA StoreSidBeginsOne ==
    ASSUME SessionInv, NEW t \in Thread, StoreSid(t), NEW k \in Nat
    PROVE  \/ PhaseOf(k)' = PhaseOf(k)
           \/ PhaseOf(k) = "live" /\ PhaseOf(k)' = "dead"
           \/ k = keys + 1 /\ PhaseOf(k) = "new" /\ PhaseOf(k)' = "live"
<1>1. /\ SetSid(NameLike(req[t].name), FreshSid(t)) /\ FreshSid(t).nr = keys + 1
      /\ keys' = keys + 1 /\ keys \in Nat /\ FreshSid(t) # NoSid
  BY DEF StoreSid, StoreSidIn, FreshSid, NoSid, SessionInv, TypeInv, TypeOK
<1>2. /\ Rows' = Rows
      /\ \A i \in Rows : users'[i].sid = IF i \in NameLike(req[t].name) THEN FreshSid(t) ELSE users[i].sid
  BY <1>1, SetSidRows DEF SessionInv, TypeInv, TypeOK
<1>3. PICK i \in Rows : users'[i].sid = FreshSid(t)
  <2>1. pc[t] = "storeSid"
    BY DEF StoreSid, StoreSidIn, At
  <2>2. req[t].op = "signin"
    BY <2>1 DEF SessionInv, TypeInv, TypeOK, RequestOK, LabelsOf, Request, Operations
  <2>3. NameLike(req[t].name) # {}
    BY <2>1, <2>2 DEF SessionInv, SigninFound
  <2> QED BY <1>2, <2>3 DEF NameLike
<1>4. k = keys + 1 => LiveKey(k)'
  BY <1>1, <1>2, <1>3 DEF LiveKey
<1>5. k # keys + 1 => (LiveKey(k)' => LiveKey(k))
  BY <1>1, <1>2 DEF LiveKey
<1>6. LiveKey(k) => k <= keys
  BY LiveIsOld DEF SessionInv
<1>7. CASE k = keys + 1
  BY <1>1, <1>4, <1>6, <1>7 DEF PhaseOf
<1>8. CASE k # keys + 1
  BY <1>1, <1>5, <1>6, <1>8 DEF PhaseOf
<1> QED BY <1>7, <1>8

\* Every step of the server is a step of SessionLife, or changes no session's life.
LEMMA StepIsLifeStep ==
    ASSUME SessionInv, [Next]_vars
    PROVE  Life!Next
<1> DEFINE S == 0 .. MaxKeys
<1>0. S \subseteq Nat
  BY BoundAssumption
<1>1. \A k \in S : PhaseOf(k)' \in {"new", "live", "dead"}
  BY DEF PhaseOf
<1>2. \E n : \A k \in S :
        \/ PhaseOf(k)' = PhaseOf(k)
        \/ PhaseOf(k) = "live" /\ PhaseOf(k)' = "dead"
        \/ k = n /\ PhaseOf(k) = "new" /\ PhaseOf(k)' = "live"
  <2>1. CASE \E t \in Thread : StoreSid(t)
    <3>1. PICK n : n = keys + 1
      OBVIOUS
    <3> QED BY <1>0, <2>1, <3>1, StoreSidBeginsOne
  <2>2. CASE ~\E t \in Thread : StoreSid(t)
    <3>1. SidsOnlyDropped /\ keys' = keys
      <4>1. \/ \E t \in Thread : Accept(t) \/ Step(t)
            \/ Restart \/ (\E s : Timeout(s)) \/ UNCHANGED vars
        BY Zenon DEF Next
      <4> QED BY <2>2, <4>1, StepDrops, EnvironmentKeeps DEF SessionInv
    <3> QED BY <1>0, <3>1, DropsEndLives
  <2> QED BY <2>1, <2>2
<1> QED BY <1>1, <1>2 DEF Life!Next, Life!TypeOK, Life!Phase, Life!Made, Life!Dropped

\* The server implements SessionLife: a session is made once and, once dropped,
\* is never live again.
THEOREM SessionLifeCorrect == Safety => SessionLife
<1>1. Init => Life!Init
  BY DEF Life!Init, Life!TypeOK, Life!Phase, PhaseOf
<1>2. SessionInv /\ [Next]_vars => [Life!Next]_([k \in 0 .. MaxKeys |-> PhaseOf(k)])
  BY StepIsLifeStep
<1> QED BY <1>1, <1>2, SessionInvAlways, PTL DEF Safety, SessionLife, Life!Spec
-----------------------------------------------------------------------------
(* What a server whose handlers run one at a time does, for every set of   *)
(* names and every initial file: the steps of one request come one after   *)
(* the other, so what a statement of a handler found still holds at the    *)
(* next, and the number of changed rows is that of its own statement.  The *)
(* invariant says so for each place of a handler.                          *)

\* No name holds a wildcard: LIKE is then an equivalence of names.
NamesWithoutWildcards ==
    /\ \A m, n \in Name : <<m, n>> \in Like => <<n, m>> \in Like
    /\ \A l, m, n \in Name : <<l, m>> \in Like /\ <<m, n>> \in Like => <<l, n>> \in Like

\* No two accounts match each other's names.
DistinctNames(rows) ==
    \A i, j \in DOMAIN rows : <<rows[i].name, rows[j].name>> \in Like => i = j

\* An account the request names has the session the handler knows.
Holds(t) == \E i \in NameLike(req[t].name) : users[i].sid = local[t].sid

\* The handler's copy differs from the comment's votes in its voter alone.
AboutToWrite(t) ==
    pc[t] = "writeVotes" =>
        /\ req[t].id \in DOMAIN comments
        /\ ToSet(local[t].votes) \ {local[t].uid} = ToSet(comments[req[t].id].votes) \ {local[t].uid}

\* The number of changed rows is that of the handler's statement, and not zero.
Counted(t) == pc[t] = "changes" /\ req[t].op # "change" => changed

Reported(t) ==
    /\ \A op \in {"signup", "post", "vote"} : ~Replied(t, op, 500)
    /\ Replied(t, "signin", 403) => ~isUserValid(req[t].name, req[t].pass)

SidRead(t) == req[t].op = "signin" /\ pc[t] \in {"sess", "expire"} => Holds(t)

SidStored(t) ==
    req[t].op = "signin" /\ (pc[t] = "changes" \/ (pc[t] = "replied" /\ reply[t] = 200)) =>
        local[t].sid # NoSid /\ Holds(t)

\* What was checked still holds.
StillChecked(t) ==
    /\ pc[t] = "insertUser" => NameLike(req[t].name) = {}
    /\ pc[t] = "update" => isUserValid(req[t].name, req[t].pass)
    /\ pc[t] = "expire" => local[t].sid \in expired /\ local[t].sid # NoSid /\ Live(local[t].sid)

OneThreadInv(t) ==
    AboutToWrite(t) /\ Counted(t) /\ Reported(t) /\ SidRead(t) /\ SidStored(t) /\ StillChecked(t)

\* No step makes the names of two accounts match each other.
DistinctStays ==
    NamesWithoutWildcards /\ DistinctNames(users) => DistinctNames(users')

-----------------------------------------------------------------------------

\* Without a change of the accounts every condition on them stays what it is.
LEMMA SameUsers ==
    ASSUME users' = users
    PROVE  /\ \A n : NameLike(n)' = NameLike(n)
           /\ \A n, p : isUserValid(n, p)' <=> isUserValid(n, p)
           /\ \A s : Live(s)' <=> Live(s)
           /\ DistinctStays
BY DEF NameLike, isUserValid, Live, DistinctStays, DistinctNames, Rows

LEMMA DistinctKept ==
    ASSUME TypeInv, NamesKept, Rows' = Rows
    PROVE  DistinctStays
BY DEF DistinctStays, DistinctNames, NamesKept, Rows

\* A place from which nothing is promised but what the answer says.
LEMMA QuietPlace ==
    ASSUME NEW t, pc'[t] \notin {"writeVotes", "changes", "sess", "expire", "insertUser", "update"},
           pc'[t] = "replied" => /\ reply'[t] # 500
                                 /\ req'[t].op = "signin" => reply'[t] \notin {200, 403}
    PROVE  OneThreadInv(t)'
<1>1. AboutToWrite(t)' /\ Counted(t)' /\ SidRead(t)' /\ StillChecked(t)'
  BY DEF AboutToWrite, Counted, SidRead, StillChecked
<1>2. Reported(t)' /\ SidStored(t)'
  BY DEF Reported, Replied, SidStored
<1> QED BY <1>1, <1>2 DEF OneThreadInv

\* An edit of a list of voters leaves the others in it.
LEMMA EditedOthers ==
    ASSUME TypeInv, NEW t \in Thread, NEW s \in Seq(UserId)
    PROVE  ToSet(Edited(t, s)) \ {local[t].uid} = ToSet(s) \ {local[t].uid}
<1>1. PICK e : e = local[t].uid
  OBVIOUS
<1>2. Len(s) \in Nat /\ DOMAIN s = 1 .. Len(s) /\ e \in UserId
  BY <1>1, LenProperties DEF TypeInv, TypeOK, Local
<1>3. ToSet(Append(s, e)) = ToSet(s) \cup {e}
  <2>1. /\ Append(s, e) \in Seq(UserId) /\ Len(Append(s, e)) = Len(s) + 1
        /\ \A i \in 1 .. Len(s) : Append(s, e)[i] = s[i]
        /\ Append(s, e)[Len(s) + 1] = e
    BY <1>2, AppendProperties
  <2>2. PICK r : r = Append(s, e)
    OBVIOUS
  <2>3. DOMAIN r = 1 .. Len(s) + 1
    BY <2>1, <2>2, LenProperties
  <2>4. \A i \in DOMAIN s : s[i] \in ToSet(r)
    BY <1>2, <2>1, <2>2, <2>3 DEF ToSet
  <2>5. e \in ToSet(r)
    <3>1. Len(s) + 1 \in DOMAIN r /\ r[Len(s) + 1] = e
      BY <1>2, <2>1, <2>2, <2>3
    <3> QED BY <3>1 DEF ToSet
  <2>6. \A i \in DOMAIN r : r[i] \in ToSet(s) \cup {e}
    BY <1>2, <2>1, <2>2, <2>3 DEF ToSet
  <2> QED BY <2>2, <2>4, <2>5, <2>6 DEF ToSet
<1>4. ASSUME NEW k \in 1 .. Len(s), s[k] = e
      PROVE  ToSet(RemoveAt(s, k)) \ {e} = ToSet(s) \ {e}
  <2>1. PICK r : r = RemoveAt(s, k)
    OBVIOUS
  <2>2. /\ r \in Seq(UserId) /\ Len(r) = Len(s) - 1
        /\ \A i \in 1 .. Len(s) - 1 : r[i] = IF i < k THEN s[i] ELSE s[i + 1]
    BY <2>1, RemoveAtElements
  <2>3. DOMAIN r = 1 .. Len(s) - 1
    BY <2>2, LenProperties
  <2>4. ASSUME NEW i \in DOMAIN s, s[i] # e
        PROVE  s[i] \in ToSet(r)
    <3>1. CASE i < k
      <4>1. i \in DOMAIN r /\ r[i] = s[i]
        BY <1>2, <2>2, <2>3, <3>1
      <4> QED BY <4>1 DEF ToSet
    <3>2. CASE i > k
      <4>1. i - 1 \in DOMAIN r /\ r[i - 1] = s[i]
        BY <1>2, <2>2, <2>3, <3>2
      <4> QED BY <4>1 DEF ToSet
    <3> QED BY <1>2, <1>4, <2>4, <3>1, <3>2
  <2>5. ASSUME NEW i \in DOMAIN r
        PROVE  r[i] \in ToSet(s)
    <3>1. i \in DOMAIN s /\ i + 1 \in DOMAIN s /\ (r[i] = s[i] \/ r[i] = s[i + 1])
      BY <1>2, <2>2, <2>3
    <3> QED BY <3>1 DEF ToSet
  <2> QED BY <2>1, <2>4, <2>5 DEF ToSet
<1>5. ToSet(RemoveFirst(s, e)) \ {e} = ToSet(s) \ {e}
  BY <1>4, RemoveFirstAt
<1> QED BY <1>1, <1>3, <1>5 DEF Edited

-----------------------------------------------------------------------------
(* The steps.                                                              *)

LEMMA FirstSteps ==
    ASSUME SessionInv, NEW t \in Thread, OneThreadInv(t), Accept(t) \/ GetUserId(t) \/ Close(t)
    PROVE  OneThreadInv(t)' /\ users' = users
<1> USE DEF SessionInv, TypeInv, TypeOK
<1>1. CASE Accept(t)
  <2>0. PICK op \in Op : \E r \in Requests(op) :
          req' = [req EXCEPT ![t] = r] /\ pc' = [pc EXCEPT ![t] = FirstLabel(op)]
    BY <1>1, Zenon DEF Accept
  <2>1. PICK r \in Requests(op) :
          req' = [req EXCEPT ![t] = r] /\ pc' = [pc EXCEPT ![t] = FirstLabel(op)]
    BY <2>0
  <2>2. op \in Operations
    BY OpAssumption
  <2>3. r.op = op
    BY <2>2, RequestsType
  <2>4. pc'[t] = FirstLabel(op) /\ req'[t] = r
    BY <2>1
  <2>5. pc'[t] \in {"nameFree", "cred", "dropSid", "uid", "countName"} \/ (pc'[t] = "sess" /\ op = "checksid")
    BY <2>2, <2>4 DEF Operations, FirstLabel
  <2>6. OneThreadInv(t)'
    <3>1. CASE pc'[t] # "sess"
      BY <2>5, <3>1, QuietPlace
    <3>2. CASE pc'[t] = "sess" /\ req'[t].op # "signin"
      BY <3>2 DEF OneThreadInv, AboutToWrite, Counted, SidRead, StillChecked, Reported, Replied, SidStored
    <3> QED BY <2>3, <2>4, <2>5, <3>1, <3>2
  <2> QED BY <1>1, <2>6 DEF Accept, database
<1>2. CASE GetUserId(t)
  <2>1. pc'[t] = "cred"
    BY <1>2 DEF GetUserId, Goto
  <2> QED BY <1>2, <2>1, QuietPlace DEF GetUserId, database
<1>3. CASE Close(t)
  <2>1. pc'[t] = "idle"
    BY <1>3 DEF Close
  <2> QED BY <1>3, <2>1, QuietPlace DEF Close, database
<1> QED BY <1>1, <1>2, <1>3

LEMMA CredentialSteps ==
    ASSUME SessionInv, NEW t \in Thread, OneThreadInv(t), CheckCredentials(t)
    PROVE  OneThreadInv(t)' /\ users' = users
<1>1. users' = users /\ req' = req
  BY DEF CheckCredentials, KeepLocals, database
<1>2. \/ pc'[t] \in {"storedSid", "insertComment", "readVotes"}
      \/ pc'[t] = "update" /\ req[t].op = "change" /\ isUserValid(req[t].name, req[t].pass)
      \/ pc'[t] = "replied" /\ reply'[t] = 403 /\ req[t].op = "signin" /\ ~isUserValid(req[t].name, req[t].pass)
      \/ pc'[t] = "replied" /\ reply'[t] = 401 /\ req[t].op = "change"
      \/ pc'[t] = "sess" /\ req[t].op \in {"post", "vote"}
  BY DEF CheckCredentials, Goto, Answer, SessionInv, TypeInv, TypeOK
<1>3. isUserValid(req[t].name, req[t].pass)' <=> isUserValid(req[t].name, req[t].pass)
  <2>1. PICK n, p : n = req[t].name /\ p = req[t].pass
    OBVIOUS
  <2>2. n = req'[t].name /\ p = req'[t].pass
    BY <1>1, <2>1
  <2> QED BY <1>1, <2>1, <2>2, SameUsers
<1>4. OneThreadInv(t)'
  BY <1>1, <1>2, <1>3 DEF OneThreadInv, AboutToWrite, Counted, SidRead, StillChecked, Reported, Replied, SidStored
<1> QED BY <1>1, <1>4

\* createSession reads the sid of one of the rows its name matches.
LEMMA ReadStoredSidStep ==
    ASSUME SessionInv, NEW t \in Thread, OneThreadInv(t), ReadStoredSid(t)
    PROVE  OneThreadInv(t)' /\ users' = users
<1>1. /\ pc[t] = "storedSid" /\ pc'[t] = "sess" /\ users' = users /\ req' = req
      /\ local'[t].sid = users[FirstRow(NameLike(req[t].name))].sid
  BY DEF ReadStoredSid, At, Goto, database, SessionInv, TypeInv, TypeOK, Local
<1>2. PICK n : n = req[t].name
  OBVIOUS
<1>3. NameLike(n) # {} /\ NameLike(n) \in SUBSET Nat
  BY <1>1, <1>2, RowsType DEF SessionInv, TypeInv, TypeOK, DatabaseTypeOK, RequestOK, NameLike
<1>4. FirstRow(NameLike(n)) \in NameLike(n)
  BY <1>3, FirstRowIn
<1>5. NameLike(n)' = NameLike(n) /\ n = req'[t].name
  BY <1>1, <1>2, SameUsers
<1>6. Holds(t)'
  BY <1>1, <1>2, <1>4, <1>5 DEF Holds
<1>7. OneThreadInv(t)'
  BY <1>1, <1>6 DEF OneThreadInv, AboutToWrite, Counted, SidRead, StillChecked, Reported, Replied, SidStored
<1> QED BY <1>1, <1>7

LEMMA CheckSessionStep ==
    ASSUME SessionInv, NEW t \in Thread, OneThreadInv(t), CheckSession(t)
    PROVE  OneThreadInv(t)' /\ users' = users
<1>1. users' = users /\ req' = req /\ local' = local /\ expired' = expired /\ pc[t] = "sess"
  BY DEF CheckSession, KeepLocals, database, At
<1>2. \/ pc'[t] \in {"storeSid", "insertComment", "readVotes"}
      \/ pc'[t] = "expire" /\ local[t].sid \in expired /\ SessionFound(t)
      \/ pc'[t] = "replied" /\ reply'[t] \in {401, 403} /\ req[t].op # "signin"
      \/ pc'[t] = "replied" /\ reply'[t] = 200 /\ req[t].op \in {"checksid", "signin"} /\ local[t].sid # NoSid
  BY DEF CheckSession, WhenSessionValid, WhenSessionInvalid, SessionFound, Goto, Answer,
         SessionInv, TypeInv, TypeOK
<1>3. SessionFound(t) => local[t].sid # NoSid /\ Live(local[t].sid)'
  <2>1. ASSUME SessionFound(t)
        PROVE  local[t].sid # NoSid /\ WithSession(local[t].sid, SessionName(t)) # {}
    BY <2>1, FS_EmptySet DEF SessionFound
  <2>2. PICK s : s = local[t].sid
    OBVIOUS
  <2>3. SessionFound(t) => Live(s)
    BY <2>1, <2>2 DEF WithSession, WithSid, Live
  <2>4. SessionFound(t) => Live(s)' /\ s = local'[t].sid
    BY <1>1, <2>2, <2>3, SameUsers
  <2> QED BY <2>1, <2>2, <2>4, Zenon
<1>4. Holds(t)' <=> Holds(t)
  <2>1. PICK n : n = req[t].name
    OBVIOUS
  <2>2. NameLike(n)' = NameLike(n) /\ n = req'[t].name
    BY <1>1, <2>1, SameUsers
  <2> QED BY <1>1, <2>1, <2>2 DEF Holds
<1>5. req[t].op = "signin" => Holds(t)
  BY <1>1 DEF OneThreadInv, SidRead
<1>6. OneThreadInv(t)'
  BY <1>1, <1>2, <1>3, <1>4, <1>5 DEF OneThreadInv, AboutToWrite, Counted, SidRead, StillChecked, Reported, Replied, SidStored
<1> QED BY <1>1, <1>6

\* The statements that change sids.
LEMMA SessionSteps ==
    ASSUME SessionInv, NEW t \in Thread, OneThreadInv(t),
           ExpireSession(t) \/ StoreSid(t) \/ DropSid(t)
    PROVE  OneThreadInv(t)' /\ DistinctStays
<1>1. CASE ExpireSession(t)
  <2>1. pc'[t] = "storeSid" \/ (pc'[t] = "replied" /\ reply'[t] \in {401, 403} /\ req'[t].op # "signin")
    BY <1>1 DEF ExpireSession, WhenSessionInvalid, Goto, Answer, KeepLocals, SessionInv, TypeInv, TypeOK
  <2>2. OneThreadInv(t)'
    BY <2>1, QuietPlace
  <2>3. Rows' = Rows
    BY <1>1, SetSidRows DEF ExpireSession, SessionInv, TypeInv, TypeOK
  <2>4. NamesKept
    BY <1>1, StepKeepsNames DEF Step, SessionInv
  <2> QED BY <2>2, <2>3, <2>4, DistinctKept DEF SessionInv
<1>2. CASE DropSid(t)
  <2>1. pc'[t] = "replied" /\ reply'[t] = 200 /\ req'[t].op = "signout"
    BY <1>2 DEF DropSid, At, Answer, KeepLocals, SessionInv, TypeInv, TypeOK, RequestOK, LabelsOf, Request, Operations
  <2>2. OneThreadInv(t)'
    BY <2>1, QuietPlace
  <2>3. Rows' = Rows
    BY <1>2, SetSidRows DEF DropSid, SessionInv, TypeInv, TypeOK
  <2>4. NamesKept
    BY <1>2, StepKeepsNames DEF Step, SessionInv
  <2> QED BY <2>2, <2>3, <2>4, DistinctKept DEF SessionInv
<1>3. CASE StoreSid(t)
  <2>1. PICK n, f : n = req[t].name /\ f = FreshSid(t)
    OBVIOUS
  <2>2. /\ SetSid(NameLike(n), f) /\ pc[t] = "storeSid" /\ pc'[t] = "changes" /\ req' = req
        /\ local'[t].sid = f
    BY <1>3, <2>1 DEF StoreSid, StoreSidIn, At, Goto, SessionInv, TypeInv, TypeOK, Local
  <2>3. req[t].op = "signin" /\ NameLike(n) # {}
    BY <2>1, <2>2 DEF SessionInv, SigninFound, TypeInv, TypeOK, RequestOK, LabelsOf, Request, Operations
  <2>4. f # NoSid
    BY <2>1 DEF FreshSid, NoSid, SessionInv, TypeInv, TypeOK
  <2>5. Rows' = Rows /\ \A i \in NameLike(n) : i \in Rows /\ users'[i].sid = f
    BY <2>2, SetSidRows DEF NameLike, SessionInv, TypeInv, TypeOK
  <2>6. NamesKept
    BY <1>3, StepKeepsNames DEF Step, SessionInv
  <2>7. PICK i \in NameLike(n) : TRUE
    BY <2>3
  <2>8. i \in NameLike(n)' /\ users'[i].sid = f
    BY <2>5, <2>6 DEF NameLike, NamesKept
  <2>9. Holds(t)'
    BY <2>1, <2>2, <2>8 DEF Holds
  <2>10. changed'
    BY <2>2, <2>3 DEF SetSid
  <2>11. OneThreadInv(t)'
    BY <2>2, <2>4, <2>9, <2>10 DEF OneThreadInv, AboutToWrite, Counted, SidRead, StillChecked, Reported, Replied, SidStored
  <2> QED BY <2>5, <2>6, <2>11, DistinctKept DEF SessionInv
<1> QED BY <1>1, <1>2, <1>3

\* signup's check and its insert.
LEMMA NewAccountSteps ==
    ASSUME SessionInv, NEW t \in Thread, OneThreadInv(t),
           CheckNameFree(t) \/ InsertUser(t) \/ CountName(t)
    PROVE  OneThreadInv(t)' /\ DistinctStays
<1>1. CASE CheckNameFree(t) \/ CountName(t)
  <2>1. users' = users /\ req' = req
    BY <1>1 DEF CheckNameFree, CountName, KeepLocals, database
  <2>2. \/ pc'[t] = "replied" /\ reply'[t] \in {200, 403, 409} /\ req[t].op \in {"signup", "checkuser"}
        \/ pc'[t] = "insertUser" /\ NameLike(req[t].name) = {}
    BY <1>1 DEF CheckNameFree, CountName, At, Goto, Answer, SessionInv, TypeInv, TypeOK, RequestOK, LabelsOf,
                Request, Operations
  <2>3. NameLike(req[t].name)' = NameLike(req[t].name)
    <3>1. PICK n : n = req[t].name
      OBVIOUS
    <3>2. NameLike(n)' = NameLike(n) /\ n = req'[t].name
      BY <2>1, <3>1, SameUsers
    <3> QED BY <3>1, <3>2
  <2>4. OneThreadInv(t)'
    BY <2>1, <2>2, <2>3 DEF OneThreadInv, AboutToWrite, Counted, SidRead, StillChecked, Reported, Replied, SidStored
  <2> QED BY <2>1, <2>4, SameUsers
<1>2. CASE InsertUser(t)
  <2>1. PICK n, p : n = req[t].name /\ p = req[t].pass
    OBVIOUS
  <2>2. pc[t] = "insertUser" /\ req' = req
    BY <1>2 DEF InsertUser, At, KeepLocals
  <2>3. n \in Name /\ NameLike(n) = {} /\ req[t].op = "signup"
    BY <2>1, <2>2 DEF OneThreadInv, StillChecked, SessionInv, TypeInv, TypeOK, RequestOK, LabelsOf, Request, Operations
  <2>4. users \in Seq(User) /\ Len(users) \in Nat /\ Rows = 1 .. Len(users) /\ \A i \in Rows : users[i].name \in Name
    BY RowsType, LenProperties DEF SessionInv, TypeInv, TypeOK, DatabaseTypeOK, User
  <2>5. ~NameTaken(n)
    BY <2>3, LikeAssumption DEF NameTaken, NameLike
  <2>6. /\ users' = Append(users, [name |-> n, password |-> p, sid |-> NoSid])
        /\ changed' /\ pc'[t] = "changes"
    BY <1>2, <2>1, <2>5 DEF InsertUser, InsertUserRow, Goto, SessionInv, TypeInv, TypeOK
  <2>7. Rows' = 1 .. Len(users) + 1 /\ users'[Len(users) + 1].name = n /\ \A i \in Rows : users'[i] = users[i]
    BY <2>4, <2>6, AppendProperties DEF Rows
  <2>8. NamesWithoutWildcards =>
          \A i \in Rows : <<n, users[i].name>> \notin Like /\ <<users[i].name, n>> \notin Like
    BY <2>3, <2>4 DEF NameLike, NamesWithoutWildcards
  <2>9. ASSUME NamesWithoutWildcards, DistinctNames(users),
               NEW i \in Rows', NEW j \in Rows', <<users'[i].name, users'[j].name>> \in Like
        PROVE  i = j
    <3>1. CASE i \in Rows /\ j \in Rows
      BY <2>7, <2>9, <3>1 DEF DistinctNames, Rows
    <3>2. CASE i \in Rows /\ j = Len(users) + 1
      BY <2>7, <2>8, <2>9, <3>2
    <3>3. CASE i = Len(users) + 1 /\ j \in Rows
      BY <2>7, <2>8, <2>9, <3>3
    <3> QED BY <2>4, <2>7, <3>1, <3>2, <3>3
  <2>10. DistinctStays
    BY <2>9 DEF DistinctStays, DistinctNames, Rows
  <2>11. OneThreadInv(t)'
    BY <2>2, <2>3, <2>6 DEF OneThreadInv, AboutToWrite, Counted, SidRead, StillChecked, Reported, Replied, SidStored
  <2> QED BY <2>10, <2>11
<1>3. CheckNameFree(t) \/ CountName(t) \/ InsertUser(t)
  OBVIOUS
<1> QED BY <1>1, <1>2, <1>3

LEMMA CommentSteps ==
    ASSUME SessionInv, NEW t \in Thread, OneThreadInv(t), InsertComment(t) \/ ReadVotes(t) \/ WriteVotes(t)
    PROVE  OneThreadInv(t)' /\ users' = users
<1>1. CASE InsertComment(t)
  <2>1. /\ users' = users /\ req' = req
        /\ pc'[t] = "insertComment" \/ (pc'[t] = "changes" /\ changed' /\ req[t].op = "post")
    BY <1>1 DEF InsertComment, InsertCommentRow, ConstraintFailed, At, Goto, KeepLocals, SessionInv, TypeInv,
                TypeOK, RequestOK, LabelsOf, Request, Operations
  <2>2. OneThreadInv(t)'
    BY <2>1 DEF OneThreadInv, AboutToWrite, Counted, SidRead, StillChecked, Reported, Replied, SidStored
  <2> QED BY <2>1, <2>2
<1>2. CASE ReadVotes(t)
  <2>1. PICK c : c = req[t].id
    OBVIOUS
  <2>2. /\ users' = users /\ req' = req /\ comments' = comments /\ pc[t] = "readVotes"
    BY <1>2 DEF ReadVotes, At, database
  <2>3. req[t].op = "vote"
    BY <2>2 DEF SessionInv, TypeInv, TypeOK, RequestOK, LabelsOf, Request, Operations
  <2>4. \/ pc'[t] = "replied" /\ reply'[t] \in {400, 404, 409}
        \/ /\ pc'[t] = "writeVotes" /\ c \in DOMAIN comments
           /\ local' = [local EXCEPT ![t].votes = Edited(t, comments[c].votes)]
    BY <1>2, <2>1 DEF ReadVotes, Goto, Answer, SessionInv, TypeInv, TypeOK
  <2>5. CASE pc'[t] = "replied" /\ reply'[t] \in {400, 404, 409}
    BY <2>2, <2>3, <2>5, QuietPlace
  <2>6. CASE /\ pc'[t] = "writeVotes" /\ c \in DOMAIN comments
             /\ local' = [local EXCEPT ![t].votes = Edited(t, comments[c].votes)]
    <3>1. comments[c].votes \in Seq(UserId)
      <4>1. comments \in Seq(Comment)
        BY DEF SessionInv, TypeInv, TypeOK, DatabaseTypeOK
      <4>2. comments[c] \in Comment
        BY <2>6, <4>1
      <4> QED BY <4>2 DEF Comment
    <3>2. local'[t].uid = local[t].uid /\ local'[t].votes = Edited(t, comments[c].votes)
      BY <2>6 DEF SessionInv, TypeInv, TypeOK, Local
    <3>3. ToSet(Edited(t, comments[c].votes)) \ {local[t].uid} = ToSet(comments[c].votes) \ {local[t].uid}
      BY <3>1, EditedOthers DEF SessionInv
    <3>4. AboutToWrite(t)'
      BY <2>1, <2>2, <2>6, <3>2, <3>3 DEF AboutToWrite
    <3>5. OneThreadInv(t)'
      BY <2>2, <2>6, <3>4 DEF OneThreadInv, Counted, SidRead, StillChecked, Reported, Replied, SidStored
    <3> QED BY <2>2, <3>5
  <2> QED BY <2>2, <2>4, <2>5, <2>6
<1>3. CASE WriteVotes(t)
  <2>1. /\ SetVotes(req[t].id, local[t].votes) /\ pc[t] = "writeVotes" /\ pc'[t] = "changes" /\ req' = req
    BY <1>3 DEF WriteVotes, At, Goto, KeepLocals, SessionInv, TypeInv, TypeOK
  <2>2. req[t].op = "vote"
    BY <2>1 DEF SessionInv, TypeInv, TypeOK, RequestOK, LabelsOf, Request, Operations
  <2>3. changed' /\ users' = users
    BY <2>1 DEF OneThreadInv, AboutToWrite, SetVotes
  <2>4. OneThreadInv(t)'
    BY <2>1, <2>2, <2>3 DEF OneThreadInv, AboutToWrite, Counted, SidRead, StillChecked, Reported, Replied, SidStored
  <2> QED BY <2>3, <2>4
<1> QED BY <1>1, <1>2, <1>3

LEMMA LastSteps ==
    ASSUME SessionInv, NEW t \in Thread, OneThreadInv(t), UpdateUser(t) \/ ReadChanges(t)
    PROVE  OneThreadInv(t)' /\ DistinctStays
<1>1. CASE UpdateUser(t)
  <2>1. pc[t] = "update" /\ req' = req
    BY <1>1 DEF UpdateUser, At, KeepLocals
  <2>2. req[t].op = "change"
    BY <2>1 DEF SessionInv, TypeInv, TypeOK, RequestOK, LabelsOf, Request, Operations
  <2>3. CASE SetPassword(req[t].name, req[t].fresh) /\ Goto(t, "changes")
    <3>1. pc'[t] = "changes" /\ Rows' = Rows
      BY <2>3 DEF Goto, SetPassword, Rows, SessionInv, TypeInv, TypeOK
    <3>2. OneThreadInv(t)'
      BY <2>1, <2>2, <3>1 DEF OneThreadInv, AboutToWrite, Counted, SidRead, StillChecked, Reported, Replied, SidStored
    <3>3. NamesKept
      BY <1>1, StepKeepsNames DEF Step, SessionInv
    <3> QED BY <3>1, <3>2, <3>3, DistinctKept DEF SessionInv
  <2>4. CASE Goto(t, "update") /\ UNCHANGED database
    <3>1. pc'[t] = "update" /\ users' = users
      BY <2>4 DEF Goto, database, SessionInv, TypeInv, TypeOK
    <3>2. PICK n, p : n = req[t].name /\ p = req[t].pass
      OBVIOUS
    <3>3. isUserValid(n, p)
      BY <2>1, <3>2 DEF OneThreadInv, StillChecked
    <3>4. isUserValid(n, p)' /\ n = req'[t].name /\ p = req'[t].pass
      BY <2>1, <3>1, <3>2, <3>3, SameUsers
    <3>5. OneThreadInv(t)'
      BY <2>1, <2>2, <3>1, <3>4 DEF OneThreadInv, AboutToWrite, Counted, SidRead, StillChecked, Reported, Replied, SidStored
    <3> QED BY <3>1, <3>5, SameUsers
  <2> QED BY <1>1, <2>3, <2>4 DEF UpdateUser
<1>2. CASE ReadChanges(t)
  <2>1. users' = users /\ req' = req /\ local' = local /\ pc[t] = "changes" /\ pc'[t] = "replied"
    BY <1>2 DEF ReadChanges, At, Answer, KeepLocals, database, SessionInv, TypeInv, TypeOK
  <2>2. req[t].op = "change" \/ reply'[t] = 200
    BY <1>2, <2>1 DEF ReadChanges, Answer, OneThreadInv, Counted, SessionInv, TypeInv, TypeOK
  <2>3. Holds(t)' <=> Holds(t)
    <3>1. PICK n : n = req[t].name
      OBVIOUS
    <3>2. NameLike(n)' = NameLike(n) /\ n = req'[t].name
      BY <2>1, <3>1, SameUsers
    <3> QED BY <2>1, <3>1, <3>2 DEF Holds
  <2>4. SidStored(t)'
    BY <2>1, <2>3 DEF OneThreadInv, SidStored
  <2>5. Reported(t)'
    BY <2>1, <2>2 DEF Reported, Replied
  <2>6. OneThreadInv(t)'
    BY <2>1, <2>4, <2>5 DEF OneThreadInv, AboutToWrite, Counted, SidRead, StillChecked
  <2> QED BY <2>1, <2>6, SameUsers
<1> QED BY <1>1, <1>2

LEMMA EnvironmentSteps ==
    ASSUME SessionInv, NEW t \in Thread, OneThreadInv(t),
           Restart \/ (\E s : Timeout(s)) \/ UNCHANGED vars
    PROVE  OneThreadInv(t)' /\ DistinctStays
<1>1. CASE Restart
  <2>1. pc'[t] = "idle" /\ Rows' = Rows
    BY <1>1 DEF Restart, Rows
  <2>2. NamesKept
    BY <1>1, EnvironmentKeeps DEF SessionInv
  <2> QED BY <2>1, <2>2, QuietPlace, DistinctKept DEF SessionInv
<1>2. CASE (\E s : Timeout(s)) \/ UNCHANGED vars
  <2>1. /\ users' = users /\ comments' = comments /\ changed' = changed /\ pc' = pc /\ req' = req
        /\ local' = local /\ reply' = reply /\ expired \subseteq expired'
    BY <1>2 DEF Timeout, vars, database, threads
  <2>2. PICK n, p, s : n = req[t].name /\ p = req[t].pass /\ s = local[t].sid
    OBVIOUS
  <2>3. /\ NameLike(n)' = NameLike(n) /\ (isUserValid(n, p)' <=> isUserValid(n, p)) /\ (Live(s)' <=> Live(s))
        /\ n = req'[t].name /\ p = req'[t].pass /\ s = local'[t].sid
    BY <2>1, <2>2, SameUsers
  <2>4. Holds(t)' <=> Holds(t)
    BY <2>1, <2>2, <2>3 DEF Holds
  <2>5. AboutToWrite(t)' /\ Counted(t)' /\ Reported(t)'
    BY <2>1, <2>2, <2>3 DEF OneThreadInv, AboutToWrite, Counted, Reported, Replied
  <2>6. SidRead(t)' /\ SidStored(t)' /\ StillChecked(t)'
    BY <2>1, <2>2, <2>3, <2>4 DEF OneThreadInv, SidRead, SidStored, StillChecked
  <2> QED BY <2>1, <2>5, <2>6, SameUsers DEF OneThreadInv
<1> QED BY <1>1, <1>2

-----------------------------------------------------------------------------
(* The invariant, and what it shows.                                       *)

LEMMA OneThreadInit ==
    ASSUME NEW t, Thread = {t}, Init
    PROVE  OneThreadInv(t)
<1>1. t \in Thread /\ pc[t] = "idle"
  BY DEF Init
<1> QED BY <1>1 DEF OneThreadInv, AboutToWrite, Counted, Reported, Replied, SidRead, SidStored, StillChecked

LEMMA OneThreadNext ==
    ASSUME NEW t, Thread = {t}, SessionInv, OneThreadInv(t), [Next]_vars
    PROVE  OneThreadInv(t)' /\ DistinctStays
<1>1. t \in Thread
  OBVIOUS
<1>2. CASE Restart \/ (\E s : Timeout(s)) \/ UNCHANGED vars
  BY <1>1, <1>2, EnvironmentSteps
<1>3. CASE Accept(t) \/ GetUserId(t) \/ Close(t)
  BY <1>1, <1>3, FirstSteps, SameUsers
<1>4. CASE CheckCredentials(t)
  BY <1>1, <1>4, CredentialSteps, SameUsers
<1>5. CASE ReadStoredSid(t)
  BY <1>1, <1>5, ReadStoredSidStep, SameUsers
<1>6. CASE CheckSession(t)
  BY <1>1, <1>6, CheckSessionStep, SameUsers
<1>7. CASE ExpireSession(t) \/ StoreSid(t) \/ DropSid(t)
  BY <1>1, <1>7, SessionSteps
<1>8. CASE CheckNameFree(t) \/ InsertUser(t) \/ CountName(t)
  BY <1>1, <1>8, NewAccountSteps
<1>9. CASE InsertComment(t) \/ ReadVotes(t) \/ WriteVotes(t)
  BY <1>1, <1>9, CommentSteps, SameUsers
<1>10. CASE UpdateUser(t) \/ ReadChanges(t)
  BY <1>1, <1>10, LastSteps
<1>11. Accept(t) \/ Step(t) \/ Restart \/ (\E s : Timeout(s)) \/ UNCHANGED vars
  BY Zenon DEF Next
<1> QED BY <1>2, <1>3, <1>4, <1>5, <1>6, <1>7, <1>8, <1>9, <1>10, <1>11 DEF Step

LEMMA OneThreadAlways ==
    ASSUME NEW u, Thread = {u}
    PROVE  Safety => [](SessionInv /\ OneThreadInv(u))
<1>1. Init => OneThreadInv(u)
  BY OneThreadInit
<1>2. SessionInv /\ OneThreadInv(u) /\ [Next]_vars => OneThreadInv(u)'
  BY OneThreadNext
<1> QED BY <1>1, <1>2, SessionInvAlways, PTL DEF Safety

LEMMA DistinctAlways ==
    ASSUME NEW u, Thread = {u}, NamesWithoutWildcards, DistinctNames(InitialUsers)
    PROVE  Safety => []DistinctNames(users)
<1>1. Init => DistinctNames(users)
  BY DEF Init, DatabaseInit
<1>2. SessionInv /\ OneThreadInv(u) /\ DistinctNames(users) /\ [Next]_vars => DistinctNames(users)'
  BY OneThreadNext DEF DistinctStays
<1> QED BY <1>1, <1>2, OneThreadAlways, PTL DEF Safety

\* With one thread the number of changed rows a handler reads is that of its own
\* statement: no signup, comment, vote or sign-in that was carried out is answered
\* with a failure.
THEOREM SuccessIsReportedCorrect ==
    ASSUME NEW u, Thread = {u}
    PROVE  Safety => []SuccessIsReported
<1>1. OneThreadInv(u) => SuccessIsReported
  BY DEF OneThreadInv, Reported, SuccessIsReported
<1> QED BY <1>1, OneThreadAlways, PTL

\* With one thread the sid a sign-in answers with is in a row of the account it
\* names when the answer is sent.
THEOREM SigninAnswersLiveSessionCorrect ==
    ASSUME NEW u, Thread = {u}
    PROVE  Safety => []SigninAnswersLiveSession
<1>1. OneThreadInv(u) => SigninAnswersLiveSession
  BY DEF OneThreadInv, SidStored, Holds, Replied, SigninAnswersLiveSession
<1> QED BY <1>1, OneThreadAlways, PTL

\* With one thread no two accounts ever match each other's names, so the name and
\* password of every account sign it in.
THEOREM CredentialsAcceptedCorrect ==
    ASSUME NEW u, Thread = {u}, NamesWithoutWildcards, DistinctNames(InitialUsers)
    PROVE  Safety => []CredentialsAccepted
<1>1. SessionInv /\ DistinctNames(users) => CredentialsAccepted
  <2>1. SUFFICES ASSUME SessionInv, DistinctNames(users), NEW i \in Rows
                 PROVE  isUserValid(users[i].name, users[i].password)
    BY DEF CredentialsAccepted
  <2>2. users[i].name \in Name
    BY <2>1, RowsType DEF SessionInv, TypeInv, TypeOK, DatabaseTypeOK, User
  <2>3. NameLike(users[i].name) = {i}
    BY <2>1, <2>2, LikeAssumption DEF NameLike, DistinctNames, Rows
  <2> QED BY <2>3 DEF isUserValid
<1> QED BY <1>1, SessionInvAlways, DistinctAlways, PTL

\* With one thread voteComment's copy of a comment's votes is not stale when it is
\* written: a vote leaves everybody else's votes alone.
THEOREM VotesOfOthersKeptCorrect ==
    ASSUME NEW u, Thread = {u}
    PROVE  Safety => VotesOfOthersKept
<1>1. SessionInv /\ OneThreadInv(u) =>
        [\A t \in Thread, c \in DOMAIN comments :
          WriteVotes(t) /\ c = req[t].id =>
            ToSet(comments'[c].votes) \ {local[t].uid} = ToSet(comments[c].votes) \ {local[t].uid}]_vars
  <2>1. SUFFICES ASSUME SessionInv, NEW t \in Thread, OneThreadInv(t), NEW c \in DOMAIN comments,
                        WriteVotes(t), c = req[t].id
                 PROVE  ToSet(comments'[c].votes) \ {local[t].uid} = ToSet(comments[c].votes) \ {local[t].uid}
    OBVIOUS
  <2>2. SetVotes(c, local[t].votes) /\ pc[t] = "writeVotes"
    BY <2>1 DEF WriteVotes, At
  <2>3. comments[c] \in Comment
    <3>1. comments \in Seq(Comment)
      BY <2>1 DEF SessionInv, TypeInv, TypeOK, DatabaseTypeOK
    <3> QED BY <2>1, <3>1
  <2>4. comments'[c].votes = local[t].votes
    BY <2>1, <2>2, <2>3 DEF SetVotes, Comment
  <2>5. ToSet(local[t].votes) \ {local[t].uid} = ToSet(comments[c].votes) \ {local[t].uid}
    BY <2>1, <2>2 DEF OneThreadInv, AboutToWrite
  <2> QED BY <2>4, <2>5
<1> QED BY <1>1, OneThreadAlways, PTL DEF VotesOfOthersKept

\* Only changeUserData changes the password of a row.
LEMMA PasswordSteps ==
    ASSUME TypeInv, NEW i \in Rows, users'[i].password # users[i].password, [Next]_vars
    PROVE  \E t \in Thread : UpdateUser(t)
<1>1. users \in Seq(User) /\ \A j \in Rows : users[j] \in User
  BY RowsType DEF TypeInv, TypeOK, DatabaseTypeOK
<1>2. ASSUME NEW S, NEW s, SetSid(S, s)
      PROVE  FALSE
  BY <1>1, <1>2 DEF SetSid, User
<1>3. ASSUME NEW n, NEW p, InsertUserRow(n, p)
      PROVE  FALSE
  <2>1. PICK r : r = [name |-> n, password |-> p, sid |-> NoSid]
    OBVIOUS
  <2>2. users' = Append(users, r)
    BY <1>3, <2>1 DEF InsertUserRow
  <2>3. users'[i] = users[i]
    BY <1>1, <2>2 DEF Rows
  <2> QED BY <2>3
<1>4. users' # users
  OBVIOUS
<1>5. ASSUME Restart
      PROVE  FALSE
  BY <1>1, <1>5 DEF Restart, User
<1>6. ASSUME NEW t \in Thread, Accept(t) \/ Step(t), ~UpdateUser(t)
      PROVE  FALSE
  <2>1. CASE ExpireSession(t) \/ StoreSid(t) \/ DropSid(t)
    BY <1>2, <2>1 DEF ExpireSession, StoreSid, StoreSidIn, DropSid
  <2>2. CASE InsertUser(t)
    BY <1>3, <1>4, <2>2 DEF InsertUser, ConstraintFailed
  <2>3. CASE InsertComment(t) \/ WriteVotes(t)
    BY <1>4, <2>3 DEF InsertComment, InsertCommentRow, ConstraintFailed, WriteVotes, SetVotes
  <2>4. CASE Accept(t) \/ GetUserId(t) \/ CheckCredentials(t) \/ ReadStoredSid(t) \/ CheckSession(t)
    BY <1>4, <2>4 DEF Accept, GetUserId, CheckCredentials, ReadStoredSid, CheckSession, database
  <2>5. CASE CheckNameFree(t) \/ CountName(t) \/ ReadVotes(t) \/ ReadChanges(t) \/ Close(t)
    BY <1>4, <2>5 DEF CheckNameFree, CountName, ReadVotes, ReadChanges, Close, database
  <2> QED BY <1>6, <2>1, <2>2, <2>3, <2>4, <2>5 DEF Step
<1>7. (\A s : ~Timeout(s)) /\ ~UNCHANGED vars
  BY <1>4 DEF Timeout, vars, database
<1> QED BY <1>5, <1>6, <1>7 DEF Next

\* With one thread the password changeUserData checked is still the account's when
\* it changes it.
THEOREM CurrentPasswordChangesPasswordCorrect ==
    ASSUME NEW u, Thread = {u}
    PROVE  Safety => CurrentPasswordChangesPassword
<1>1. SessionInv /\ OneThreadInv(u) /\ [Next]_vars =>
        [\A i \in Rows : users'[i].password # users[i].password =>
          \E t \in Thread : UpdateUser(t) /\ req[t].name = users[i].name
                                          /\ req[t].pass = users[i].password]_vars
  <2>1. SUFFICES ASSUME SessionInv, NEW t \in Thread, OneThreadInv(t), Thread = {t}, [Next]_vars, NEW i \in Rows,
                        users'[i].password # users[i].password
                 PROVE  UpdateUser(t) /\ req[t].name = users[i].name /\ req[t].pass = users[i].password
    OBVIOUS
  <2>2. UpdateUser(t)
    BY <2>1, PasswordSteps DEF SessionInv
  <2>3. pc[t] = "update"
    BY <2>2 DEF UpdateUser, At
  <2>4. users'[i] # users[i]
    BY <2>1
  <2>5. req[t].name = users[i].name
    BY <2>2, <2>4 DEF UpdateUser, SetPassword, database
  <2>6. users[i].name \in Name
    BY RowsType, <2>1 DEF SessionInv, TypeInv, TypeOK, DatabaseTypeOK, User
  <2>7. i \in NameLike(req[t].name)
    BY <2>5, <2>6, LikeAssumption DEF NameLike
  <2>8. isUserValid(req[t].name, req[t].pass)
    BY <2>1, <2>3 DEF OneThreadInv, StillChecked
  <2> QED BY <2>2, <2>5, <2>7, <2>8 DEF isUserValid
<1> QED BY <1>1, OneThreadAlways, PTL DEF CurrentPasswordChangesPassword, Safety

\* With one thread isSessionValid drops the session it found timed out and no
\* other: the owner's name matches one account.
THEOREM OnlyTimedOutSessionsExpireCorrect ==
    ASSUME NEW u, Thread = {u}, NamesWithoutWildcards, DistinctNames(InitialUsers)
    PROVE  Safety => OnlyTimedOutSessionsExpire
<1>1. SessionInv /\ OneThreadInv(u) /\ DistinctNames(users) =>
        [\A t \in Thread : ExpireSession(t) =>
          \A i \in Rows : users'[i].sid # users[i].sid => users[i].sid \in expired]_vars
  <2>1. SUFFICES ASSUME SessionInv, NEW t \in Thread, OneThreadInv(t), DistinctNames(users), ExpireSession(t),
                        NEW i \in Rows, users'[i].sid # users[i].sid
                 PROVE  users[i].sid \in expired
    OBVIOUS
  <2>2. PICK s : s = local[t].sid
    OBVIOUS
  <2>3. /\ pc[t] = "expire" /\ s \in expired /\ s # NoSid
        /\ \E j \in Rows : users[j].sid = s
    BY <2>1, <2>2 DEF ExpireSession, At, OneThreadInv, StillChecked, Live
  <2>4. i \in NameLike(s.owner)
    BY <2>1, <2>2, SetSidRows DEF ExpireSession, SessionInv, TypeInv, TypeOK
  <2>5. PICK j \in Rows : users[j].sid = s /\ j \in NameLike(s.owner)
    BY <2>1, <2>3 DEF SessionInv, SessionsBelongToAccount
  <2>6. s.owner \in Name /\ users[i].name \in Name /\ users[j].name \in Name
    BY <2>1, <2>3, RowsType DEF SessionInv, TypeInv, TypeOK, DatabaseTypeOK, User, Sid
  <2>7. <<users[i].name, users[j].name>> \in Like
    BY <2>4, <2>5, <2>6 DEF NamesWithoutWildcards, NameLike
  <2>8. i = j
    BY <2>1, <2>5, <2>7 DEF DistinctNames, Rows
  <2> QED BY <2>3, <2>5, <2>8
<1> QED BY <1>1, OneThreadAlways, DistinctAlways, PTL DEF OnlyTimedOutSessionsExpire
=============================================================================
