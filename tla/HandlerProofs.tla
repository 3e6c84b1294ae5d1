--------------------------- MODULE HandlerProofs ---------------------------
(***************************************************************************)
(* Theorems about Handlers for every set of threads, names and passwords,  *)
(* every LIKE relation and every initial file: the types of its state, the *)
(* lists of voters, and the names signup grants.                           *)
(***************************************************************************)
EXTENDS HandlerProperties, WellFoundedInduction, SequenceTheorems, TLAPS

-----------------------------------------------------------------------------
(* What the statements of Database do to the types of its tables.          *)

\* The first row of a non-empty set of rows is one of them.
LEMMA FirstRowIn ==
    ASSUME NEW S \in SUBSET Nat, S # {}
    PROVE  FirstRow(S) \in S
  <1>1. PICK i \in S : \A j \in S : <<j, i>> \notin OpToRel(<, Nat)
    BY NatLessThanWellFounded, WFMin, Zenon
  <1>2. \A j, k \in Nat : j < k => <<j, k>> \in OpToRel(<, Nat)
    BY Zenon DEF OpToRel
  <1>3. \A j \in S : ~(j < i)
    BY <1>1, <1>2
  <1>4. \A j \in S : i <= j
    BY <1>3
  <1> QED
    BY <1>4 DEF FirstRow

\* The rows are positive numbers, and each holds a user.
LEMMA RowsType ==
    ASSUME users \in Seq(User)
    PROVE  /\ Rows = 1 .. Len(users)
           /\ Rows \subseteq Nat
           /\ \A i \in Rows : users[i] \in User
  BY DEF Rows

\* SetSid keeps the type of the tables.
LEMMA SetSidType ==
    ASSUME DatabaseTypeOK, NEW S, NEW s \in Sid \cup {NoSid}, SetSid(S, s)
    PROVE  DatabaseTypeOK'
  <1>1. \A i \in Rows : (IF i \in S THEN [users[i] EXCEPT !.sid = s] ELSE users[i]) \in User
    BY RowsType DEF DatabaseTypeOK, User
  <1>2. users' \in Seq(User)
    BY <1>1, IsASeq, RowsType DEF SetSid, DatabaseTypeOK
  <1> QED
    BY <1>2 DEF SetSid, DatabaseTypeOK

\* SetPassword keeps the type of the tables.
LEMMA SetPasswordType ==
    ASSUME DatabaseTypeOK, NEW n, NEW p \in Password \cup {NoPass}, SetPassword(n, p)
    PROVE  DatabaseTypeOK'
  <1>1. \A i \in Rows : (IF users[i].name = n /\ p # NoPass
                         THEN [users[i] EXCEPT !.password = p] ELSE users[i]) \in User
    BY RowsType DEF DatabaseTypeOK, User
  <1>2. users' \in Seq(User)
    BY <1>1, IsASeq, RowsType DEF SetPassword, DatabaseTypeOK
  <1> QED
    BY <1>2 DEF SetPassword, DatabaseTypeOK, NameTaken

\* InsertUserRow keeps the type of the tables.
LEMMA InsertUserRowType ==
    ASSUME DatabaseTypeOK, NEW n \in Name, NEW p \in Password, InsertUserRow(n, p)
    PROVE  DatabaseTypeOK'
  BY AppendProperties DEF InsertUserRow, DatabaseTypeOK, User

\* InsertCommentRow keeps the type of the tables.
LEMMA InsertCommentRowType ==
    ASSUME DatabaseTypeOK, NEW n \in Name, InsertCommentRow(n)
    PROVE  DatabaseTypeOK'
  <1>1. [author |-> n, votes |-> <<>>] \in Comment
    BY DEF Comment
  <1> QED
    BY <1>1, AppendProperties DEF InsertCommentRow, DatabaseTypeOK

\* SetVotes keeps the type of the tables.
LEMMA SetVotesType ==
    ASSUME DatabaseTypeOK, NEW c, NEW v \in Seq(UserId), SetVotes(c, v)
    PROVE  DatabaseTypeOK'
  <1>1. /\ DOMAIN comments = 1 .. Len(comments)
        /\ \A i \in DOMAIN comments : comments[i] \in Comment
    BY DEF DatabaseTypeOK
  <1>2. \A i \in DOMAIN comments :
          (IF i = c THEN [comments[i] EXCEPT !.votes = v] ELSE comments[i]) \in Comment
    BY <1>1 DEF Comment
  <1>3. comments' \in Seq(Comment)
    BY <1>1, <1>2, IsASeq DEF SetVotes, DatabaseTypeOK
  <1> QED
    BY <1>3 DEF SetVotes, DatabaseTypeOK

\* getUserId returns an id or -1.
LEMMA GetUserIdType ==
    ASSUME users \in Seq(User), NEW n, NEW s
    PROVE  getUserId(n, s) \in UserId
  <1>1. NameLike(n) \cup WithSid(s) \in SUBSET Nat
    BY RowsType DEF NameLike, WithSid
  <1> QED
    BY <1>1, FirstRowIn DEF getUserId, UserId

-----------------------------------------------------------------------------
(* What voteComment's edits do to a list of voters.                        *)

\* push_back of an id that is not in the list repeats nobody.
LEMMA AppendNoRepeat ==
    ASSUME NEW s \in Seq(UserId), NEW e \in UserId
    PROVE  /\ Append(s, e) \in Seq(UserId)
           /\ NoRepeat(s) /\ ~Contains(s, e) => NoRepeat(Append(s, e))
  <1>1. /\ Append(s, e) \in Seq(UserId)
        /\ Len(Append(s, e)) = Len(s) + 1
        /\ \A i \in 1 .. Len(s) : Append(s, e)[i] = s[i]
        /\ Append(s, e)[Len(s) + 1] = e
    BY AppendProperties
  <1>2. DOMAIN s = 1 .. Len(s) /\ DOMAIN Append(s, e) = 1 .. Len(s) + 1 /\ Len(s) \in Nat
    BY <1>1, LenProperties
  <1>3. ASSUME NoRepeat(s), ~Contains(s, e),
               NEW i \in 1 .. Len(s) + 1, NEW j \in 1 .. Len(s) + 1,
               Append(s, e)[i] = Append(s, e)[j]
        PROVE  i = j
    <2>1. CASE i \in 1 .. Len(s) /\ j \in 1 .. Len(s)
      BY <1>1, <1>2, <1>3, <2>1 DEF NoRepeat
    <2>2. CASE i = Len(s) + 1 /\ j \in 1 .. Len(s)
      BY <1>1, <1>3, <2>2 DEF Contains
    <2>3. CASE j = Len(s) + 1 /\ i \in 1 .. Len(s)
      BY <1>1, <1>3, <2>3 DEF Contains
    <2> QED
      BY <1>2, <2>1, <2>2, <2>3
  <1> QED
    BY <1>1, <1>2, <1>3 DEF NoRepeat

\* The slice of a list from behind its k-th entry.
LEMMA TailSlice ==
    ASSUME NEW s \in Seq(UserId), NEW k \in 1 .. Len(s)
    PROVE  /\ SubSeq(s, k + 1, Len(s)) \in Seq(UserId)
           /\ Len(SubSeq(s, k + 1, Len(s))) = Len(s) - k
           /\ \A i \in 1 .. Len(s) - k : SubSeq(s, k + 1, Len(s))[i] = s[k + i]
  <1>1. Len(s) \in Nat /\ \A i \in 1 .. Len(s) : s[i] \in UserId
    BY LenProperties, ElementOfSeq
  <1>2. ASSUME NEW m \in Int, NEW n \in Int, m = k + 1, n = Len(s)
        PROVE  /\ SubSeq(s, m, n) \in Seq(UserId)
               /\ Len(SubSeq(s, m, n)) = Len(s) - k
               /\ \A i \in 1 .. Len(s) - k : SubSeq(s, m, n)[i] = s[k + i]
    <2>1. \A i \in m .. n : s[i] \in UserId
      BY <1>1, <1>2
    <2>2. /\ SubSeq(s, m, n) \in Seq(UserId)
          /\ Len(SubSeq(s, m, n)) = IF m <= n THEN n - m + 1 ELSE 0
          /\ \A i \in 1 .. n - m + 1 : SubSeq(s, m, n)[i] = s[m + i - 1]
      BY <2>1, SubSeqProperties
    <2>3. n - m + 1 = Len(s) - k /\ (m <= n \/ Len(s) - k = 0)
      BY <1>1, <1>2
    <2>4. \A i \in 1 .. Len(s) - k : m + i - 1 = k + i
      BY <1>1, <1>2
    <2> QED
      BY <2>2, <2>3, <2>4
  <1> QED
    BY <1>1, <1>2

\* A list without its k-th entry.
LEMMA RemoveAtElements ==
    ASSUME NEW s \in Seq(UserId), NEW k \in 1 .. Len(s)
    PROVE  /\ RemoveAt(s, k) \in Seq(UserId)
           /\ Len(RemoveAt(s, k)) = Len(s) - 1
           /\ \A i \in 1 .. Len(s) - 1 : RemoveAt(s, k)[i] = IF i < k THEN s[i] ELSE s[i + 1]
  <1> DEFINE a == SubSeq(s, 1, k - 1)
             b == SubSeq(s, k + 1, Len(s))
  <1>1. Len(s) \in Nat /\ DOMAIN s = 1 .. Len(s) /\ \A i \in 1 .. Len(s) : s[i] \in UserId
    BY LenProperties, ElementOfSeq
  <1>2. /\ a \in Seq(UserId) /\ Len(a) = k - 1
        /\ \A i \in 1 .. k - 1 : a[i] = s[i]
    <2>1. \A i \in 1 .. k - 1 : s[i] \in UserId
      BY <1>1
    <2> QED
      BY <1>1, <2>1, SubSeqProperties
  <1>3. /\ b \in Seq(UserId) /\ Len(b) = Len(s) - k
        /\ \A i \in 1 .. Len(s) - k : b[i] = s[k + i]
    BY <1>1, TailSlice
  <1>4. RemoveAt(s, k) = a \o b
    BY DEF RemoveAt
  <1> HIDE DEF a, b
  <1>5. /\ a \o b \in Seq(UserId)
        /\ Len(a \o b) = Len(s) - 1
        /\ \A i \in 1 .. Len(s) - 1 : (a \o b)[i] = IF i < k THEN s[i] ELSE s[i + 1]
    <2>1. /\ a \o b \in Seq(UserId)
          /\ Len(a \o b) = Len(a) + Len(b)
          /\ \A i \in 1 .. Len(a) + Len(b) :
                (a \o b)[i] = IF i <= Len(a) THEN a[i] ELSE b[i - Len(a)]
      BY <1>2, <1>3, ConcatProperties
    <2>2. Len(a) + Len(b) = Len(s) - 1
      BY <1>1, <1>2, <1>3
    <2>3. ASSUME NEW i \in 1 .. Len(s) - 1
          PROVE  (a \o b)[i] = IF i < k THEN s[i] ELSE s[i + 1]
      <3>1. CASE i < k
        BY <1>1, <1>2, <2>1, <2>2, <3>1
      <3>2. CASE ~(i < k)
        <4>1. i - (k - 1) \in 1 .. Len(s) - k /\ k + (i - (k - 1)) = i + 1 /\ ~(i <= k - 1)
          BY <1>1, <3>2
        <4>2. (a \o b)[i] = b[i - (k - 1)]
          BY <1>1, <1>2, <2>1, <2>2, <4>1
        <4>3. b[i - (k - 1)] = s[k + (i - (k - 1))]
          BY <1>3, <4>1
        <4> QED
          BY <3>2, <4>1, <4>2, <4>3
      <3> QED
        BY <3>1, <3>2
    <2> QED
      BY <2>1, <2>2, <2>3
  <1> QED
    BY <1>4, <1>5

\* Erasing one place of a list repeats nobody.
LEMMA RemoveAtNoRepeat ==
    ASSUME NEW s \in Seq(UserId), NEW k \in 1 .. Len(s), NoRepeat(s)
    PROVE  NoRepeat(RemoveAt(s, k))
  <1>1. PICK r : r = RemoveAt(s, k)
    OBVIOUS
  <1>2. /\ Len(s) \in Nat /\ DOMAIN s = 1 .. Len(s)
        /\ r \in Seq(UserId) /\ Len(r) = Len(s) - 1
        /\ \A i \in 1 .. Len(s) - 1 : r[i] = IF i < k THEN s[i] ELSE s[i + 1]
    BY <1>1, LenProperties, RemoveAtElements
  <1>3. DOMAIN r = 1 .. Len(s) - 1
    BY <1>2, LenProperties
  <1>4. ASSUME NEW i \in 1 .. Len(s) - 1, NEW j \in 1 .. Len(s) - 1, r[i] = r[j]
        PROVE  i = j
    <2> DEFINE p(x) == IF x < k THEN x ELSE x + 1
    <2>1. p(i) \in 1 .. Len(s) /\ p(j) \in 1 .. Len(s) /\ (p(i) = p(j) => i = j)
      BY <1>2
    <2>2. s[p(i)] = s[p(j)]
      BY <1>2, <1>4
    <2> HIDE DEF p
    <2> QED
      BY <1>2, <2>1, <2>2 DEF NoRepeat
  <1> QED
    BY <1>1, <1>3, <1>4 DEF NoRepeat

\* Erasing the first entry of an id erases a place where it is, if there is one.
LEMMA RemoveFirstAt ==
    ASSUME NEW s \in Seq(UserId), NEW e
    PROVE  \/ \E k \in 1 .. Len(s) : s[k] = e /\ RemoveFirst(s, e) = RemoveAt(s, k)
           \/ RemoveFirst(s, e) = s
  <1>1. CASE \E i \in 1 .. Len(s) : s[i] = e
    <2> DEFINE places == {i \in 1 .. Len(s) : s[i] = e}
    <2>1. RemoveFirst(s, e) = RemoveAt(s, Min(places)) /\ places # {}
      BY <1>1, Zenon DEF RemoveFirst, SelectInSeq
    <2>2. Len(s) \in Nat /\ places \in SUBSET Nat
      BY LenProperties
    <2>3. FirstRow(places) = Min(places)
      BY DEF FirstRow, Min
    <2>4. Min(places) \in places
      BY <2>1, <2>2, <2>3, FirstRowIn
    <2> QED
      BY <2>1, <2>4
  <1>2. CASE ~\E i \in 1 .. Len(s) : s[i] = e
    BY <1>2, Zenon DEF RemoveFirst
  <1> QED
    BY <1>1, <1>2

\* Erasing the first entry of an id repeats nobody.
LEMMA RemoveFirstNoRepeat ==
    ASSUME NEW s \in Seq(UserId), NEW e
    PROVE  /\ RemoveFirst(s, e) \in Seq(UserId)
           /\ NoRepeat(s) => NoRepeat(RemoveFirst(s, e))
  <1>1. CASE RemoveFirst(s, e) = s
    BY <1>1
  <1>2. ASSUME NEW k \in 1 .. Len(s), RemoveFirst(s, e) = RemoveAt(s, k)
        PROVE  /\ RemoveFirst(s, e) \in Seq(UserId)
               /\ NoRepeat(s) => NoRepeat(RemoveFirst(s, e))
    BY <1>2, RemoveAtElements, RemoveAtNoRepeat
  <1> QED
    BY <1>1, <1>2, RemoveFirstAt

-----------------------------------------------------------------------------
(* The inductive invariant.                                                *)

\* A handler is only at the statements of its own operation.
LabelsOf(op) ==
    {"idle", "replied"} \cup
    CASE op = "signup" -> {"nameFree", "insertUser", "changes"}
      [] op = "signin" -> {"cred", "storedSid", "sess", "expire", "storeSid", "changes"}
      [] op = "checksid" -> {"sess", "expire"}
      [] op = "signout" -> {"dropSid"}
      [] op = "post" -> {"cred", "sess", "expire", "insertComment", "changes"}
      [] op = "vote" -> {"uid", "cred", "sess", "expire", "readVotes", "writeVotes", "changes"}
      [] op = "change" -> {"cred", "update", "changes"}
      [] op = "checkuser" -> {"countName"}

\* A request of an operation that needs a name has one, and while createSession
\* reads the stored sid a row matches the name.
RequestOK ==
    \A t \in Thread :
        /\ pc[t] \in LabelsOf(req[t].op)
        /\ req[t].op \in {"signup", "signin"} => req[t].name \in Name /\ req[t].pass \in Password
        /\ pc[t] = "storedSid" => NameLike(req[t].name) # {}

TypeInv == TypeOK /\ RequestOK

\* Every request a client sends is a request.
LEMMA RequestsType ==
    ASSUME TypeInv, NEW op \in Operations, NEW r \in Requests(op)
    PROVE  /\ r \in Request /\ r.op = op
           /\ op \in {"signup", "signin"} => r.name \in Name /\ r.pass \in Password
  <1>1. known \cup {NoSid} \subseteq Sid \cup {NoSid}
    BY DEF TypeInv, TypeOK
  <1>2. PICK names \in SUBSET (Name \cup {NoName}), passes \in SUBSET (Password \cup {NoPass}),
             sids \in SUBSET (Sid \cup {NoSid}) :
          /\ r \in Sends(op, names, passes, sids)
          /\ op \in {"signup", "signin"} => names = Name /\ passes = Password
    <2>1. CASE op \in {"signup", "signin", "change"}
      BY <2>1 DEF Requests
    <2>2. CASE op = "checksid"
      BY <2>2, <1>1 DEF Requests
    <2>3. CASE op = "signout"
      BY <2>3, <1>1 DEF Requests
    <2>4. CASE op = "checkuser"
      BY <2>4 DEF Requests
    <2>5. CASE op \in {"post", "vote"}
      BY <2>5, <1>1 DEF Requests
    <2> QED
      BY <2>1, <2>2, <2>3, <2>4, <2>5 DEF Operations
  <1>3. 1 .. MaxComments \subseteq Nat /\ 0 \in Nat
    BY BoundAssumption
  <1>4. Sends(op, names, passes, sids) \subseteq Request
    BY <1>3 DEF Sends, Request
  <1>5. r.op = op /\ r.name \in names /\ r.pass \in passes
    BY <1>2 DEF Sends
  <1> QED
    BY <1>2, <1>4, <1>5

\* No row is lost and no row changes its name.
NamesKept == \A i \in Rows : i \in Rows' /\ users'[i].name = users[i].name

\* Each statement keeps the names of the rows.
LEMMA StatementsKeepNames ==
    ASSUME DatabaseTypeOK,
           \/ \E S, s : SetSid(S, s)
           \/ \E n, p : SetPassword(n, p)
           \/ \E n \in Name, p \in Password : InsertUserRow(n, p)
           \/ users' = users
    PROVE  NamesKept
  <1>1. CASE \E S, s : SetSid(S, s)
    <2>1. PICK S, s : SetSid(S, s)
      BY <1>1
    <2>2. ASSUME NEW i \in Rows PROVE users[i] \in User
      BY RowsType DEF DatabaseTypeOK
    <2> QED
      BY <2>1, <2>2 DEF SetSid, NamesKept, Rows, User
  <1>2. CASE \E n, p : SetPassword(n, p)
    <2>1. PICK n, p : SetPassword(n, p)
      BY <1>2
    <2>2. ASSUME NEW i \in Rows PROVE users[i] \in User
      BY RowsType DEF DatabaseTypeOK
    <2> QED
      BY <2>1, <2>2 DEF SetPassword, NamesKept, Rows, User
  <1>3. CASE \E n \in Name, p \in Password : InsertUserRow(n, p)
    <2>1. PICK n \in Name, p \in Password : InsertUserRow(n, p)
      BY <1>3
    <2> DEFINE row == [name |-> n, password |-> p, sid |-> NoSid]
    <2>2. users \in Seq(User) /\ row \in User
      BY DEF DatabaseTypeOK, User
    <2>3. users' = Append(users, row)
      BY <2>1 DEF InsertUserRow
    <2> HIDE DEF row
    <2> QED
      BY <2>2, <2>3, AppendProperties, LenProperties DEF NamesKept, Rows
  <1>4. CASE users' = users
    BY <1>4 DEF NamesKept, Rows
  <1> QED
    BY <1>1, <1>2, <1>3, <1>4

\* A step of thread t that moves it to another statement of its operation.
LEMMA MoveType ==
    ASSUME TypeInv, NEW t \in Thread, NEW label \in LabelsOf(req[t].op) \cap Label,
           pc' = [pc EXCEPT ![t] = label], req' = req,
           DatabaseTypeOK', NamesKept,
           local' \in [Thread -> Local], reply' \in [Thread -> Status],
           expired' \subseteq Sid, keys' \in Nat, known' \subseteq Sid \cup {NoSid}, granted' \in [Name -> Nat],
           label = "storedSid" => NameLike(req[t].name) # {}
    PROVE  TypeInv'
  <1>1. TypeOK'
    BY DEF TypeInv, TypeOK
  <1>2. ASSUME NEW u \in Thread
        PROVE  /\ pc'[u] \in LabelsOf(req'[u].op)
               /\ req'[u].op \in {"signup", "signin"} =>
                     req'[u].name \in Name /\ req'[u].pass \in Password
               /\ pc'[u] = "storedSid" =>
                     \E i \in Rows' : <<req'[u].name, users'[i].name>> \in Like
    <2>1. pc'[u] = (IF u = t THEN label ELSE pc[u]) /\ req'[u] = req[u]
      BY DEF TypeInv, TypeOK
    <2>2. pc'[u] \in LabelsOf(req'[u].op)
      BY <2>1 DEF TypeInv, RequestOK
    <2>3. req'[u].op \in {"signup", "signin"} =>
            req'[u].name \in Name /\ req'[u].pass \in Password
      BY <2>1 DEF TypeInv, RequestOK
    <2>4. ASSUME pc'[u] = "storedSid"
          PROVE  \E i \in Rows' : <<req'[u].name, users'[i].name>> \in Like
      <3>1. PICK i \in Rows : <<req[u].name, users[i].name>> \in Like
        BY <2>1, <2>4 DEF TypeInv, RequestOK, NameLike
      <3> QED
        BY <2>1, <3>1 DEF NamesKept
    <2> QED
      BY <2>2, <2>3, <2>4
  <1>3. RequestOK'
    BY <1>2, Zenon DEF RequestOK, NameLike
  <1> QED
    BY <1>1, <1>3 DEF TypeInv

-----------------------------------------------------------------------------
(* Each action keeps the types.                                            *)

LEMMA AcceptType ==
    ASSUME TypeInv, NEW t \in Thread, Accept(t)
    PROVE  TypeInv'
  <1>0. PICK op \in Op : \E r \in Requests(op) :
          /\ req' = [req EXCEPT ![t] = r]
          /\ local' = [local EXCEPT ![t].sid = r.sid]
          /\ pc' = [pc EXCEPT ![t] = FirstLabel(op)]
    BY Zenon DEF Accept
  <1>1. PICK r \in Requests(op) :
          /\ req' = [req EXCEPT ![t] = r]
          /\ local' = [local EXCEPT ![t].sid = r.sid]
          /\ pc' = [pc EXCEPT ![t] = FirstLabel(op)]
    BY <1>0
  <1>2. op \in Operations
    BY OpAssumption
  <1>3. /\ r \in Request /\ r.op = op
        /\ op \in {"signup", "signin"} => r.name \in Name /\ r.pass \in Password
    BY <1>2, RequestsType
  <1>4. UNCHANGED <<database, reply, expired, keys, clients>>
    BY DEF Accept
  <1>5. FirstLabel(op) \in LabelsOf(op) \cap Label /\ FirstLabel(op) # "storedSid"
    BY <1>2 DEF FirstLabel, LabelsOf, Label, Operations
  <1>6. [local[t] EXCEPT !.sid = r.sid] \in Local
    BY <1>3 DEF TypeInv, TypeOK, Local, Request
  <1>7. TypeOK'
    <2>1. local' = [local EXCEPT ![t] = [local[t] EXCEPT !.sid = r.sid]]
      BY <1>1
    <2> QED
      BY <1>1, <1>3, <1>4, <1>5, <1>6, <2>1
         DEF TypeInv, TypeOK, DatabaseTypeOK, database, clients
  <1>8. RequestOK'
    BY <1>1, <1>3, <1>4, <1>5 DEF TypeInv, TypeOK, RequestOK, NameLike, Rows, database
  <1> QED
    BY <1>7, <1>8 DEF TypeInv

LEMMA GetUserIdStepType ==
    ASSUME TypeInv, NEW t \in Thread, GetUserId(t)
    PROVE  TypeInv'
  <1> DEFINE new == [local[t] EXCEPT !.uid = getUserId(req[t].name, req[t].sid)]
  <1>1. getUserId(req[t].name, req[t].sid) \in UserId
    BY GetUserIdType DEF TypeInv, TypeOK, DatabaseTypeOK
  <1>2. new \in Local
    BY <1>1 DEF TypeInv, TypeOK, Local
  <1>3. local' = [local EXCEPT ![t] = new]
    BY DEF GetUserId
  <1>4. pc[t] = "uid" /\ pc' = [pc EXCEPT ![t] = "cred"] /\ reply' = reply
    BY DEF GetUserId, At, Goto
  <1>5. "cred" \in LabelsOf(req[t].op) \cap Label
    BY <1>4 DEF TypeInv, TypeOK, RequestOK, LabelsOf, Label, Request, Operations
  <1>6. UNCHANGED <<database, req, expired, keys, clients>>
    BY DEF GetUserId
  <1>7. NamesKept /\ DatabaseTypeOK'
    BY <1>6, StatementsKeepNames DEF TypeInv, TypeOK, DatabaseTypeOK, database
  <1> HIDE DEF new
  <1>8. local' \in [Thread -> Local]
    BY <1>2, <1>3 DEF TypeInv, TypeOK
  <1> QED
    BY <1>4, <1>5, <1>6, <1>7, <1>8, MoveType DEF TypeInv, TypeOK, clients

LEMMA CheckCredentialsType ==
    ASSUME TypeInv, NEW t \in Thread, CheckCredentials(t)
    PROVE  TypeInv'
  <1>1. UNCHANGED <<database, req, local, expired, keys, clients>>
    BY DEF CheckCredentials, KeepLocals
  <1>2. PICK label \in {"storedSid", "insertComment", "readVotes", "update", "sess", "replied"} :
          /\ pc' = [pc EXCEPT ![t] = label]
          /\ label \in LabelsOf(req[t].op)
          /\ label = "storedSid" => isUserValid(req[t].name, req[t].pass)
    BY DEF CheckCredentials, Goto, Answer, LabelsOf
  <1>3. reply' \in [Thread -> Status]
    BY DEF CheckCredentials, Goto, Answer, TypeInv, TypeOK, Status
  <1>4. label = "storedSid" => NameLike(req[t].name) # {}
    BY <1>2 DEF isUserValid
  <1>5. NamesKept /\ DatabaseTypeOK'
    BY <1>1, StatementsKeepNames DEF TypeInv, TypeOK, DatabaseTypeOK, database
  <1> QED
    BY <1>1, <1>2, <1>3, <1>4, <1>5, MoveType DEF TypeInv, TypeOK, clients, Label

LEMMA ReadStoredSidType ==
    ASSUME TypeInv, NEW t \in Thread, ReadStoredSid(t)
    PROVE  TypeInv'
  <1> DEFINE row == users[FirstRow(NameLike(req[t].name))]
             new == [local[t] EXCEPT !.sid = row.sid]
  <1>1. pc[t] = "storedSid" /\ pc' = [pc EXCEPT ![t] = "sess"] /\ reply' = reply
    BY DEF ReadStoredSid, At, Goto
  <1>2. NameLike(req[t].name) # {} /\ NameLike(req[t].name) \in SUBSET Nat
    BY <1>1, RowsType DEF TypeInv, TypeOK, DatabaseTypeOK, RequestOK, NameLike
  <1>3. FirstRow(NameLike(req[t].name)) \in Rows
    BY <1>2, FirstRowIn DEF NameLike
  <1>4. row \in User
    BY <1>3, RowsType DEF TypeInv, TypeOK, DatabaseTypeOK
  <1>5. new \in Local
    BY <1>4 DEF TypeInv, TypeOK, Local, User
  <1>6. local' = [local EXCEPT ![t] = new]
    BY DEF ReadStoredSid
  <1>7. UNCHANGED <<database, req, expired, keys, clients>>
    BY DEF ReadStoredSid
  <1>8. "sess" \in LabelsOf(req[t].op) \cap Label
    BY <1>1 DEF TypeInv, TypeOK, RequestOK, LabelsOf, Label, Request, Operations
  <1>9. NamesKept /\ DatabaseTypeOK'
    BY <1>7, StatementsKeepNames DEF TypeInv, TypeOK, DatabaseTypeOK, database
  <1> HIDE DEF new
  <1>10. local' \in [Thread -> Local]
    BY <1>5, <1>6 DEF TypeInv, TypeOK
  <1> QED
    BY <1>1, <1>7, <1>8, <1>9, <1>10, MoveType DEF TypeInv, TypeOK, clients

LEMMA CheckSessionType ==
    ASSUME TypeInv, NEW t \in Thread, CheckSession(t)
    PROVE  TypeInv'
  <1>1. UNCHANGED <<database, req, local, expired, keys, clients>>
    BY DEF CheckSession, KeepLocals
  <1>2. pc[t] = "sess"
    BY DEF CheckSession, At
  <1>3. PICK label \in {"insertComment", "readVotes", "storeSid", "expire", "replied"} :
          pc' = [pc EXCEPT ![t] = label] /\ label \in LabelsOf(req[t].op)
    BY <1>2 DEF CheckSession, WhenSessionValid, WhenSessionInvalid, Goto, Answer, LabelsOf,
                TypeInv, TypeOK, RequestOK, Request, Operations
  <1>4. reply' \in [Thread -> Status]
    BY DEF CheckSession, WhenSessionValid, WhenSessionInvalid, Goto, Answer, TypeInv, TypeOK, Status
  <1>5. NamesKept /\ DatabaseTypeOK'
    BY <1>1, StatementsKeepNames DEF TypeInv, TypeOK, DatabaseTypeOK, database
  <1> QED
    BY <1>1, <1>3, <1>4, <1>5, MoveType DEF TypeInv, TypeOK, clients, Label

LEMMA ExpireSessionType ==
    ASSUME TypeInv, NEW t \in Thread, ExpireSession(t)
    PROVE  TypeInv'
  <1>1. UNCHANGED <<req, local, expired, keys, clients>>
    BY DEF ExpireSession, KeepLocals
  <1>2. SetSid(NameLike(local[t].sid.owner), NoSid)
    BY DEF ExpireSession
  <1>3. PICK label \in {"storeSid", "replied"} :
          pc' = [pc EXCEPT ![t] = label] /\ label \in LabelsOf(req[t].op)
    BY DEF ExpireSession, WhenSessionInvalid, Goto, Answer, LabelsOf
  <1>4. reply' \in [Thread -> Status]
    BY DEF ExpireSession, WhenSessionInvalid, Goto, Answer, TypeInv, TypeOK, Status
  <1>5. NamesKept
    BY <1>2, StatementsKeepNames DEF TypeInv, TypeOK
  <1>6. DatabaseTypeOK'
    BY <1>2, SetSidType DEF TypeInv, TypeOK
  <1> QED
    BY <1>1, <1>3, <1>4, <1>5, <1>6, MoveType DEF TypeInv, TypeOK, clients, Label

LEMMA StoreSidType ==
    ASSUME TypeInv, NEW t \in Thread, StoreSid(t)
    PROVE  TypeInv'
  <1> DEFINE new == [local[t] EXCEPT !.sid = FreshSid(t)]
  <1>1. /\ pc[t] = "storeSid"
        /\ SetSid(NameLike(req[t].name), FreshSid(t))
        /\ local' = [local EXCEPT ![t] = new]
        /\ keys' = keys + 1
        /\ pc' = [pc EXCEPT ![t] = "changes"] /\ reply' = reply
        /\ UNCHANGED <<req, expired, clients>>
    BY DEF StoreSid, StoreSidIn, At, Goto
  <1>2. req[t].op = "signin"
    BY <1>1 DEF TypeInv, TypeOK, RequestOK, LabelsOf, Request, Operations
  <1>3. FreshSid(t) \in Sid
    BY <1>2 DEF FreshSid, Sid, TypeInv, TypeOK, RequestOK
  <1>4. new \in Local
    BY <1>3 DEF TypeInv, TypeOK, Local
  <1>5. "changes" \in LabelsOf(req[t].op) \cap Label
    BY <1>2 DEF LabelsOf, Label
  <1>6. NamesKept
    BY <1>1, StatementsKeepNames DEF TypeInv, TypeOK
  <1>7. DatabaseTypeOK'
    BY <1>1, <1>3, SetSidType DEF TypeInv, TypeOK
  <1> HIDE DEF new
  <1>8. local' \in [Thread -> Local]
    BY <1>1, <1>4 DEF TypeInv, TypeOK
  <1>9. /\ reply' \in [Thread -> Status] /\ expired' \subseteq Sid /\ keys' \in Nat
        /\ known' \subseteq Sid \cup {NoSid} /\ granted' \in [Name -> Nat]
    BY <1>1 DEF TypeInv, TypeOK, clients
  <1>10. pc' = [pc EXCEPT ![t] = "changes"] /\ req' = req
    BY <1>1
  <1> QED
    BY <1>5, <1>6, <1>7, <1>8, <1>9, <1>10, MoveType

LEMMA DropSidType ==
    ASSUME TypeInv, NEW t \in Thread, DropSid(t)
    PROVE  TypeInv'
  <1>1. /\ SetSid(WithSid(req[t].sid), NoSid)
        /\ pc' = [pc EXCEPT ![t] = "replied"] /\ reply' = [reply EXCEPT ![t] = 200]
        /\ UNCHANGED <<req, local, expired, keys, clients>>
    BY DEF DropSid, Answer, KeepLocals
  <1>2. "replied" \in LabelsOf(req[t].op) \cap Label /\ 200 \in Status
    BY DEF LabelsOf, Label, Status
  <1>3. NamesKept
    BY <1>1, StatementsKeepNames DEF TypeInv, TypeOK
  <1>4. DatabaseTypeOK'
    BY <1>1, SetSidType DEF TypeInv, TypeOK
  <1> QED
    BY <1>1, <1>2, <1>3, <1>4, MoveType DEF TypeInv, TypeOK, clients

LEMMA CheckNameFreeType ==
    ASSUME TypeInv, NEW t \in Thread, CheckNameFree(t)
    PROVE  TypeInv'
  <1>1. UNCHANGED <<database, req, local, expired, keys, clients>>
    BY DEF CheckNameFree, KeepLocals
  <1>2. req[t].op = "signup"
    BY DEF CheckNameFree, At, TypeInv, TypeOK, RequestOK, LabelsOf, Request, Operations
  <1>3. PICK label \in {"insertUser", "replied"} :
          pc' = [pc EXCEPT ![t] = label] /\ label \in LabelsOf(req[t].op)
    BY <1>2 DEF CheckNameFree, Goto, Answer, LabelsOf
  <1>4. reply' \in [Thread -> Status]
    BY DEF CheckNameFree, Goto, Answer, TypeInv, TypeOK, Status
  <1>5. NamesKept /\ DatabaseTypeOK'
    BY <1>1, StatementsKeepNames DEF TypeInv, TypeOK, DatabaseTypeOK, database
  <1> QED
    BY <1>1, <1>3, <1>4, <1>5, MoveType DEF TypeInv, TypeOK, clients, Label

LEMMA InsertUserType ==
    ASSUME TypeInv, NEW t \in Thread, InsertUser(t)
    PROVE  TypeInv'
  <1>1. UNCHANGED <<req, local, reply, expired, keys, clients>>
    BY DEF InsertUser, Goto, KeepLocals
  <1>2. req[t].op = "signup" /\ req[t].name \in Name /\ req[t].pass \in Password
    BY DEF InsertUser, At, TypeInv, TypeOK, RequestOK, LabelsOf, Request, Operations
  <1>3. PICK label \in {"insertUser", "changes"} : pc' = [pc EXCEPT ![t] = label]
    BY DEF InsertUser, Goto
  <1>4. label \in LabelsOf(req[t].op) \cap Label
    BY <1>2, <1>3 DEF LabelsOf, Label
  <1>5. CASE InsertUserRow(req[t].name, req[t].pass)
    <2>1. NamesKept
      BY <1>2, <1>5, StatementsKeepNames DEF TypeInv, TypeOK
    <2>2. DatabaseTypeOK'
      BY <1>2, <1>5, InsertUserRowType DEF TypeInv, TypeOK
    <2> QED
      BY <1>1, <1>3, <1>4, <2>1, <2>2, MoveType DEF TypeInv, TypeOK, clients
  <1>6. CASE ConstraintFailed
    <2>1. NamesKept
      BY <1>6, StatementsKeepNames DEF TypeInv, TypeOK, ConstraintFailed
    <2>2. DatabaseTypeOK'
      BY <1>6 DEF TypeInv, TypeOK, DatabaseTypeOK, ConstraintFailed
    <2> QED
      BY <1>1, <1>3, <1>4, <2>1, <2>2, MoveType DEF TypeInv, TypeOK, clients
  <1>7. InsertUserRow(req[t].name, req[t].pass) \/ ConstraintFailed
    BY Zenon DEF InsertUser
  <1> QED
    BY <1>5, <1>6, <1>7

LEMMA CountNameType ==
    ASSUME TypeInv, NEW t \in Thread, CountName(t)
    PROVE  TypeInv'
  <1>1. UNCHANGED <<database, req, local, expired, keys, clients>>
    BY DEF CountName, KeepLocals
  <1>2. /\ pc' = [pc EXCEPT ![t] = "replied"]
        /\ reply' \in [Thread -> Status]
    BY DEF CountName, Answer, TypeInv, TypeOK, Status
  <1>3. "replied" \in LabelsOf(req[t].op) \cap Label
    BY DEF LabelsOf, Label
  <1>4. NamesKept /\ DatabaseTypeOK'
    BY <1>1, StatementsKeepNames DEF TypeInv, TypeOK, DatabaseTypeOK, database
  <1> QED
    BY <1>1, <1>2, <1>3, <1>4, MoveType DEF TypeInv, TypeOK, clients

\* The name postComment gives a comment is a row's or the request's.
LEMMA InsertCommentType ==
    ASSUME TypeInv, NEW t \in Thread, InsertComment(t)
    PROVE  TypeInv'
  <1>1. UNCHANGED <<req, local, reply, expired, keys, clients>>
    BY DEF InsertComment, Goto, KeepLocals
  <1>2. req[t].op = "post" /\ req[t] \in Request
    BY DEF InsertComment, At, TypeInv, TypeOK, RequestOK, LabelsOf, Request, Operations
  <1>3. PICK label \in {"insertComment", "changes"} : pc' = [pc EXCEPT ![t] = label]
    BY DEF InsertComment, Goto
  <1>4. label \in LabelsOf(req[t].op) \cap Label
    BY <1>2, <1>3 DEF LabelsOf, Label
  <1>5. users' = users
    BY DEF InsertComment, InsertCommentRow, ConstraintFailed
  <1>6. NamesKept
    BY <1>5, StatementsKeepNames DEF TypeInv, TypeOK
  <1>7. DatabaseTypeOK'
    <2>1. CASE req[t].name # NoName /\ InsertCommentRow(req[t].name)
      BY <1>2, <2>1, InsertCommentRowType DEF TypeInv, TypeOK, Request
    <2>2. CASE Live(req[t].sid) /\ InsertCommentRow(users[FirstRow(WithSid(req[t].sid))].name)
      <3>1. WithSid(req[t].sid) # {} /\ WithSid(req[t].sid) \in SUBSET Nat
        BY <2>2, RowsType DEF Live, WithSid, TypeInv, TypeOK, DatabaseTypeOK
      <3>2. FirstRow(WithSid(req[t].sid)) \in Rows
        BY <3>1, FirstRowIn DEF WithSid
      <3>3. users[FirstRow(WithSid(req[t].sid))].name \in Name
        BY <3>2, RowsType DEF TypeInv, TypeOK, DatabaseTypeOK, User
      <3> QED
        BY <2>2, <3>3, InsertCommentRowType DEF TypeInv, TypeOK
    <2>3. CASE ConstraintFailed
      BY <2>3 DEF TypeInv, TypeOK, DatabaseTypeOK, ConstraintFailed
    <2>4. \/ req[t].name # NoName /\ InsertCommentRow(req[t].name)
          \/ Live(req[t].sid) /\ InsertCommentRow(users[FirstRow(WithSid(req[t].sid))].name)
          \/ ConstraintFailed
      BY Zenon DEF InsertComment
    <2> QED
      BY <2>1, <2>2, <2>3, <2>4
  <1> QED
    BY <1>1, <1>3, <1>4, <1>6, <1>7, MoveType DEF TypeInv, TypeOK, clients

\* The votes of a comment are a list of ids, and so is the handler's copy.
LEMMA EditedType ==
    ASSUME TypeInv, NEW t \in Thread, NEW s \in Seq(UserId)
    PROVE  /\ Edited(t, s) \in Seq(UserId)
           /\ NoRepeat(s) /\ HasVoted(t, s) # req[t].vote => NoRepeat(Edited(t, s))
  <1>1. local[t].uid \in UserId /\ req[t].vote \in BOOLEAN
    BY DEF TypeInv, TypeOK, Local, Request
  <1>2. CASE req[t].vote
    BY <1>1, <1>2, AppendNoRepeat DEF Edited, HasVoted
  <1>3. CASE ~req[t].vote
    BY <1>3, RemoveFirstNoRepeat DEF Edited
  <1> QED
    BY <1>2, <1>3

LEMMA ReadVotesType ==
    ASSUME TypeInv, NEW t \in Thread, ReadVotes(t)
    PROVE  TypeInv'
  <1>1. UNCHANGED <<database, req, expired, keys, clients>>
    BY DEF ReadVotes
  <1>2. req[t].op = "vote"
    BY DEF ReadVotes, At, TypeInv, TypeOK, RequestOK, LabelsOf, Request, Operations
  <1>3. PICK label \in {"writeVotes", "replied"} : pc' = [pc EXCEPT ![t] = label]
    BY DEF ReadVotes, Goto, Answer
  <1>4. label \in LabelsOf(req[t].op) \cap Label
    BY <1>2, <1>3 DEF LabelsOf, Label
  <1>5. reply' \in [Thread -> Status]
    BY DEF ReadVotes, Goto, Answer, TypeInv, TypeOK, Status
  <1>6. local' \in [Thread -> Local]
    <2>1. CASE local' = local
      BY <2>1 DEF TypeInv, TypeOK
    <2>2. CASE /\ req[t].id \in DOMAIN comments
               /\ local' = [local EXCEPT ![t].votes = Edited(t, comments[req[t].id].votes)]
      <3> DEFINE new == [local[t] EXCEPT !.votes = Edited(t, comments[req[t].id].votes)]
      <3>1. comments[req[t].id].votes \in Seq(UserId)
        <4>1. comments \in Seq(Comment)
          BY DEF TypeInv, TypeOK, DatabaseTypeOK
        <4>2. comments[req[t].id] \in Comment
          BY <2>2, <4>1
        <4> QED
          BY <4>2 DEF Comment
      <3>2. Edited(t, comments[req[t].id].votes) \in Seq(UserId)
        BY <3>1, EditedType
      <3>3. new \in Local
        BY <3>2 DEF TypeInv, TypeOK, Local
      <3>4. local' = [local EXCEPT ![t] = new]
        BY <2>2
      <3> HIDE DEF new
      <3> QED
        BY <3>3, <3>4 DEF TypeInv, TypeOK
    <2> QED
      BY <2>1, <2>2, Zenon DEF ReadVotes
  <1>7. NamesKept /\ DatabaseTypeOK'
    BY <1>1, StatementsKeepNames DEF TypeInv, TypeOK, DatabaseTypeOK, database
  <1> QED
    BY <1>1, <1>3, <1>4, <1>5, <1>6, <1>7, MoveType DEF TypeInv, TypeOK, clients

LEMMA WriteVotesType ==
    ASSUME TypeInv, NEW t \in Thread, WriteVotes(t)
    PROVE  TypeInv'
  <1>1. UNCHANGED <<req, local, reply, expired, keys, clients>>
    BY DEF WriteVotes, Goto, KeepLocals
  <1>2. SetVotes(req[t].id, local[t].votes)
    BY DEF WriteVotes
  <1>3. pc[t] = "writeVotes" /\ pc' = [pc EXCEPT ![t] = "changes"]
    BY DEF WriteVotes, At, Goto
  <1>4. "changes" \in LabelsOf(req[t].op) \cap Label
    BY <1>3 DEF TypeInv, TypeOK, RequestOK, LabelsOf, Label, Request, Operations
  <1>5. NamesKept
    BY <1>2, StatementsKeepNames DEF TypeInv, TypeOK, SetVotes
  <1>6. local[t].votes \in Seq(UserId)
    BY DEF TypeInv, TypeOK, Local
  <1>7. DatabaseTypeOK'
    BY <1>2, <1>6, SetVotesType DEF TypeInv, TypeOK
  <1> QED
    BY <1>1, <1>3, <1>4, <1>5, <1>7, MoveType DEF TypeInv, TypeOK, clients

LEMMA UpdateUserType ==
    ASSUME TypeInv, NEW t \in Thread, UpdateUser(t)
    PROVE  TypeInv'
  <1>1. UNCHANGED <<req, local, reply, expired, keys, clients>>
    BY DEF UpdateUser, Goto, KeepLocals
  <1>2. req[t].op = "change"
    BY DEF UpdateUser, At, TypeInv, TypeOK, RequestOK, LabelsOf, Request, Operations
  <1>3. PICK label \in {"update", "changes"} : pc' = [pc EXCEPT ![t] = label]
    BY DEF UpdateUser, Goto
  <1>4. label \in LabelsOf(req[t].op) \cap Label
    BY <1>2, <1>3 DEF LabelsOf, Label
  <1>5. CASE SetPassword(req[t].name, req[t].fresh)
    <2>1. NamesKept
      BY <1>5, StatementsKeepNames DEF TypeInv, TypeOK
    <2>2. req[t].fresh \in Password \cup {NoPass}
      BY DEF TypeInv, TypeOK, Request
    <2>3. DatabaseTypeOK'
      BY <1>5, <2>2, SetPasswordType DEF TypeInv, TypeOK
    <2> QED
      BY <1>1, <1>3, <1>4, <2>1, <2>3, MoveType DEF TypeInv, TypeOK, clients
  <1>6. CASE UNCHANGED database
    <2>1. NamesKept /\ DatabaseTypeOK'
      BY <1>6, StatementsKeepNames DEF TypeInv, TypeOK, DatabaseTypeOK, database
    <2> QED
      BY <1>1, <1>3, <1>4, <2>1, MoveType DEF TypeInv, TypeOK, clients
  <1>7. SetPassword(req[t].name, req[t].fresh) \/ UNCHANGED database
    BY Zenon DEF UpdateUser
  <1> QED
    BY <1>5, <1>6, <1>7

LEMMA ReadChangesType ==
    ASSUME TypeInv, NEW t \in Thread, ReadChanges(t)
    PROVE  TypeInv'
  <1>1. UNCHANGED <<database, req, local, expired, keys, clients>>
    BY DEF ReadChanges, KeepLocals
  <1>2. /\ pc' = [pc EXCEPT ![t] = "replied"]
        /\ reply' \in [Thread -> Status]
    BY DEF ReadChanges, Answer, TypeInv, TypeOK, Status
  <1>3. "replied" \in LabelsOf(req[t].op) \cap Label
    BY DEF LabelsOf, Label
  <1>4. NamesKept /\ DatabaseTypeOK'
    BY <1>1, StatementsKeepNames DEF TypeInv, TypeOK, DatabaseTypeOK, database
  <1> QED
    BY <1>1, <1>2, <1>3, <1>4, MoveType DEF TypeInv, TypeOK, clients

\* A thread between two requests holds neither a request nor locals.
LEMMA NothingType == NoRequest \in Request /\ NoLocal \in Local
  BY DEF NoRequest, NoLocal, Request, Local, Operations, UserId, NoUser

LEMMA CloseType ==
    ASSUME TypeInv, NEW t \in Thread, Close(t)
    PROVE  TypeInv'
  <1>1. /\ pc' = [pc EXCEPT ![t] = "idle"]
        /\ req' = [req EXCEPT ![t] = NoRequest]
        /\ local' = [local EXCEPT ![t] = NoLocal]
        /\ reply' = [reply EXCEPT ![t] = 0]
        /\ UNCHANGED <<database, expired, keys>>
    BY DEF Close
  <1>2. known' \subseteq Sid \cup {NoSid}
    <2>1. CASE ~(req[t].op = "signin" /\ reply[t] = 200)
      BY <2>1 DEF Close, TypeInv, TypeOK
    <2>2. CASE req[t].op = "signin" /\ reply[t] = 200
      BY <2>2 DEF Close, TypeInv, TypeOK, Local
    <2> QED
      BY <2>1, <2>2
  <1>3. granted' \in [Name -> Nat]
    <2>1. req[t].op = "signup" => req[t].name \in Name
      BY DEF TypeInv, RequestOK
    <2> QED
      BY <2>1 DEF Close, TypeInv, TypeOK
  <1>4. TypeOK'
    BY <1>1, <1>2, <1>3, NothingType DEF TypeInv, TypeOK, DatabaseTypeOK, database, Label, Status
  <1>5. RequestOK'
    BY <1>1 DEF TypeInv, TypeOK, RequestOK, NameLike, Rows, database, NoRequest, LabelsOf
  <1> QED
    BY <1>4, <1>5 DEF TypeInv

LEMMA TimeoutType ==
    ASSUME TypeInv, NEW s \in {users[i].sid : i \in Rows}, Timeout(s)
    PROVE  TypeInv'
  <1>1. /\ expired' = expired \cup {s} /\ s.nr > 0
        /\ UNCHANGED <<database, threads, keys, clients>>
    BY DEF Timeout
  <1>2. s \in Sid
    <2>1. s \in Sid \cup {NoSid}
      BY RowsType DEF TypeInv, TypeOK, DatabaseTypeOK, User
    <2> QED
      BY <1>1, <2>1 DEF NoSid
  <1>3. TypeOK'
    BY <1>1, <1>2 DEF TypeInv, TypeOK, DatabaseTypeOK, database, threads, clients
  <1>4. RequestOK'
    BY <1>1 DEF TypeInv, RequestOK, NameLike, Rows, database, threads
  <1> QED
    BY <1>3, <1>4 DEF TypeInv

LEMMA RestartType ==
    ASSUME TypeInv, Restart
    PROVE  TypeInv'
  <1>1. \A i \in Rows : (IF i \in NameLike(TestName) THEN users[i]
                         ELSE [users[i] EXCEPT !.sid = NoSid]) \in User
    BY RowsType DEF TypeInv, TypeOK, DatabaseTypeOK, User
  <1>2. users' \in Seq(User)
    BY <1>1, IsASeq, RowsType DEF Restart, TypeInv, TypeOK, DatabaseTypeOK
  <1>3. TypeOK'
    BY <1>2, NothingType DEF Restart, TypeInv, TypeOK, DatabaseTypeOK, clients, Label, Status
  <1>4. RequestOK'
    BY DEF Restart, RequestOK, NoRequest, LabelsOf
  <1> QED
    BY <1>3, <1>4 DEF TypeInv

LEMMA InitType ==
    ASSUME Init
    PROVE  TypeInv
  <1>1. DatabaseTypeOK
    BY InitialAssumption DEF Init, DatabaseInit, DatabaseTypeOK
  <1>2. known \subseteq Sid \cup {NoSid}
    BY <1>1, RowsType DEF Init, DatabaseTypeOK, User
  <1>3. TypeOK
    BY <1>1, <1>2, NothingType DEF Init, TypeOK, Label, Status
  <1>4. RequestOK
    BY DEF Init, RequestOK, NoRequest, LabelsOf
  <1> QED
    BY <1>3, <1>4 DEF TypeInv

LEMMA NextType ==
    ASSUME TypeInv, [Next]_vars
    PROVE  TypeInv'
  <1>1. CASE \E t \in Thread : Accept(t) \/ Step(t)
    <2>1. PICK t \in Thread : Accept(t) \/ Step(t)
      BY <1>1
    <2>2. CASE Accept(t)
      BY <2>2, AcceptType
    <2>3. CASE Step(t)
      BY <2>3, GetUserIdStepType, CheckCredentialsType, ReadStoredSidType, CheckSessionType,
         ExpireSessionType, StoreSidType, DropSidType, CheckNameFreeType, InsertUserType,
         CountNameType, InsertCommentType, ReadVotesType, WriteVotesType, UpdateUserType,
         ReadChangesType, CloseType, Zenon DEF Step
    <2> QED
      BY <2>1, <2>2, <2>3
  <1>2. CASE \E s \in {users[i].sid : i \in Rows} : Timeout(s)
    BY <1>2, TimeoutType
  <1>3. CASE Restart
    BY <1>3, RestartType
  <1>4. CASE UNCHANGED vars
    BY <1>4 DEF vars, database, threads, clients, TypeInv, TypeOK, DatabaseTypeOK, RequestOK,
                NameLike, Rows
  <1> QED
    BY <1>1, <1>2, <1>3, <1>4 DEF Next

\* Every state of the server has the types of TypeOK, and its handlers are where
\* their operation can be, with a name when they need one.
THEOREM TypeCorrect == Safety => []TypeOK
  <1>1. Init => TypeInv
    BY InitType
  <1>2. TypeInv /\ [Next]_vars => TypeInv'
    BY NextType
  <1>3. TypeInv => TypeOK
    BY DEF TypeInv
  <1> QED
    BY <1>1, <1>2, <1>3, PTL DEF Safety

-----------------------------------------------------------------------------
(* NoDuplicateVotes: what the handlers are about to write repeats nobody   *)
(* either, whatever happened to the comment since they read it.            *)

CopiesOK == \A t \in Thread : NoRepeat(local[t].votes)

VotesInv == TypeInv /\ NoDuplicateVotes /\ CopiesOK

LEMMA VotesInit ==
    ASSUME Init
    PROVE  VotesInv
  <1>1. NoDuplicateVotes
    BY InitialAssumption DEF Init, DatabaseInit, NoDuplicateVotes
  <1>2. CopiesOK
    BY DEF Init, CopiesOK, NoLocal, NoRepeat
  <1> QED
    BY <1>1, <1>2, InitType DEF VotesInv

\* Every step but voteComment's keeps the comments' votes and the handlers' copies,
\* or starts a copy or a comment without votes.
LEMMA VotesKept ==
    ASSUME VotesInv,
           comments' = comments,
           \A u \in Thread : local'[u].votes = local[u].votes \/ local'[u].votes = <<>>
    PROVE  NoDuplicateVotes' /\ CopiesOK'
  BY DEF VotesInv, NoDuplicateVotes, CopiesOK, NoRepeat

\* The handler's copy names nobody twice after its edit.
LEMMA ReadVotesKeeps ==
    ASSUME VotesInv, NEW t \in Thread, ReadVotes(t)
    PROVE  NoDuplicateVotes' /\ CopiesOK'
  <1>1. comments' = comments
    BY DEF ReadVotes, database
  <1>2. NoDuplicateVotes'
    BY <1>1 DEF VotesInv, NoDuplicateVotes
  <1>3. CASE local' = local
    BY <1>2, <1>3 DEF VotesInv, CopiesOK
  <1>4. CASE /\ req[t].id \in DOMAIN comments
             /\ HasVoted(t, comments[req[t].id].votes) # req[t].vote
             /\ local' = [local EXCEPT ![t].votes = Edited(t, comments[req[t].id].votes)]
    <2> DEFINE old == comments[req[t].id].votes
               new == [local[t] EXCEPT !.votes = Edited(t, old)]
    <2>1. comments \in Seq(Comment)
      BY DEF VotesInv, TypeInv, TypeOK, DatabaseTypeOK
    <2>2. comments[req[t].id] \in Comment
      BY <1>4, <2>1
    <2>3. old \in Seq(UserId) /\ NoRepeat(old)
      BY <1>4, <2>2 DEF Comment, VotesInv, NoDuplicateVotes
    <2>4. NoRepeat(Edited(t, old))
      BY <1>4, <2>3, EditedType DEF VotesInv
    <2>5. local \in [Thread -> Local] /\ local' = [local EXCEPT ![t] = new]
      BY <1>4 DEF VotesInv, TypeInv, TypeOK
    <2>6. new.votes = Edited(t, old)
      BY <2>5 DEF Local
    <2> HIDE DEF new, old
    <2>7. ASSUME NEW u \in Thread PROVE NoRepeat(local'[u].votes)
      BY <2>4, <2>5, <2>6 DEF VotesInv, CopiesOK
    <2>8. CopiesOK'
      BY <2>7, Zenon DEF CopiesOK, NoRepeat
    <2> QED
      BY <1>2, <2>8
  <1> QED
    BY <1>3, <1>4, Zenon DEF ReadVotes

\* A copy that is written over the comment's votes names nobody twice.
LEMMA WriteVotesKeeps ==
    ASSUME VotesInv, NEW t \in Thread, WriteVotes(t)
    PROVE  NoDuplicateVotes' /\ CopiesOK'
  <1> DEFINE new == local[t].votes
  <1>1. local' = local /\ SetVotes(req[t].id, new)
    BY DEF WriteVotes, KeepLocals
  <1>2. NoRepeat(new)
    BY DEF VotesInv, CopiesOK
  <1>3. comments \in Seq(Comment)
    BY DEF VotesInv, TypeInv, TypeOK, DatabaseTypeOK
  <1> HIDE DEF new
  <1>4. ASSUME NEW c \in DOMAIN comments'
        PROVE  NoRepeat(comments'[c].votes)
    <2>1. c \in DOMAIN comments /\ comments[c] \in Comment
      BY <1>1, <1>3 DEF SetVotes
    <2>2. comments'[c] = IF c = req[t].id THEN [comments[c] EXCEPT !.votes = new] ELSE comments[c]
      BY <1>1, <2>1 DEF SetVotes
    <2> QED
      BY <1>2, <2>1, <2>2 DEF VotesInv, NoDuplicateVotes, Comment
  <1>5. NoDuplicateVotes'
    BY <1>4, Zenon DEF NoDuplicateVotes, NoRepeat
  <1>6. CopiesOK'
    BY <1>1 DEF VotesInv, CopiesOK
  <1> QED
    BY <1>5, <1>6

\* A new comment has no votes.
LEMMA InsertCommentKeeps ==
    ASSUME VotesInv, NEW t \in Thread, InsertComment(t)
    PROVE  NoDuplicateVotes' /\ CopiesOK'
  <1>1. local' = local
    BY DEF InsertComment, KeepLocals
  <1>2. CopiesOK'
    BY <1>1 DEF VotesInv, CopiesOK
  <1>3. CASE comments' = comments
    BY <1>2, <1>3 DEF VotesInv, NoDuplicateVotes
  <1>4. CASE \E author : InsertCommentRow(author)
    <2>1. PICK author : InsertCommentRow(author)
      BY <1>4
    <2> DEFINE row == [author |-> author, votes |-> <<>>]
    <2>2. comments \in Seq(Comment) /\ comments' = Append(comments, row) /\ row.votes = <<>>
      BY <2>1 DEF VotesInv, TypeInv, TypeOK, DatabaseTypeOK, InsertCommentRow
    <2> HIDE DEF row
    <2>3. /\ DOMAIN comments' = DOMAIN comments \cup {Len(comments) + 1}
          /\ \A c \in DOMAIN comments : comments'[c] = comments[c]
          /\ comments'[Len(comments) + 1] = row
      BY <2>2
    <2>4. ASSUME NEW c \in DOMAIN comments' PROVE NoRepeat(comments'[c].votes)
      BY <2>2, <2>3 DEF VotesInv, NoDuplicateVotes, NoRepeat
    <2>5. NoDuplicateVotes'
      BY <2>4, Zenon DEF NoDuplicateVotes, NoRepeat
    <2> QED
      BY <1>2, <2>5
  <1>5. comments' = comments \/ \E author : InsertCommentRow(author)
    BY Zenon DEF InsertComment, ConstraintFailed
  <1> QED
    BY <1>3, <1>4, <1>5

\* A step of a handler that is not one of the three above.
LEMMA OtherStepsKeep ==
    ASSUME VotesInv, NEW t \in Thread,
           Accept(t) \/ Step(t),
           ~ReadVotes(t), ~WriteVotes(t), ~InsertComment(t)
    PROVE  /\ comments' = comments
           /\ \A u \in Thread : local'[u].votes = local[u].votes \/ local'[u].votes = <<>>
  <1>1. local \in [Thread -> Local]
    BY DEF VotesInv, TypeInv, TypeOK
  <1> DEFINE kept == \A u \in Thread : local'[u].votes = local[u].votes
  <1>2. CASE Accept(t)
    <2>1. comments' = comments /\ \E s : local' = [local EXCEPT ![t] = [local[t] EXCEPT !.sid = s]]
      BY <1>2, Zenon DEF Accept, database
    <2>2. kept
      BY <1>1, <2>1 DEF Local
    <2> QED
      BY <2>1, <2>2
  <1>3. CASE GetUserId(t) \/ ReadStoredSid(t)
    <2>1. comments' = comments
      BY <1>3 DEF GetUserId, ReadStoredSid, database
    <2>2. \/ \E i : local' = [local EXCEPT ![t] = [local[t] EXCEPT !.uid = i]]
          \/ \E s : local' = [local EXCEPT ![t] = [local[t] EXCEPT !.sid = s]]
      BY <1>3, Zenon DEF GetUserId, ReadStoredSid
    <2>3. kept
      <3>1. ASSUME NEW i, local' = [local EXCEPT ![t] = [local[t] EXCEPT !.uid = i]]
            PROVE  kept
        BY <1>1, <3>1 DEF Local
      <3>2. ASSUME NEW s, local' = [local EXCEPT ![t] = [local[t] EXCEPT !.sid = s]]
            PROVE  kept
        BY <1>1, <3>2 DEF Local
      <3> QED BY <2>2, <3>1, <3>2
    <2> QED
      BY <2>1, <2>3
  <1>4. CASE StoreSid(t)
    <2>1. /\ comments' = comments
          /\ \E s : local' = [local EXCEPT ![t] = [local[t] EXCEPT !.sid = s]]
      BY <1>4, Zenon DEF StoreSid, StoreSidIn, SetSid
    <2>2. kept
      BY <1>1, <2>1 DEF Local
    <2> QED
      BY <2>1, <2>2
  <1>5. CASE CheckCredentials(t) \/ CheckSession(t) \/ CheckNameFree(t) \/ CountName(t) \/ ReadChanges(t)
    BY <1>5 DEF CheckCredentials, CheckSession, CheckNameFree, CountName, ReadChanges,
                KeepLocals, database
  <1>6. CASE ExpireSession(t) \/ DropSid(t)
    BY <1>6 DEF ExpireSession, DropSid, KeepLocals, SetSid
  <1>7. CASE InsertUser(t)
    BY <1>7 DEF InsertUser, KeepLocals, InsertUserRow, ConstraintFailed
  <1>8. CASE UpdateUser(t)
    BY <1>8 DEF UpdateUser, KeepLocals, SetPassword, database
  <1>9. CASE Close(t)
    BY <1>1, <1>9 DEF Close, database, NoLocal, Local
  <1> QED
    BY <1>2, <1>3, <1>4, <1>5, <1>6, <1>7, <1>8, <1>9, Zenon DEF Step

LEMMA VotesNext ==
    ASSUME VotesInv, [Next]_vars
    PROVE  VotesInv'
  <1>1. TypeInv'
    BY NextType DEF VotesInv
  <1>2. ASSUME NEW t \in Thread, Accept(t) \/ Step(t)
        PROVE  NoDuplicateVotes' /\ CopiesOK'
    <2>1. CASE ReadVotes(t)
      BY <2>1, ReadVotesKeeps
    <2>2. CASE WriteVotes(t)
      BY <2>2, WriteVotesKeeps
    <2>3. CASE InsertComment(t)
      BY <2>3, InsertCommentKeeps
    <2>4. CASE ~ReadVotes(t) /\ ~WriteVotes(t) /\ ~InsertComment(t)
      <3>1. /\ comments' = comments
            /\ \A u \in Thread : local'[u].votes = local[u].votes \/ local'[u].votes = <<>>
        BY <1>2, <2>4, OtherStepsKeep
      <3> QED
        BY <3>1, VotesKept
    <2> QED
      BY <2>1, <2>2, <2>3, <2>4
  <1>3. ASSUME Restart \/ (\E s : Timeout(s)) \/ UNCHANGED vars
        PROVE  NoDuplicateVotes' /\ CopiesOK'
    <2>1. comments' = comments
      BY <1>3, Zenon DEF Restart, Timeout, vars, database
    <2>2. \A u \in Thread : local'[u].votes = local[u].votes \/ local'[u].votes = <<>>
      <3>1. local' = local \/ local' = [t \in Thread |-> NoLocal]
        BY <1>3, Zenon DEF Restart, Timeout, vars, threads
      <3> QED
        BY <3>1 DEF NoLocal
    <2> QED
      BY <2>1, <2>2, VotesKept
  <1>4. \/ \E t \in Thread : Accept(t) \/ Step(t)
        \/ Restart \/ (\E s : Timeout(s)) \/ UNCHANGED vars
    BY Zenon DEF Next
  <1>5. NoDuplicateVotes' /\ CopiesOK'
    BY <1>2, <1>3, <1>4
  <1> QED
    BY <1>1, <1>5 DEF VotesInv

\* voteComment never stores a list that names a voter twice, however many
\* handlers read, edit and write the list of one comment at a time.
THEOREM NoDuplicateVotesCorrect == Safety => []NoDuplicateVotes
  <1>1. Init => VotesInv
    BY VotesInit
  <1>2. VotesInv /\ [Next]_vars => VotesInv'
    BY VotesNext
  <1>3. VotesInv => NoDuplicateVotes
    BY DEF VotesInv
  <1> QED
    BY <1>1, <1>2, <1>3, PTL DEF Safety

-----------------------------------------------------------------------------
(***************************************************************************)
(* signup makes a name one client's, although it checks the name, inserts  *)
(* the row and asks for the number of changed rows in three statements.    *)
(* What makes it work is the UNIQUE constraint and that a row is never     *)
(* deleted: a thread whose insert succeeded claims the name until it has   *)
(* answered, and no other insert of the name can succeed meanwhile or      *)
(* later.  Whether the thread then answers 200 may depend on another       *)
(* thread's statement, but it is the only one that can.                    *)
(***************************************************************************)

\* The insert of t succeeded, and its client has not been told so.
Claims(t) ==
    /\ req[t].op = "signup"
    /\ pc[t] = "changes" \/ (pc[t] = "replied" /\ reply[t] = 200)

\* A claimed name is in the table and was never granted.
ClaimsOpen ==
    \A t \in Thread : Claims(t) => NameTaken(req[t].name) /\ granted[req[t].name] = 0

\* No two threads claim one name.
ClaimsDisjoint ==
    \A t, u \in Thread : Claims(t) /\ Claims(u) /\ req[t].name = req[u].name => t = u

\* A name is granted once, and then in the table.
GrantsTaken ==
    \A n \in Name : granted[n] = 0 \/ (granted[n] = 1 /\ NameTaken(n))

GrantInv == TypeInv /\ ClaimsOpen /\ ClaimsDisjoint /\ GrantsTaken

-----------------------------------------------------------------------------

\* A name that is taken stays taken.
LEMMA TakenKept ==
    ASSUME NamesKept, NEW n, NameTaken(n)
    PROVE  NameTaken(n)'
<1>1. PICK i \in Rows : users[i].name = n
  BY DEF NameTaken
<1>2. i \in Rows' /\ users'[i].name = n
  BY <1>1 DEF NamesKept
<1> QED BY <1>2 DEF NameTaken, Rows

\* No handler loses a row or changes a name.
LEMMA StepKeepsNames ==
    ASSUME TypeInv, NEW t \in Thread, Accept(t) \/ Step(t)
    PROVE  NamesKept
<1>1. CASE UNCHANGED database
  BY <1>1, StatementsKeepNames DEF database, TypeInv, TypeOK
<1>2. CASE ExpireSession(t) \/ StoreSid(t) \/ DropSid(t)
  <2>1. \E S, s : SetSid(S, s)
    BY <1>2, Zenon DEF ExpireSession, StoreSid, StoreSidIn, DropSid
  <2> QED BY <2>1, StatementsKeepNames DEF TypeInv, TypeOK
<1>3. CASE InsertUser(t)
  <2>1. req[t].name \in Name /\ req[t].pass \in Password
    BY <1>3 DEF InsertUser, At, TypeInv, TypeOK, RequestOK, LabelsOf, Request, Operations
  <2>2. InsertUserRow(req[t].name, req[t].pass) \/ users' = users
    BY <1>3, Zenon DEF InsertUser, ConstraintFailed
  <2> QED BY <2>1, <2>2, StatementsKeepNames DEF TypeInv, TypeOK
<1>4. CASE InsertComment(t) \/ WriteVotes(t)
  <2>1. users' = users
    BY <1>4 DEF InsertComment, InsertCommentRow, ConstraintFailed, WriteVotes, SetVotes
  <2> QED BY <2>1, StatementsKeepNames DEF TypeInv, TypeOK
<1>5. CASE UpdateUser(t)
  <2>1. (\E n, p : SetPassword(n, p)) \/ users' = users
    BY <1>5, Zenon DEF UpdateUser, database
  <2> QED BY <2>1, StatementsKeepNames DEF TypeInv, TypeOK
<1> QED
  BY <1>1, <1>2, <1>3, <1>4, <1>5, Zenon
     DEF Step, Accept, GetUserId, CheckCredentials, ReadStoredSid, CheckSession, CheckNameFree,
         CountName, ReadVotes, ReadChanges, Close

\* A step that grants nothing and makes no claim keeps the invariant.
LEMMA NoClaimMade ==
    ASSUME GrantInv, NamesKept, granted' = granted,
           \A u \in Thread : Claims(u)' => Claims(u) /\ req'[u].name = req[u].name
    PROVE  ClaimsOpen' /\ ClaimsDisjoint' /\ GrantsTaken'
<1>1. ASSUME NEW u \in Thread, Claims(u)'
      PROVE  NameTaken(req[u].name)' /\ granted'[req'[u].name] = 0 /\ req'[u].name = req[u].name
  BY <1>1, TakenKept DEF GrantInv, ClaimsOpen
<1>2. ClaimsOpen'
  BY <1>1 DEF ClaimsOpen, NameTaken
<1>3. ClaimsDisjoint'
  BY DEF GrantInv, ClaimsDisjoint
<1>4. ASSUME NEW n \in Name PROVE granted'[n] = 0 \/ (granted'[n] = 1 /\ NameTaken(n)')
  BY TakenKept DEF GrantInv, GrantsTaken
<1>5. GrantsTaken'
  BY <1>4 DEF GrantsTaken, NameTaken
<1> QED BY <1>2, <1>3, <1>5

\* A step of a handler moves no other thread.
LEMMA OthersStay ==
    ASSUME TypeInv, NEW t \in Thread, Step(t)
    PROVE  /\ \A u \in Thread \ {t} :
                 pc'[u] = pc[u] /\ reply'[u] = reply[u] /\ req'[u] = req[u]
           /\ ~Close(t) => req' = req /\ granted' = granted
<1> USE DEF TypeInv, TypeOK, Goto, Answer, KeepLocals, clients
<1>1. CASE Close(t)
  BY <1>1 DEF Close
<1>2. CASE GetUserId(t) \/ CheckCredentials(t) \/ ReadStoredSid(t)
  BY <1>2 DEF GetUserId, CheckCredentials, ReadStoredSid
<1>3. CASE CheckSession(t) \/ ExpireSession(t)
  BY <1>3 DEF CheckSession, ExpireSession, WhenSessionValid, WhenSessionInvalid
<1>4. CASE StoreSid(t) \/ DropSid(t) \/ CheckNameFree(t)
  BY <1>4 DEF StoreSid, StoreSidIn, DropSid, CheckNameFree
<1>5. CASE InsertUser(t)
  BY <1>5 DEF InsertUser
<1>6. CASE CountName(t) \/ InsertComment(t)
  BY <1>6 DEF CountName, InsertComment
<1>7. CASE ReadVotes(t) \/ WriteVotes(t)
  BY <1>7 DEF ReadVotes, WriteVotes
<1>8. CASE UpdateUser(t) \/ ReadChanges(t)
  BY <1>8 DEF UpdateUser, ReadChanges
<1> QED
  BY <1>1, <1>2, <1>3, <1>4, <1>5, <1>6, <1>7, <1>8, Zenon DEF Step

\* The statements of a signup.
LEMMA SignupSteps ==
    ASSUME TypeInv, NEW t \in Thread, Step(t), req[t].op = "signup"
    PROVE  CheckNameFree(t) \/ InsertUser(t) \/ ReadChanges(t) \/ Close(t)
<1>1. pc[t] \in {"idle", "replied", "nameFree", "insertUser", "changes"}
  BY DEF TypeInv, RequestOK, LabelsOf
<1> QED
  BY <1>1 DEF Step, At, GetUserId, CheckCredentials, ReadStoredSid, CheckSession, ExpireSession,
              StoreSid, StoreSidIn, DropSid, CountName, InsertComment, ReadVotes, WriteVotes, UpdateUser

-----------------------------------------------------------------------------
(* The two steps that matter.                                              *)

\* The insert of a signup: the row was not there, so nobody claims the name
\* and it was never granted.
LEMMA InsertKeepsGrants ==
    ASSUME GrantInv, NEW t \in Thread, InsertUser(t)
    PROVE  ClaimsOpen' /\ ClaimsDisjoint' /\ GrantsTaken'
<1> DEFINE n == req[t].name
<1>1. NamesKept
  BY StepKeepsNames DEF GrantInv, Step
<1>2. /\ \A u \in Thread \ {t} : pc'[u] = pc[u] /\ reply'[u] = reply[u]
      /\ req' = req /\ granted' = granted
  BY DEF InsertUser, Goto, KeepLocals, clients, GrantInv, TypeInv, TypeOK
<1>3. CASE pc' = [pc EXCEPT ![t] = "insertUser"]
  <2>1. ~Claims(t)'
    BY <1>3 DEF Claims, GrantInv, TypeInv, TypeOK
  <2>2. \A u \in Thread : Claims(u)' => Claims(u) /\ req'[u].name = req[u].name
    BY <1>2, <2>1 DEF Claims
  <2> QED BY <1>1, <1>2, <2>2, NoClaimMade
<1>4. CASE InsertUserRow(n, req[t].pass)
  <2>1. n \in Name
    BY DEF InsertUser, At, GrantInv, TypeInv, TypeOK, RequestOK, LabelsOf, Request, Operations
  <2>2. ~NameTaken(n) /\ granted[n] = 0
    BY <1>4, <2>1 DEF InsertUserRow, GrantInv, GrantsTaken
  <2>3. \A u \in Thread : Claims(u) => req[u].name # n
    BY <2>2 DEF GrantInv, ClaimsOpen
  <2>4. NameTaken(n)'
    <3>1. users \in Seq(User) /\ users' = Append(users, [name |-> n, password |-> req[t].pass, sid |-> NoSid])
      BY <1>4 DEF InsertUserRow, GrantInv, TypeInv, TypeOK, DatabaseTypeOK
    <3>2. Len(users) + 1 \in DOMAIN users' /\ users'[Len(users) + 1].name = n
      BY <3>1
    <3> QED BY <1>2, <3>2 DEF NameTaken, Rows
  <2>5. \A u \in Thread \ {t} : Claims(u)' => Claims(u)
    BY <1>2 DEF Claims
  <2>6. ASSUME NEW u \in Thread, Claims(u)'
        PROVE  NameTaken(req[u].name)' /\ granted'[req'[u].name] = 0
    <3>1. CASE u = t
      BY <1>2, <2>2, <2>4, <3>1
    <3>2. CASE u # t
      BY <1>1, <1>2, <2>5, <2>6, <3>2, TakenKept DEF GrantInv, ClaimsOpen
    <3> QED BY <3>1, <3>2
  <2>7. ClaimsOpen'
    BY <1>2, <2>6 DEF ClaimsOpen, NameTaken
  <2>8. ClaimsDisjoint'
    BY <1>2, <2>3, <2>5 DEF GrantInv, ClaimsDisjoint
  <2>9. ASSUME NEW m \in Name PROVE granted'[m] = 0 \/ (granted'[m] = 1 /\ NameTaken(m)')
    BY <1>1, <1>2, TakenKept DEF GrantInv, GrantsTaken
  <2>10. GrantsTaken'
    BY <2>9 DEF GrantsTaken, NameTaken
  <2> QED BY <2>7, <2>8, <2>10
<1>5. InsertUserRow(n, req[t].pass) \/ pc' = [pc EXCEPT ![t] = "insertUser"]
  BY Zenon DEF InsertUser, Goto
<1> QED BY <1>3, <1>4, <1>5

\* The answer of a signup: the claim it ends was the only one.
LEMMA CloseKeepsGrants ==
    ASSUME GrantInv, NEW t \in Thread, Close(t)
    PROVE  ClaimsOpen' /\ ClaimsDisjoint' /\ GrantsTaken'
<1> DEFINE n == req[t].name
<1>1. NamesKept
  BY StepKeepsNames DEF GrantInv, Step
<1>2. /\ \A u \in Thread \ {t} : pc'[u] = pc[u] /\ reply'[u] = reply[u] /\ req'[u] = req[u]
      /\ pc'[t] = "idle"
  BY DEF Close, GrantInv, TypeInv, TypeOK
<1>3. ~Claims(t)' /\ \A u \in Thread : Claims(u)' => u # t /\ Claims(u) /\ req'[u].name = req[u].name
  BY <1>2 DEF Claims
<1>4. CASE ~Claims(t)
  <2>1. granted' = granted
    BY <1>4 DEF Close, At, Claims
  <2> QED BY <1>1, <1>3, <2>1, NoClaimMade
<1>5. CASE Claims(t)
  <2>1. n \in Name /\ req[t].op = "signup" /\ reply[t] = 200
    BY <1>5 DEF Close, At, Claims, GrantInv, TypeInv, RequestOK
  <2>2. granted' = [granted EXCEPT ![n] = 1]
    <3>1. granted[n] = 0
      BY <1>5 DEF GrantInv, ClaimsOpen
    <3>2. granted' = [granted EXCEPT ![n] = granted[n] + 1]
      BY <2>1 DEF Close
    <3> QED BY <3>1, <3>2
  <2>3. ASSUME NEW u \in Thread, Claims(u)'
        PROVE  NameTaken(req[u].name)' /\ granted'[req'[u].name] = 0 /\ req'[u].name = req[u].name
    <3>1. Claims(u) /\ u # t /\ req'[u].name = req[u].name
      BY <1>3, <2>3
    <3>2. req[u].name # n
      BY <1>5, <3>1 DEF GrantInv, ClaimsDisjoint
    <3>3. NameTaken(req[u].name)'
      BY <1>1, <3>1, TakenKept DEF GrantInv, ClaimsOpen
    <3>4. req[u].name \in Name
      BY <3>1 DEF Claims, GrantInv, TypeInv, RequestOK
    <3> QED BY <2>2, <3>1, <3>2, <3>3, <3>4 DEF GrantInv, ClaimsOpen, TypeInv, TypeOK
  <2>4. ClaimsOpen'
    BY <2>3 DEF ClaimsOpen, NameTaken
  <2>5. ClaimsDisjoint'
    BY <1>3 DEF GrantInv, ClaimsDisjoint
  <2>6. ASSUME NEW m \in Name PROVE granted'[m] = 0 \/ (granted'[m] = 1 /\ NameTaken(m)')
    <3>1. CASE m = n
      <4>1. NameTaken(m)
        BY <1>5, <3>1 DEF GrantInv, ClaimsOpen
      <4>2. NameTaken(m)'
        BY <1>1, <4>1, TakenKept
      <4> QED BY <2>1, <2>2, <3>1, <4>2 DEF GrantInv, TypeInv, TypeOK
    <3>2. CASE m # n
      BY <1>1, <2>2, <3>2, TakenKept DEF GrantInv, GrantsTaken, TypeInv, TypeOK
    <3> QED BY <3>1, <3>2
  <2>7. GrantsTaken'
    BY <2>6 DEF GrantsTaken, NameTaken
  <2> QED BY <2>4, <2>5, <2>7
<1> QED BY <1>4, <1>5

-----------------------------------------------------------------------------

LEMMA GrantInit ==
    ASSUME Init
    PROVE  GrantInv
<1>1. \A t \in Thread : ~Claims(t)
  BY DEF Init, Claims
<1> QED
  BY <1>1, InitType DEF Init, GrantInv, ClaimsOpen, ClaimsDisjoint, GrantsTaken

LEMMA GrantNext ==
    ASSUME GrantInv, [Next]_vars
    PROVE  GrantInv'
<1>1. TypeInv'
  BY NextType DEF GrantInv
<1>2. ASSUME NEW t \in Thread, Accept(t)
      PROVE  ClaimsOpen' /\ ClaimsDisjoint' /\ GrantsTaken'
  <2>1. PICK op \in Op : \E r \in Requests(op) :
          req' = [req EXCEPT ![t] = r] /\ pc' = [pc EXCEPT ![t] = FirstLabel(op)]
    BY <1>2, Zenon DEF Accept
  <2>2. FirstLabel(op) \notin {"changes", "replied"}
    BY OpAssumption DEF FirstLabel, Operations
  <2>3. granted' = granted /\ reply' = reply
    BY <1>2 DEF Accept, clients
  <2>4. ~Claims(t)'
    BY <2>1, <2>2 DEF Claims, GrantInv, TypeInv, TypeOK
  <2>5. \A u \in Thread : Claims(u)' => Claims(u) /\ req'[u].name = req[u].name
    BY <2>1, <2>3, <2>4 DEF Claims, GrantInv, TypeInv, TypeOK
  <2>6. NamesKept
    BY <1>2, StepKeepsNames DEF GrantInv
  <2> QED BY <2>3, <2>5, <2>6, NoClaimMade
<1>3. ASSUME NEW t \in Thread, Step(t)
      PROVE  ClaimsOpen' /\ ClaimsDisjoint' /\ GrantsTaken'
  <2>1. CASE InsertUser(t)
    BY <2>1, InsertKeepsGrants
  <2>2. CASE Close(t)
    BY <2>2, CloseKeepsGrants
  <2>3. CASE ~InsertUser(t) /\ ~Close(t)
    <3>1. /\ \A u \in Thread \ {t} : pc'[u] = pc[u] /\ reply'[u] = reply[u]
          /\ req' = req /\ granted' = granted
      BY <1>3, <2>3, OthersStay DEF GrantInv
    <3>2. Claims(t)' => Claims(t)
      <4>1. CASE req[t].op # "signup"
        BY <3>1, <4>1 DEF Claims
      <4>2. CASE CheckNameFree(t)
        <5>1. pc'[t] = "insertUser" \/ reply'[t] = 403
          BY <4>2 DEF CheckNameFree, Goto, Answer, GrantInv, TypeInv, TypeOK
        <5>2. pc'[t] # "changes"
          BY <4>2 DEF CheckNameFree, Goto, Answer, GrantInv, TypeInv, TypeOK
        <5> QED BY <5>1, <5>2 DEF Claims
      <4>3. CASE ReadChanges(t)
        BY <3>1, <4>3 DEF ReadChanges, At, Claims
      <4> QED BY <1>3, <2>3, <4>1, <4>2, <4>3, SignupSteps DEF GrantInv
    <3>3. \A u \in Thread : Claims(u)' => Claims(u) /\ req'[u].name = req[u].name
      BY <3>1, <3>2 DEF Claims
    <3>4. NamesKept
      BY <1>3, StepKeepsNames DEF GrantInv
    <3> QED BY <3>1, <3>3, <3>4, NoClaimMade
  <2> QED BY <2>1, <2>2, <2>3
<1>4. ASSUME Restart \/ (\E s : Timeout(s)) \/ UNCHANGED vars
      PROVE  ClaimsOpen' /\ ClaimsDisjoint' /\ GrantsTaken'
  <2>1. granted' = granted
    BY <1>4, Zenon DEF Restart, Timeout, vars, clients
  <2>2. \A u \in Thread : Claims(u)' => Claims(u) /\ req'[u].name = req[u].name
    <3>1. \/ pc' = [t \in Thread |-> "idle"]
          \/ pc' = pc /\ req' = req /\ reply' = reply
      BY <1>4, Zenon DEF Restart, Timeout, vars, threads
    <3> QED BY <3>1 DEF Claims
  <2>3. NamesKept
    <3>1. CASE Restart
      <4>1. \A i \in Rows : users[i] \in User
        BY RowsType DEF GrantInv, TypeInv, TypeOK, DatabaseTypeOK
      <4> QED BY <3>1, <4>1 DEF Restart, NamesKept, Rows, User
    <3>2. CASE users' = users
      BY <3>2, StatementsKeepNames DEF GrantInv, TypeInv, TypeOK
    <3> QED BY <1>4, <3>1, <3>2, Zenon DEF Timeout, vars, database
  <2> QED BY <2>1, <2>2, <2>3, NoClaimMade
<1>5. \/ \E t \in Thread : Accept(t) \/ Step(t)
      \/ Restart \/ (\E s : Timeout(s)) \/ UNCHANGED vars
  BY Zenon DEF Next
<1> QED BY <1>1, <1>2, <1>3, <1>4, <1>5 DEF GrantInv

\* At most one client is ever told that signup made a name its own, however
\* many sign up for it at a time.
THEOREM OneGrantPerNameCorrect == Safety => []OneGrantPerName
<1>1. Init => GrantInv
  BY GrantInit
<1>2. GrantInv /\ [Next]_vars => GrantInv'
  BY GrantNext
<1>3. GrantInv => OneGrantPerName
  BY DEF GrantInv, GrantsTaken, OneGrantPerName
<1> QED BY <1>1, <1>2, <1>3, PTL DEF Safety
=============================================================================
