------------------------- MODULE HandlerProperties -------------------------
(***************************************************************************)
(* What the handlers of src/plugin.cpp should do whatever their threads'   *)
(* interleaving, and what only a server with one thread does.              *)
(***************************************************************************)
EXTENDS Handlers

Replied(t, op, status) == pc[t] = "replied" /\ req[t].op = op /\ reply[t] = status

-----------------------------------------------------------------------------
(* Invariants and action properties of the threaded server.                *)

\* voteComment's list of a comment's voters never names one voter twice, though
\* two handlers may edit copies of it and write them over each other.
NoDuplicateVotes == \A c \in DOMAIN comments : NoRepeat(comments[c].votes)

\* At most one client is ever told that signup made a name its own, though the
\* check and the insert are two statements and the number of changed rows a
\* handler reads may be another handler's.
OneGrantPerName == \A n \in Name : granted[n] <= 1

\* When signout answers, its sid is in no row, and no sign-in that was under way
\* puts it back.
SignoutEndsSession ==
    \A t \in Thread : Replied(t, "signout", 200) => req[t].sid = NoSid \/ ~Live(req[t].sid)

\* A comment is posted under a name that some account matches: postComment never
\* gets past its two checks with a name or a session nobody has.
AuthorsRegistered == \A c \in DOMAIN comments : NameLike(comments[c].author) # {}

\* A session belongs to the account it was made for: a row holds only sids made
\* by a sign-in with a name that matches the row's.
SessionsBelongToAccount ==
    \A i \in Rows : users[i].sid # NoSid => i \in NameLike(users[i].sid.owner)

\* The phase, in the sense of SessionLife, of the k-th session key made; 0 stands
\* for the sessions the file held when the server was started.
LiveKey(k) == \E i \in Rows : users[i].sid # NoSid /\ users[i].sid.nr = k

PhaseOf(k) == IF LiveKey(k) THEN "live" ELSE IF k > keys THEN "new" ELSE "dead"

Life == INSTANCE SessionLife WITH Session <- 0 .. MaxKeys,
                                  phase <- [k \in 0 .. MaxKeys |-> PhaseOf(k)]

\* The sessions of the handlers implement the specification of a session's life:
\* createSession, isSessionValid, signout and a restart, however interleaved,
\* never put a dropped session back.
SessionLife == Life!Spec

-----------------------------------------------------------------------------
(* Properties of a server whose handlers run one at a time.                *)

\* A write of a comment's votes adds or removes the writer's vote and leaves the
\* votes of everybody else: voteComment's copy is not stale when it is written.
VotesOfOthersKept ==
    [][\A t \in Thread, c \in DOMAIN comments :
        WriteVotes(t) /\ c = req[t].id =>
            ToSet(comments'[c].votes) \ {local[t].uid} = ToSet(comments[c].votes) \ {local[t].uid}]_vars

\* A password is changed only by a request that sends the password the account
\* has at that moment, not by one whose password was right when it was checked.
CurrentPasswordChangesPassword ==
    [][\A i \in Rows : users'[i].password # users[i].password =>
        \E t \in Thread : UpdateUser(t) /\ req[t].name = users[i].name
                                        /\ req[t].pass = users[i].password]_vars

\* A request that was carried out is not answered with a failure: the number of
\* changed rows the handler reads is that of its own statement.
SuccessIsReported ==
    \A t \in Thread :
        /\ \A op \in {"signup", "post", "vote"} : ~Replied(t, op, 500)
        /\ Replied(t, "signin", 403) => ~isUserValid(req[t].name, req[t].pass)

\* The sid a sign-in answers with is the session of the account it names when
\* the answer is sent: no other sign-in or timeout replaced it meanwhile.
SigninAnswersLiveSession ==
    \A t \in Thread : Replied(t, "signin", 200) =>
        /\ local[t].sid # NoSid
        /\ \E i \in NameLike(req[t].name) : users[i].sid = local[t].sid

\* The credentials of an account are valid: its name and password sign it in.
CredentialsAccepted == \A i \in Rows : isUserValid(users[i].name, users[i].password)

\* isSessionValid, "session timed out": the sessions it drops have timed out.
OnlyTimedOutSessionsExpire ==
    [][\A t \in Thread : ExpireSession(t) =>
        \A i \in Rows : users'[i].sid # users[i].sid => users[i].sid \in expired]_vars

-----------------------------------------------------------------------------
(* What the documents promise and the code does not keep.                  *)

\* README: a vote upvotes the comment for the user whose credentials were sent;
\* the id that voteComment writes is that user's.
VoteCountsForVoter ==
    [][\A t \in Thread : WriteVotes(t) =>
        \/ local[t].uid \in NameLike(req[t].name)
        \/ req[t].sid # NoSid /\ local[t].uid \in WithSid(req[t].sid)]_vars

-----------------------------------------------------------------------------
(* Liveness.                                                               *)

\* A request of one of these kinds that has arrived is answered in the end.
Answered(ops) == \A t \in Thread : (pc[t] # "idle" /\ req[t].op \in ops) ~> pc[t] = "idle"

\* Every request but those of the handlers that may repeat a statement for ever
\* (signup, postComment, changeUserData) is answered and its thread ends, however
\* often sessions time out, are dropped or replaced on its way.
RequestsAnswered == Answered({"signin", "checksid", "signout", "vote", "checkuser"})

\* README gives signup the status codes 200, 403 and 500: every signup is
\* answered with one.
SignupAnswered == Answered({"signup"})
=============================================================================
