---------------------------- MODULE SessionClock ----------------------------
(***************************************************************************)
(* The time of sessions (src/plugin.cpp): createSession stores the clock   *)
(* and the timeout a client asks for as texts, isSessionValid reads them   *)
(* back with atoi and adds them as ints.  clock() is the processor time of *)
(* the process and starts from 0 with it.                                  *)
(*                                                                         *)
(* Here every request runs alone; what others do between its statements is *)
(* the matter of Handlers, whose Timeout(s) stands for all of this.  An    *)
(* int has the values from -Half to Half - 1; the program's numbers are    *)
(* Half = 2^31, PerSecond = 1000000 and Default = 86400.                   *)
(***************************************************************************)
EXTENDS Integers

CONSTANTS
    Account,       \* the accounts that sign in
    Survivor,      \* 'test', whose session initPlugin keeps
    Half,          \* half the number of values of an int
    PerSecond,     \* CLOCKS_PER_SEC
    Default,       \* the timeout of a sign-in that asks for none, in seconds
    Asked,         \* the timeouts clients ask for, in seconds
    SeedStart,     \* the clock in the session init.sql stores
    NoSession,     \* the empty text
    MaxClock,      \* bound: the processor time one process uses
    MaxUsed        \* bound: the processor time used while one session is stored

VARIABLES
    clock,         \* clock()
    session        \* the session text of each account

vars == <<clock, session>>

ASSUME AccountAssumption == Survivor \in Account

ASSUME WidthAssumption == Half \in Nat \ {0} /\ PerSecond \in Nat \ {0} /\ SeedStart \in Nat

ASSUME AskedAssumption == Asked \subseteq (-Half) .. (Half - 1) /\ Default \in Asked

ASSUME NoSessionAssumption == NoSession \notin [start : Nat, timeout : Int, asked : Int, used : Nat]

\* start and timeout are the numbers as they are printed: long, not yet int.
\* asked and used are history: the seconds the client asked for, and the
\* processor time used since the session was made.
Session == [start : Nat, timeout : Int, asked : Int, used : Nat]

TypeOK ==
    /\ clock \in Nat
    /\ session \in [Account -> Session \cup {NoSession}]

-----------------------------------------------------------------------------
(* The numbers.                                                            *)

\* The int atoi reads from a printed long: its low bits, with a sign.
atoi(n) == ((n + Half) % (2 * Half)) - Half

\* start + timeout.  An overflow is undefined: the sum may come out wrapped, or
\* exact where the compiler widens it before it is compared with a long.
Sums(s) == LET sum == atoi(s.start) + atoi(s.timeout) IN {sum, atoi(sum)}

\* A mutated form of TimedOut: the clock is stored in an int first.
TimedOutInt(s, sum) == sum < atoi(clock) /\ atoi(s.timeout) > 0

\* isSessionValid, "session timed out".
TimedOut(s, sum) == sum < clock /\ atoi(s.timeout) > 0

MayTimeOut(s) == \E sum \in Sums(s) : TimedOut(s, sum)

MayStay(s) == \E sum \in Sums(s) : ~TimedOut(s, sum)

-----------------------------------------------------------------------------
(* The requests.                                                           *)

\* init.sql stores a session of 'test' with timeout 0.
Init ==
    /\ clock = 0
    /\ session = [a \in Account |->
        IF a = Survivor THEN [start |-> SeedStart, timeout |-> 0, asked |-> 0, used |-> 0]
        ELSE NoSession]

\* Mutated forms of FreshSession: the timeout is stored in seconds; the two
\* numbers are stored in the other order.
SessionInSeconds(asked) == [start |-> clock, timeout |-> asked, asked |-> asked, used |-> 0]

SessionSwapped(asked) ==
    [start |-> asked * PerSecond, timeout |-> clock, asked |-> asked, used |-> 0]

FreshSession(asked) ==
    [start |-> clock, timeout |-> asked * PerSecond, asked |-> asked, used |-> 0]

\* createSession: a session that has not timed out is used again, whatever
\* timeout it was asked for with.
SignIn(a, asked) ==
    /\ \/ session[a] # NoSession /\ MayStay(session[a]) /\ UNCHANGED session
       \/ /\ session[a] # NoSession => MayTimeOut(session[a])
          /\ session' = [session EXCEPT ![a] = FreshSession(asked)]
    /\ UNCHANGED clock

\* isSessionValid, called by checksid, postComment and voteComment, drops a
\* session that timed out.
CheckSid(a) ==
    /\ session[a] # NoSession
    /\ \/ MayStay(session[a]) /\ UNCHANGED session
       \/ MayTimeOut(session[a]) /\ session' = [session EXCEPT ![a] = NoSession]
    /\ UNCHANGED clock

SignOut(a) ==
    /\ session[a] # NoSession
    /\ session' = [session EXCEPT ![a] = NoSession]
    /\ UNCHANGED clock

\* The process uses one more tick of processor time.
Tick ==
    /\ clock < MaxClock
    /\ \A a \in Account : session[a] # NoSession => session[a].used < MaxUsed
    /\ clock' = clock + 1
    /\ session' = [a \in Account |->
        IF session[a] = NoSession THEN NoSession ELSE [session[a] EXCEPT !.used = @ + 1]]

\* The process ends and a new one starts: initPlugin drops every session but
\* that of the survivor, whose text stays as it is.
Restart ==
    /\ clock' = 0
    /\ session' = [a \in Account |-> IF a = Survivor THEN session[a] ELSE NoSession]

Next ==
    \/ \E a \in Account : CheckSid(a) \/ SignOut(a) \/ \E asked \in Asked : SignIn(a, asked)
    \/ Tick
    \/ Restart

Spec == Init /\ [][Next]_vars

-----------------------------------------------------------------------------
(* Properties.                                                             *)

\* A session whose numbers are small enough to be read back and added: the
\* process was young when it was made, and its timeout is neither 0 nor too long.
Fits(s) == s.asked > 0 /\ s.start + s.asked * PerSecond < Half

\* isSessionValid never drops a session that fits before the processor time the
\* client asked for has been used, also if the server was restarted meanwhile.
NeverEarly ==
    \A a \in Account : session[a] # NoSession /\ Fits(session[a]) =>
        (MayTimeOut(session[a]) => session[a].used > session[a].asked * PerSecond)

Over(a) == session[a] # NoSession /\ ~MayStay(session[a])

\* A session that is over stays so while the process runs, however far the clock
\* gets: only a restart, and only for the survivor, makes one valid again.
OverStaysOver ==
    [][\A a \in Account : Over(a) /\ session'[a] # NoSession /\ session'[a].start = session[a].start =>
        \/ Over(a)'
        \/ session'[a].used = 0
        \/ a = Survivor /\ clock' = 0]_vars

\* README of signin: a session "is valid 24 hours".  None that was asked for with
\* the default timeout is dropped before that much processor time was used.
ValidForADay ==
    \A a \in Account : session[a] # NoSession /\ session[a].asked = Default =>
        (MayTimeOut(session[a]) => session[a].used >= Default * PerSecond)
=============================================================================
