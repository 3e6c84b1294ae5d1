------------------------- MODULE SessionClockProofs -------------------------
(***************************************************************************)
(* What SessionClock guarantees for ints of every width: no session that   *)
(* fits an int is dropped early, and one that is over stays over until a   *)
(* restart.  And what it comes to with the program's numbers: a day is 500 *)
(* seconds of processor time, and past 2^31 ticks no new session is valid. *)
(***************************************************************************)
EXTENDS SessionClock, TLAPS

-----------------------------------------------------------------------------
(* atoi.                                                                   *)

LEMMA ProductSign ==
    ASSUME NEW m \in Nat, NEW q \in Int
    PROVE  m * q \in Int /\ (q >= 0 => m * q >= 0) /\ (q <= 0 => m * q <= 0)
  OBVIOUS

LEMMA ModFacts ==
    ASSUME NEW n \in Int, NEW m \in Nat \ {0}
    PROVE  /\ n % m \in 0 .. m - 1
           /\ n \div m \in Int
           /\ n = m * (n \div m) + (n % m)
           /\ 0 <= n /\ n < m => n % m = n
  OBVIOUS

\* atoi returns an int, and the number itself if it is one.
LEMMA AtoiFacts ==
    ASSUME NEW n \in Int
    PROVE  /\ atoi(n) \in (-Half) .. (Half - 1)
           /\ n \in (-Half) .. (Half - 1) => atoi(n) = n
  <1>1. 2 * Half \in Nat \ {0} /\ n + Half \in Int
    BY WidthAssumption
  <1> DEFINE r == (n + Half) % (2 * Half)
  <1>2. /\ r \in 0 .. 2 * Half - 1
        /\ 0 <= n + Half /\ n + Half < 2 * Half => r = n + Half
    BY <1>1, ModFacts
  <1>3. atoi(n) = r - Half
    BY DEF atoi
  <1> HIDE DEF r
  <1> QED
    BY <1>2, <1>3, WidthAssumption

\* What does not fit comes out too small by at least all the values of an int.
LEMMA AtoiLoses ==
    ASSUME NEW n \in Int, n >= Half
    PROVE  atoi(n) <= n - 2 * Half
  <1> DEFINE m == 2 * Half
             q == (n + Half) \div m
  <1>1. m \in Nat \ {0} /\ n + Half \in Int
    BY WidthAssumption
  <1>2. /\ q \in Int
        /\ n + Half = m * q + ((n + Half) % m)
        /\ (n + Half) % m \in 0 .. m - 1
    BY <1>1, ModFacts
  <1>3. q >= 1
    <2> SUFFICES ASSUME q <= 0 PROVE FALSE
      BY <1>2
    <2>1. m * q <= 0
      BY <1>1, <1>2, ProductSign
    <2> QED
      BY <2>1, <1>2, WidthAssumption
  <1>4. m * q >= m
    <2>1. m * (q - 1) >= 0
      <3>1. m \in Nat /\ q - 1 \in Int /\ q - 1 >= 0
        BY <1>1, <1>2, <1>3
      <3> HIDE DEF m, q
      <3> QED
        BY <3>1, ProductSign
    <2>2. m * q = m * (q - 1) + m
      BY <1>1, <1>2
    <2> QED
      BY <2>1, <2>2, <1>1, <1>2, ProductSign
  <1> QED
    BY <1>2, <1>4, WidthAssumption DEF atoi

-----------------------------------------------------------------------------
(* The invariant.                                                          *)

\* clock() is not ahead of a session by more than was used since it was made;
\* behind it may be, after a restart.
ClockOK == \A a \in Account : session[a] # NoSession =>
    /\ session[a].timeout = session[a].asked * PerSecond
    /\ clock <= session[a].start + session[a].used

Inv == TypeOK /\ ClockOK

LEMMA FreshType ==
    ASSUME TypeOK, NEW asked \in Asked
    PROVE  /\ FreshSession(asked) \in Session
           /\ FreshSession(asked).timeout = FreshSession(asked).asked * PerSecond
           /\ clock <= FreshSession(asked).start + FreshSession(asked).used
  <1>1. asked \in Int /\ asked * PerSecond \in Int
    BY AskedAssumption, WidthAssumption
  <1> QED
    BY <1>1 DEF TypeOK, FreshSession, Session

LEMMA InitInv == Init => Inv
  BY AccountAssumption, WidthAssumption, NoSessionAssumption
  DEF Init, Inv, TypeOK, ClockOK, Session

\* A step that only drops sessions, or sets the clock back with them.
LEMMA DropInv ==
    ASSUME Inv, clock' \in Nat, clock' <= clock,
           session' \in [Account -> Session \cup {NoSession}],
           \A a \in Account : session'[a] \in {session[a], NoSession}
    PROVE  Inv'
  <1>1. TypeOK'
    BY DEF TypeOK
  <1>2. ASSUME NEW a \in Account, session'[a] # NoSession
        PROVE  /\ session'[a].timeout = session'[a].asked * PerSecond
               /\ clock' <= session'[a].start + session'[a].used
    <2>1. session'[a] = session[a] /\ session[a] \in Session
      BY <1>2 DEF Inv, TypeOK
    <2> QED
      BY <2>1, <1>2 DEF Inv, TypeOK, ClockOK, Session
  <1> QED
    BY <1>1, <1>2 DEF Inv, ClockOK

LEMMA StepInv == Inv /\ [Next]_vars => Inv'
  <1> SUFFICES ASSUME Inv, [Next]_vars PROVE Inv'
    OBVIOUS
  <1>1. ASSUME NEW a \in Account, CheckSid(a) \/ SignOut(a) PROVE Inv'
    BY <1>1, DropInv DEF CheckSid, SignOut, Inv, TypeOK
  <1>2. ASSUME NEW a \in Account, NEW asked \in Asked, SignIn(a, asked) PROVE Inv'
    <2>1. CASE UNCHANGED session
      BY <2>1, <1>2, DropInv DEF SignIn, Inv, TypeOK
    <2>2. CASE session' = [session EXCEPT ![a] = FreshSession(asked)]
      BY <2>2, <1>2, FreshType DEF SignIn, Inv, TypeOK, ClockOK
    <2> QED
      BY <1>2, <2>1, <2>2 DEF SignIn
  <1>3. CASE Tick
    <2>1. \A b \in Account : session[b] # NoSession =>
              /\ session[b] \in Session
              /\ session'[b] = [session[b] EXCEPT !.used = @ + 1]
              /\ session'[b] \in Session
      BY <1>3 DEF Tick, Inv, TypeOK, Session
    <2>2. TypeOK'
      BY <1>3, <2>1 DEF Tick, Inv, TypeOK
    <2>3. ClockOK'
      BY <1>3, <2>1 DEF Tick, Inv, TypeOK, ClockOK, Session
    <2> QED
      BY <2>2, <2>3 DEF Inv
  <1>4. CASE Restart
    BY <1>4, DropInv DEF Restart, Inv, TypeOK
  <1>5. CASE UNCHANGED vars
    BY <1>5, DropInv DEF vars, Inv, TypeOK
  <1> QED
    BY <1>1, <1>2, <1>3, <1>4, <1>5 DEF Next

THEOREM InvCorrect == Spec => []Inv
  BY InitInv, StepInv, PTL DEF Spec

-----------------------------------------------------------------------------
(* The properties.                                                         *)

\* The clock and the sessions keep their types, for every width.
THEOREM TypeCorrect == Spec => []TypeOK
  <1>1. Inv => TypeOK
    BY DEF Inv
  <1> QED
    BY <1>1, InvCorrect, PTL

\* No session that fits an int is dropped before its time, for every width,
\* clock rate and set of timeouts, and however often the server is restarted.
THEOREM NeverEarlyCorrect == Spec => []NeverEarly
  <1>1. Inv => NeverEarly
    <2> SUFFICES ASSUME Inv, NEW a \in Account, session[a] # NoSession,
                        Fits(session[a]), MayTimeOut(session[a])
                 PROVE  session[a].used > session[a].asked * PerSecond
      BY DEF NeverEarly
    <2> DEFINE s == session[a]
    <2>1. /\ s \in Session
          /\ s.timeout = s.asked * PerSecond
          /\ clock <= s.start + s.used
      BY DEF Inv, TypeOK, ClockOK
    <2>2. s.timeout \in Int /\ s.timeout > 0
      BY <2>1, WidthAssumption DEF Fits, Session
    <2>3. /\ s.start \in (-Half) .. (Half - 1)
          /\ s.timeout \in (-Half) .. (Half - 1)
          /\ s.start + s.timeout \in (-Half) .. (Half - 1)
      BY <2>1, <2>2, WidthAssumption DEF Fits, Session
    <2>4. Sums(s) = {s.start + s.timeout}
      BY <2>1, <2>3, AtoiFacts DEF Sums, Session
    <2>5. s.start + s.timeout < clock
      BY <2>4 DEF MayTimeOut, TimedOut
    <2> QED
      BY <2>1, <2>2, <2>5 DEF Session, Inv, TypeOK
  <1> QED
    BY <1>1, InvCorrect, PTL

\* Once over, a session stays over while its process runs.
LEMMA OverStep == Inv /\ Inv' /\ [Next]_vars =>
    \A a \in Account : Over(a) /\ session'[a] # NoSession /\ session'[a].start = session[a].start =>
        \/ Over(a)'
        \/ session'[a].used = 0
        \/ a = Survivor /\ clock' = 0
  <1> SUFFICES ASSUME Inv, Inv', [Next]_vars, NEW a \in Account, Over(a),
                      session'[a] # NoSession
               PROVE  Over(a)' \/ session'[a].used = 0 \/ (a = Survivor /\ clock' = 0)
    OBVIOUS
  <1>1. session[a] \in Session /\ session[a] # NoSession /\ clock \in Nat /\ clock' \in Nat
    BY DEF Inv, TypeOK, Over
  <1>2. ASSUME session'[a] = session[a], clock' = clock PROVE Over(a)'
    BY <1>2 DEF Over, MayStay, Sums, TimedOut
  <1>3. ASSUME NEW b \in Account, CheckSid(b) \/ SignOut(b) PROVE Over(a)'
    BY <1>1, <1>2, <1>3 DEF CheckSid, SignOut, Inv, TypeOK
  <1>4. ASSUME NEW b \in Account, NEW asked \in Asked, SignIn(b, asked)
        PROVE  Over(a)' \/ session'[a].used = 0
    BY <1>1, <1>2, <1>4 DEF SignIn, FreshSession, Inv, TypeOK
  <1>5. CASE Tick
    <2>1. /\ session'[a].start = session[a].start
          /\ session'[a].timeout = session[a].timeout
          /\ clock' = clock + 1
      BY <1>1, <1>5 DEF Tick, Session
    <2>2. Sums(session'[a]) = Sums(session[a]) /\ Sums(session[a]) \subseteq Int
      BY <1>1, <2>1, AtoiFacts DEF Sums, Session
    <2>3. \A sum \in Sums(session[a]) : sum < clock /\ atoi(session[a].timeout) > 0
      BY DEF Over, MayStay, TimedOut
    <2>4. \A sum \in Sums(session[a]) : sum < clock + 1 /\ atoi(session[a].timeout) > 0
      BY <2>2, <2>3, <1>1
    <2> QED
      BY <2>1, <2>2, <2>4 DEF Over, MayStay, TimedOut
  <1>6. CASE Restart
    BY <1>6 DEF Restart, Inv, TypeOK
  <1>7. CASE UNCHANGED vars
    BY <1>2, <1>7 DEF vars
  <1> QED
    BY <1>3, <1>4, <1>5, <1>6, <1>7 DEF Next

\* The clock's width does not bring a session back: only a restart does.
THEOREM OverStaysOverCorrect == Spec => OverStaysOver
  <1>1. Inv /\ Inv' /\ [Next]_vars =>
            [\A a \in Account :
                Over(a) /\ session'[a] # NoSession /\ session'[a].start = session[a].start =>
                    \/ Over(a)'
                    \/ session'[a].used = 0
                    \/ a = Survivor /\ clock' = 0]_vars
    BY OverStep
  <1> QED
    BY <1>1, InvCorrect, PTL DEF Spec, OverStaysOver

-----------------------------------------------------------------------------
(* The program's numbers.                                                  *)

\* createSession's timeout of a day, 86400 s, is read back by isSessionValid as
\* 500.654080 s of processor time.
THEOREM DayIsEightMinutes ==
    ASSUME Half = 2147483648, PerSecond = 1000000
    PROVE  atoi(86400 * PerSecond) = 500654080
  <1>1. 86400 * PerSecond + Half = 88547483648 /\ 2 * Half = 4294967296
    OBVIOUS
  <1>2. 88547483648 % 4294967296 = 2648137728
    OBVIOUS
  <1> QED
    BY <1>1, <1>2 DEF atoi

\* Once a process has used Half ticks, about 36 minutes, every session it makes
\* whose timeout is read as positive is found timed out by the next check,
\* whichever way the overflow comes out.
THEOREM NothingLastsPastHalf ==
    ASSUME NEW s \in Session, TypeOK, s.start >= Half, s.start <= clock, atoi(s.timeout) > 0
    PROVE  ~MayStay(s)
  <1> DEFINE sum == atoi(s.start) + atoi(s.timeout)
  <1>1. s.start \in Int /\ s.timeout \in Int /\ clock \in Nat
    BY DEF Session, TypeOK
  <1>2. /\ atoi(s.start) <= s.start - 2 * Half
        /\ atoi(s.start) \in Int
        /\ atoi(s.timeout) \in Int /\ atoi(s.timeout) <= Half - 1
        /\ atoi(s.start) >= -Half
    BY <1>1, AtoiLoses, AtoiFacts, WidthAssumption
  <1>3. sum \in Int /\ sum < clock
    BY <1>1, <1>2, WidthAssumption
  <1>4. atoi(sum) < clock
    <2>1. CASE sum >= Half
      BY <2>1, <1>1, <1>3, AtoiLoses, AtoiFacts, WidthAssumption
    <2>2. CASE sum < Half
      <3>1. sum \in (-Half) .. (Half - 1)
        BY <2>2, <1>2, <1>3, WidthAssumption
      <3> QED
        BY <3>1, <1>3, AtoiFacts
    <2> QED
      BY <2>1, <2>2, <1>3, WidthAssumption
  <1> QED
    BY <1>3, <1>4 DEF MayStay, Sums, TimedOut
=============================================================================
