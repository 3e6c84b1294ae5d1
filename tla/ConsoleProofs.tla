---------------------------- MODULE ConsoleProofs ----------------------------
(***************************************************************************)
(* What clients of the script console are answered, for every set of       *)
(* requests and any number of threads, and what the requests' texts come   *)
(* to on the way.                                                          *)
(***************************************************************************)
EXTENDS Console, TLAPS, SequenceTheorems, WellFoundedInduction

-----------------------------------------------------------------------------
(* Induction.                                                              *)

\* Every set of naturals has a least element.
LEMMA Least ==
    ASSUME NEW S \in SUBSET Nat, S # {}
    PROVE  \E m \in S : \A k \in S : m <= k
<1> DEFINE R == {ss \in Nat \X Nat : ss[1] < ss[2]}
<1>1. IsWellFoundedOn(R, Nat)
  BY NatLessThanWellFounded, Zenon DEF OpToRel
<1> HIDE DEF R
<1>2. PICK x \in S : \A y \in S : ~ (<<y, x>> \in R)
  BY <1>1, WFMin
<1>3. \A y \in S : ~(y < x)
  BY <1>2 DEF R
<1> QED BY <1>3

LEMMA Induct ==
    ASSUME NEW S \in SUBSET Nat, 0 \in S, \A n \in S : n + 1 \in S
    PROVE  S = Nat
<1>1. SUFFICES ASSUME Nat \ S # {} PROVE FALSE
  OBVIOUS
<1>2. PICK m \in Nat \ S : \A k \in Nat \ S : m <= k
  BY <1>1, Least
<1>3. m # 0 /\ m - 1 \in S
  BY <1>2
<1> QED BY <1>2, <1>3

\* A bounded set of naturals has a greatest one.
LEMMA Greatest ==
    ASSUME NEW S \in SUBSET Nat, S # {}, NEW N \in Nat, \A k \in S : k <= N
    PROVE  Max(S) \in S /\ \A k \in S : Max(S) >= k
<1> DEFINE T == {N - k : k \in S}
<1>1. T \in SUBSET Nat /\ T # {}
  <2>1. \A k \in S : k \in Nat /\ N - k \in Nat
    OBVIOUS
  <2>2. PICK k \in S : TRUE
    OBVIOUS
  <2>3. N - k \in T
    BY <2>2
  <2> QED BY <2>1, <2>3
<1>2. PICK d \in T : \A e \in T : d <= e
  BY <1>1, Least
<1>3. \E x \in S : \A y \in S : x >= y
  <2>1. PICK x \in S : d = N - x
    BY <1>2
  <2> QED BY <1>2, <2>1
<1> QED BY <1>3 DEF Max

\* A sequence of values of D that begins with base and goes on as step says.
Steps(f, N, base, step) ==
    f = [n \in 0 .. N |-> IF n = 0 THEN base ELSE step[<<n, f[n - 1]>>]]

\* There is one, of any length.
LEMMA StepsExist ==
    ASSUME NEW N \in Nat, NEW base, NEW step
    PROVE  \E f : Steps(f, N, base, step)
<1> DEFINE S == {m \in Nat : \E f : Steps(f, m, base, step)}
<1>1. 0 \in S
  <2>1. PICK f : f = [i \in 0 .. 0 |-> base]
    OBVIOUS
  <2>2. Steps(f, 0, base, step)
    BY <2>1 DEF Steps
  <2> QED BY <2>2
<1>2. ASSUME NEW m \in S
      PROVE  m + 1 \in S
  <2>1. PICK f : Steps(f, m, base, step)
    OBVIOUS
  <2>2. PICK g : g = [i \in 0 .. m + 1 |-> IF i = m + 1 THEN step[<<m + 1, f[m]>>] ELSE f[i]]
    OBVIOUS
  <2>3. ASSUME NEW i \in 0 .. m + 1
        PROVE  g[i] = IF i = 0 THEN base ELSE step[<<i, g[i - 1]>>]
    <3>1. CASE i = 0
      BY <2>1, <2>2, <3>1 DEF Steps
    <3>2. CASE i # 0 /\ i # m + 1
      <4>1. i \in 0 .. m /\ i - 1 \in 0 .. m
        BY <3>2
      <4>2. f[i] = step[<<i, f[i - 1]>>]
        BY <2>1, <3>2, <4>1 DEF Steps
      <4>3. g[i] = f[i] /\ g[i - 1] = f[i - 1]
        BY <2>2, <4>1
      <4> QED BY <3>2, <4>2, <4>3
    <3>3. CASE i = m + 1
      <4>1. g[i] = step[<<m + 1, f[m]>>] /\ i # 0
        BY <2>2, <3>3
      <4>2. g[i - 1] = f[m] /\ i = m + 1
        BY <2>2, <3>3
      <4> QED BY <4>1, <4>2
    <3> QED BY <3>1, <3>2, <3>3
  <2>4. g = [i \in 0 .. m + 1 |-> g[i]]
    BY <2>2
  <2>5. Steps(g, m + 1, base, step)
    BY <2>3, <2>4 DEF Steps
  <2> QED BY <2>5
<1>3. S = Nat
  <2>1. S \in SUBSET Nat
    OBVIOUS
  <2> HIDE DEF S
  <2> QED BY <1>1, <1>2, <2>1, Induct
<1> QED BY <1>3

\* All its values are of D.
LEMMA StepsValues ==
    ASSUME NEW N \in Nat, NEW D, NEW base \in D, NEW step \in [(1 .. N) \X D -> D],
           NEW f, Steps(f, N, base, step)
    PROVE  \A n \in 0 .. N : f[n] \in D
<1> DEFINE S == {m \in Nat : m <= N => f[m] \in D}
<1>1. 0 \in S
  BY DEF Steps
<1>2. ASSUME NEW m \in S
      PROVE  m + 1 \in S
  <2>1. SUFFICES ASSUME m + 1 <= N PROVE f[m + 1] \in D
    OBVIOUS
  <2>2. f[m + 1] = step[<<m + 1, f[m]>>] /\ m + 1 \in 1 .. N /\ f[m] \in D
    BY <2>1 DEF Steps
  <2> QED BY <2>2
<1>3. S = Nat
  <2>1. S \in SUBSET Nat
    OBVIOUS
  <2> HIDE DEF S
  <2> QED BY <1>1, <1>2, <2>1, Induct
<1>4. \A n \in 0 .. N : n \in S
  BY <1>3
<1> QED BY <1>4

-----------------------------------------------------------------------------
(* The texts of requests.                                                  *)

LEMMA FindFinds ==
    ASSUME NEW S, NEW s \in Seq(S), NEW c
    PROVE  /\ Find(s, c) \in 1 .. Len(s) + 1
           /\ Find(s, c) <= Len(s) => s[Find(s, c)] = c
           /\ \A i \in 1 .. Find(s, c) - 1 : s[i] # c
<1> DEFINE T == {i \in 1 .. Len(s) + 1 : i <= Len(s) => s[i] = c}
<1>1. T \in SUBSET Nat /\ Len(s) + 1 \in T
  OBVIOUS
<1>2. PICK m \in T : \A i \in T : m <= i
  BY <1>1, Least
<1>3. \A j \in 1 .. m - 1 : s[j] # c
  BY <1>2
<1> QED BY <1>2, <1>3 DEF Find

LEMMA PartsOfText ==
    ASSUME NEW S, NEW s \in Seq(S), NEW c
    PROVE  /\ Before(s, c) \in Seq(S) /\ After(s, c) \in Seq(S)
           /\ \A i \in DOMAIN Before(s, c) : Before(s, c)[i] # c
<1>1. PICK k : k = Find(s, c)
  OBVIOUS
<1>2. k \in 1 .. Len(s) + 1 /\ \A i \in 1 .. k - 1 : s[i] # c
  BY <1>1, FindFinds
<1>3. SubSeq(s, 1, k - 1) \in Seq(S) /\ SubSeq(s, k + 1, Len(s)) \in Seq(S)
  BY <1>2
<1>4. \A i \in DOMAIN SubSeq(s, 1, k - 1) : i \in 1 .. k - 1 /\ SubSeq(s, 1, k - 1)[i] = s[i]
  BY <1>2
<1> QED BY <1>1, <1>2, <1>3, <1>4 DEF Before, After

\* decodeUrl leaves no escape and adds nothing but what escapes mean.
LEMMA DecodedTokens ==
    ASSUME NEW S, NEW s \in Seq(S)
    PROVE  decodeUrl(s) \in Seq((S \ Escape) \cup {"?", "&", "="})
<1>1. \A e \in Escape : Meaning[e] \in {"?", "&", "=", NUL}
  BY DEF Escape, Meaning, NUL
<1>2. PICK text : text = Unescaped(s)
  OBVIOUS
<1>3. text \in Seq((S \ Escape) \cup {"?", "&", "=", NUL})
  BY <1>1, <1>2 DEF Unescaped
<1>4. PICK t : t = Before(text, NUL)
  OBVIOUS
<1>5. t \in Seq((S \ Escape) \cup {"?", "&", "=", NUL}) /\ \A i \in DOMAIN t : t[i] # NUL
  BY <1>3, <1>4, PartsOfText
<1>6. t \in Seq((S \ Escape) \cup {"?", "&", "="})
  BY <1>5
<1> QED BY <1>2, <1>4, <1>6 DEF decodeUrl

LEMMA ElementOf ==
    ASSUME NEW S, NEW s \in Seq(S), NEW i \in DOMAIN s
    PROVE  s[i] \in S
OBVIOUS

LEMMA SequenceOf ==
    ASSUME NEW S, NEW n \in Nat, NEW s, s = [i \in 1 .. n |-> s[i]], \A i \in 1 .. n : s[i] \in S
    PROVE  s \in Seq(S)
OBVIOUS

LEMMA Appended ==
    ASSUME NEW S, NEW q \in Seq(S), NEW x \in S
    PROVE  Append(q, x) \in Seq(S) /\ Append(q, x) # <<>>
BY AppendProperties

\* The recursion of Parts.
Reads(f, s, c) ==
    f = [n \in 0 .. Len(s) |->
            IF n = 0 THEN <<<<>>>>
            ELSE IF s[n] = c THEN Append(f[n - 1], <<>>)
            ELSE Append(Front(f[n - 1]), Append(Last(f[n - 1]), s[n]))]

LEMMA PartsReads ==
    ASSUME NEW S, NEW s \in Seq(S), NEW c
    PROVE  /\ \E f : Reads(f, s, c) /\ Parts(s, c) = f[Len(s)]
           /\ Parts(s, c) \in Seq(Seq(S)) \ {<<>>}
<1>1. PICK N : N = Len(s)
  OBVIOUS
<1>2. N \in Nat
  BY <1>1
<1> DEFINE D == Seq(Seq(S)) \ {<<>>}
           base == <<<<>>>>
           step == [x \in (1 .. N) \X D |->
               IF s[x[1]] = c THEN Append(x[2], <<>>)
               ELSE Append(Front(x[2]), Append(Last(x[2]), s[x[1]]))]
           Raw(f) == f = [n \in 0 .. Len(s) |->
               IF n = 0 THEN <<<<>>>>
               ELSE IF s[n] = c THEN Append(f[n - 1], <<>>)
               ELSE Append(Front(f[n - 1]), Append(Last(f[n - 1]), s[n]))]
<1>3. base \in D
  OBVIOUS
<1>4. ASSUME NEW n \in 1 .. N, NEW d \in D
      PROVE  /\ Append(d, <<>>) \in D
             /\ Append(Front(d), Append(Last(d), s[n])) \in D
             /\ Front(d) \in Seq(Seq(S))
  <2>1. Front(d) \in Seq(Seq(S)) /\ Last(d) \in Seq(S) /\ s[n] \in S
    BY <1>1 DEF Front, Last
  <2>2. Append(Last(d), s[n]) \in Seq(S)
    BY <2>1
  <2>3. \A q \in Seq(Seq(S)), r \in Seq(S) : Append(q, r) \in Seq(Seq(S)) /\ Append(q, r) # <<>>
    <3>1. SUFFICES ASSUME NEW q \in Seq(Seq(S)), NEW r \in Seq(S)
                   PROVE  Append(q, r) \in Seq(Seq(S)) /\ Append(q, r) # <<>>
      OBVIOUS
    <3> QED BY Appended, Zenon
  <2>4. <<>> \in Seq(S) /\ d \in Seq(Seq(S))
    OBVIOUS
  <2>5. Append(d, <<>>) \in Seq(Seq(S)) /\ Append(d, <<>>) # <<>>
    BY <2>3, <2>4, Zenon
  <2>6. /\ Append(Front(d), Append(Last(d), s[n])) \in Seq(Seq(S))
        /\ Append(Front(d), Append(Last(d), s[n])) # <<>>
    BY <2>1, <2>2, <2>3, Zenon
  <2> QED BY <2>1, <2>5, <2>6, Zenon
<1>5. step \in [(1 .. N) \X D -> D]
  <2>1. ASSUME NEW x \in (1 .. N) \X D
        PROVE  (IF s[x[1]] = c THEN Append(x[2], <<>>)
                ELSE Append(Front(x[2]), Append(Last(x[2]), s[x[1]]))) \in D
    <3>1. x[1] \in 1 .. N /\ x[2] \in D
      OBVIOUS
    <3> HIDE DEF D
    <3> QED BY <1>4, <3>1
  <2> QED BY <2>1
<1>6. ASSUME NEW n \in 1 .. N, NEW d \in D
      PROVE  step[<<n, d>>] = IF s[n] = c THEN Append(d, <<>>)
                              ELSE Append(Front(d), Append(Last(d), s[n]))
  OBVIOUS
<1> HIDE DEF D, step
<1>7. \E f : Raw(f)
  <2>1. PICK f : Steps(f, N, base, step)
    BY <1>2, StepsExist
  <2>2. \A n \in 0 .. N : f[n] \in D
    BY <1>2, <1>3, <1>5, <2>1, StepsValues
  <2>3. ASSUME NEW n \in 1 .. N
        PROVE  f[n] = IF s[n] = c THEN Append(f[n - 1], <<>>)
                      ELSE Append(Front(f[n - 1]), Append(Last(f[n - 1]), s[n]))
    <3>1. f[n] = step[<<n, f[n - 1]>>] /\ n - 1 \in 0 .. N
      BY <1>2, <2>1 DEF Steps
    <3>2. PICK d \in D : d = f[n - 1]
      BY <2>2, <3>1
    <3> QED BY <1>6, <3>1, <3>2
  <2>4. f[0] = base /\ f = [n \in 0 .. N |-> f[n]]
    BY <1>2, <2>1 DEF Steps
  <2>5. ASSUME NEW n \in 0 .. N
        PROVE  f[n] = IF n = 0 THEN <<<<>>>>
                      ELSE IF s[n] = c THEN Append(f[n - 1], <<>>)
                      ELSE Append(Front(f[n - 1]), Append(Last(f[n - 1]), s[n]))
    <3>1. CASE n = 0
      BY <2>4, <3>1
    <3>2. CASE n # 0
      <4>1. n \in 1 .. N
        BY <1>2, <3>2
      <4> QED BY <2>3, <3>2, <4>1
    <3> QED BY <3>1, <3>2
  <2> QED BY <1>1, <2>4, <2>5
<1> DEFINE f == CHOOSE g : Raw(g)
<1>8. Raw(f)
  BY <1>7, Zenon
<1>9. Parts(s, c) = f[Len(s)]
  BY DEF Parts
<1>10. Reads(f, s, c)
  BY <1>8, Zenon DEF Reads
<1>11. f = [n \in 0 .. Len(s) |->
               IF n = 0 THEN <<<<>>>>
               ELSE IF s[n] = c THEN Append(f[n - 1], <<>>)
               ELSE Append(Front(f[n - 1]), Append(Last(f[n - 1]), s[n]))]
  BY <1>8, Zenon
<1> HIDE DEF f
<1>12. f[N] \in D
  <2> DEFINE M == {m \in Nat : m <= N => f[m] \in D}
  <2>1. 0 \in M
    BY <1>1, <1>2, <1>3, <1>11
  <2>2. ASSUME NEW m \in M PROVE m + 1 \in M
    <3>1. SUFFICES ASSUME m + 1 <= N PROVE f[m + 1] \in D
      OBVIOUS
    <3>2. m + 1 \in 1 .. N /\ f[m] \in D
      BY <1>2, <3>1
    <3>3. f[m + 1] = IF s[m + 1] = c THEN Append(f[m], <<>>)
                     ELSE Append(Front(f[m]), Append(Last(f[m]), s[m + 1]))
      <4>1. PICK k : k = m + 1
        OBVIOUS
      <4>2. k \in 0 .. Len(s) /\ k # 0 /\ k - 1 = m
        BY <1>1, <1>2, <3>2, <4>1
      <4>3. f[k] = IF s[k] = c THEN Append(f[k - 1], <<>>)
                   ELSE Append(Front(f[k - 1]), Append(Last(f[k - 1]), s[k]))
        BY <1>11, <4>2
      <4> QED BY <4>1, <4>2, <4>3
    <3> QED BY <1>4, <3>2, <3>3
  <2>3. M \in SUBSET Nat
    OBVIOUS
  <2> HIDE DEF M
  <2>4. N \in M
    BY <1>2, <2>1, <2>2, <2>3, Induct
  <2> QED BY <2>4 DEF M
<1> QED BY <1>1, <1>9, <1>12, <1>10 DEF D

LEMMA SplitParts ==
    ASSUME NEW S, NEW s \in Seq(S), NEW c
    PROVE  split(s, c) \in Seq(Seq(S))
<1>1. PICK parts : parts = Parts(s, c)
  OBVIOUS
<1>2. parts \in Seq(Seq(S)) /\ parts # <<>>
  BY <1>1, PartsReads
<1>3. Front(parts) \in Seq(Seq(S))
  BY <1>2 DEF Front
<1> QED BY <1>1, <1>2, <1>3 DEF split

LEMMA WrittenTokens ==
    ASSUME NEW p, p.name \in Seq(Token \cup {"%zz"}), p.value \in Seq(Token \cup {"%zz"}), NEW n
    PROVE  Written(p, n) \in Seq(Token \cup Escape)
<1>1. {"%26", "%3D", "%3F", "%zz"} \subseteq Escape /\ {"?", "&", "="} \subseteq Token
  BY DEF Escape, Meaning, Token
<1>2. ASSUME NEW s \in Seq(Token \cup {"%zz"})
      PROVE  Escaped(s) \in Seq(Token \cup Escape)
  <2>1. \A i \in DOMAIN s : s[i] \in Token \cup {"%zz"}
    OBVIOUS
  <2> QED BY <1>1, <2>1 DEF Escaped
<1>3. PICK U : U = Token \cup Escape
  OBVIOUS
<1>4. PICK k, v : k = Escaped(p.name) /\ v = Escaped(p.value)
  OBVIOUS
<1>5. k \in Seq(U) /\ v \in Seq(U)
  BY <1>2, <1>3, <1>4
<1>6. <<"?">> \in Seq(U) /\ <<"&">> \in Seq(U) /\ <<"=">> \in Seq(U)
  BY <1>1, <1>3
<1>7. PICK mark : mark \in Seq(U) /\ mark = IF n = 1 THEN <<"?">> ELSE <<"&">>
  <2>1. CASE n = 1
    BY <1>6, <2>1
  <2>2. CASE n # 1
    BY <1>6, <2>2
  <2> QED BY <2>1, <2>2
<1>8. mark \o k \o <<"=">> \o v \in Seq(U)
  BY <1>5, <1>6, <1>7
<1> QED BY <1>3, <1>4, <1>7, <1>8 DEF Written

\* The recursion of Text.
Writes(f, a) ==
    f = [n \in 0 .. Len(a.parameters) |->
            IF n = 0 THEN a.path ELSE f[n - 1] \o Written(a.parameters[n], n)]

LEMMA TextWrites ==
    ASSUME NEW a \in Asked
    PROVE  \E f : /\ Writes(f, a) /\ Text(a) = f[Len(a.parameters)]
                 /\ \A n \in 0 .. Len(a.parameters) : f[n] \in Seq(Token \cup Escape)
<1>1. PICK ps, N : ps = a.parameters /\ N = Len(ps)
  OBVIOUS
<1>2. /\ N \in Nat
      /\ a.path \in Seq(Token \cup Escape)
      /\ \A n \in 1 .. N : Written(ps[n], n) \in Seq(Token \cup Escape)
  <2>1. /\ a.path \in Seq(Word)
        /\ ps \in Seq([name : Seq(Token \cup {"%zz"}), value : Seq(Token \cup {"%zz"})])
    BY <1>1 DEF Asked
  <2>2. a.path \in Seq(Token \cup Escape)
    BY <2>1 DEF Token
  <2>3. ASSUME NEW n \in 1 .. N
        PROVE  Written(ps[n], n) \in Seq(Token \cup Escape)
    <3>1. ps[n] \in [name : Seq(Token \cup {"%zz"}), value : Seq(Token \cup {"%zz"})]
      <4>1. n \in DOMAIN ps
        BY <1>1, <2>1
      <4> QED BY <2>1, <4>1, ElementOf
    <3> QED BY <3>1, WrittenTokens
  <2> QED BY <1>1, <2>1, <2>2, <2>3
<1> DEFINE D == Seq(Token \cup Escape)
           step == [x \in (1 .. N) \X D |-> x[2] \o Written(ps[x[1]], x[1])]
           Raw(f) == f = [n \in 0 .. Len(a.parameters) |->
               IF n = 0 THEN a.path ELSE f[n - 1] \o Written(a.parameters[n], n)]
<1>3. step \in [(1 .. N) \X D -> D]
  <2>1. ASSUME NEW x \in (1 .. N) \X D
        PROVE  x[2] \o Written(ps[x[1]], x[1]) \in D
    <3>1. x[1] \in 1 .. N /\ x[2] \in D
      OBVIOUS
    <3>2. Written(ps[x[1]], x[1]) \in D
      BY <1>2, <3>1
    <3> QED BY <3>1, <3>2, ConcatProperties
  <2> QED BY <2>1
<1>4. ASSUME NEW n \in 1 .. N, NEW d \in D
      PROVE  step[<<n, d>>] = d \o Written(ps[n], n) /\ d \o Written(ps[n], n) \in D
  BY <1>2, ConcatProperties
<1>5. a.path \in D
  BY <1>2
<1> HIDE DEF D, step
<1>6. \E f : Raw(f)
  <2>1. PICK f : Steps(f, N, a.path, step)
    BY <1>2, StepsExist
  <2>2. \A n \in 0 .. N : f[n] \in D
    BY <1>2, <1>3, <1>5, <2>1, StepsValues
  <2>3. ASSUME NEW n \in 1 .. N
        PROVE  f[n] = f[n - 1] \o Written(ps[n], n)
    <3>1. f[n] = step[<<n, f[n - 1]>>] /\ n - 1 \in 0 .. N
      BY <1>2, <2>1 DEF Steps
    <3>2. PICK d \in D : d = f[n - 1]
      BY <2>2, <3>1
    <3> QED BY <1>4, <3>1, <3>2
  <2>4. f[0] = a.path /\ f = [n \in 0 .. N |-> f[n]]
    BY <1>2, <2>1 DEF Steps
  <2>5. ASSUME NEW n \in 0 .. N
        PROVE  f[n] = IF n = 0 THEN a.path ELSE f[n - 1] \o Written(ps[n], n)
    <3>1. CASE n = 0
      BY <2>4, <3>1
    <3>2. CASE n # 0
      <4>1. n \in 1 .. N
        BY <1>2, <3>2
      <4> QED BY <2>3, <3>2, <4>1
    <3> QED BY <3>1, <3>2
  <2> QED BY <1>1, <2>4, <2>5
<1> DEFINE f == CHOOSE g : Raw(g)
<1>7. Raw(f)
  BY <1>6, Zenon
<1>8. f = [n \in 0 .. Len(a.parameters) |->
               IF n = 0 THEN a.path ELSE f[n - 1] \o Written(a.parameters[n], n)]
  BY <1>7, Zenon
<1>9. Text(a) = f[N]
  BY <1>1 DEF Text
<1>10. Writes(f, a)
  BY <1>7, Zenon DEF Writes
<1> HIDE DEF f
<1>11. \A n \in 0 .. N : f[n] \in D
  <2> DEFINE M == {m \in Nat : m <= N => f[m] \in D}
  <2>1. 0 \in M
    BY <1>1, <1>2, <1>5, <1>8
  <2>2. ASSUME NEW m \in M PROVE m + 1 \in M
    <3>1. SUFFICES ASSUME m + 1 <= N PROVE f[m + 1] \in D
      OBVIOUS
    <3>2. m + 1 \in 1 .. N /\ f[m] \in D
      BY <1>2, <3>1
    <3>3. f[m + 1] = f[m] \o Written(ps[m + 1], m + 1)
      <4>1. PICK k : k = m + 1
        OBVIOUS
      <4>2. k \in 0 .. Len(a.parameters) /\ k # 0 /\ k - 1 = m
        BY <1>1, <1>2, <3>2, <4>1
      <4>3. f[k] = f[k - 1] \o Written(a.parameters[k], k)
        BY <1>8, <4>2
      <4> QED BY <1>1, <4>1, <4>2, <4>3
    <3> QED BY <1>4, <3>2, <3>3
  <2>3. M \in SUBSET Nat
    OBVIOUS
  <2> HIDE DEF M
  <2>4. M = Nat
    BY <2>1, <2>2, <2>3, Induct
  <2> QED BY <1>2, <2>4 DEF M
<1> QED BY <1>1, <1>9, <1>11, <1>10 DEF D

\* The text a client sends is made of words, marks and escapes.
LEMMA TextTokens ==
    ASSUME NEW a \in Asked
    PROVE  Text(a) \in Seq(Token \cup Escape)
<1>1. PICK ps, N : ps = a.parameters /\ N = Len(ps)
  OBVIOUS
<1>2. N \in 0 .. N
  <2>1. ps \in Seq([name : Seq(Token \cup {"%zz"}), value : Seq(Token \cup {"%zz"})])
    BY <1>1 DEF Asked
  <2> QED BY <1>1, <2>1
<1>3. PICK f : /\ Text(a) = f[N] /\ \A n \in 0 .. N : f[n] \in Seq(Token \cup Escape)
  BY <1>1, TextWrites
<1> QED BY <1>2, <1>3

\* A parameter is made of what the decoded url is made of.
LEMMA ParameterOf ==
    ASSUME NEW S, NEW text, decodeUrl(text) \in Seq(S), NEW name
    PROVE  Parameter(parseRequest(text), name) \in Seq(S)
<1>1. PICK url : url = decodeUrl(text)
  OBVIOUS
<1>2. url \in Seq(S)
  BY <1>1
<1>3. Parameters(url) \in Seq([name : Seq(S), value : Seq(S)])
  <2>1. PICK parts : parts = split(After(url, "?"), "&")
    OBVIOUS
  <2>2. parts \in Seq(Seq(S))
    BY <1>2, <2>1, PartsOfText, SplitParts
  <2>3. \A i \in DOMAIN parts : Before(parts[i], "=") \in Seq(S) /\ After(parts[i], "=") \in Seq(S)
    BY <2>2, PartsOfText
  <2>4. Parameters(url) =
            [i \in DOMAIN parts |-> [name |-> Before(parts[i], "="), value |-> After(parts[i], "=")]]
    BY <2>1 DEF Parameters
  <2>5. PICK n \in Nat : DOMAIN parts = 1 .. n
    BY <2>2
  <2>6. PICK ps : ps = Parameters(url)
    OBVIOUS
  <2>7. ps = [i \in 1 .. n |-> ps[i]] /\ \A i \in 1 .. n : ps[i] \in [name : Seq(S), value : Seq(S)]
    BY <2>3, <2>4, <2>5, <2>6
  <2>8. ps \in Seq([name : Seq(S), value : Seq(S)])
    BY <2>7, SequenceOf, Zenon
  <2> QED BY <2>6, <2>8
<1>4. PICK r : r = parseRequest(text)
  OBVIOUS
<1>5. r.parameters \in Seq([name : Seq(S), value : Seq(S)])
  BY <1>1, <1>3, <1>4 DEF parseRequest
<1>6. PICK places : places = {i \in DOMAIN r.parameters : r.parameters[i].name = name}
  OBVIOUS
<1>7. ASSUME places # {}
      PROVE  Max(places) \in places
  <2>1. DOMAIN r.parameters = 1 .. Len(r.parameters) /\ Len(r.parameters) \in Nat
    BY <1>5
  <2>2. places \in SUBSET Nat /\ \A i \in places : i <= Len(r.parameters)
    BY <1>6, <2>1
  <2> QED BY <1>7, <2>1, <2>2, Greatest
<1>8. Parameter(r, name) = IF places = {} THEN <<>> ELSE r.parameters[Max(places)].value
  BY <1>6 DEF Parameter
<1>9. CASE places # {}
  <2>1. PICK i \in DOMAIN r.parameters : i = Max(places)
    BY <1>6, <1>7, <1>9
  <2>2. r.parameters[i] \in [name : Seq(S), value : Seq(S)]
    BY <1>5, ElementOf
  <2> QED BY <1>4, <1>8, <1>9, <2>1, <2>2
<1>10. CASE places = {}
  <2>1. <<>> \in Seq(S)
    OBVIOUS
  <2> QED BY <1>4, <1>8, <1>10, <2>1
<1> QED BY <1>9, <1>10

\* What the plugin reads of a request is made of words and marks: no escape is left.
LEMMA ScriptTokens ==
    ASSUME NEW a \in Asked
    PROVE  ScriptRead(a) \in Seq(Token)
<1>1. PICK text : text = Text(a)
  OBVIOUS
<1>2. text \in Seq(Token \cup Escape)
  BY <1>1, TextTokens
<1>3. PICK S : S = ((Token \cup Escape) \ Escape) \cup {"?", "&", "="}
  OBVIOUS
<1>4. decodeUrl(text) \in Seq(S)
  BY <1>2, <1>3, DecodedTokens
<1>5. Parameter(parseRequest(text), Code) \in Seq(S)
  BY <1>4, ParameterOf
<1>6. S \subseteq Token
  BY <1>3 DEF Token
<1>7. \A q \in Seq(S) : q \in Seq(Token)
  BY <1>6
<1> QED BY <1>1, <1>5, <1>7 DEF ScriptRead

\* The script read prints words of its own request.
LEMMA ScriptsOwn ==
    ASSUME NEW a \in Asked
    PROVE  ToSet(ScriptRead(a)) \cap Printed \subseteq ToSet(Text(a))
<1>1. PICK text : text = Text(a)
  OBVIOUS
<1>2. text \in Seq(Token \cup Escape)
  BY <1>1, TextTokens
<1>3. PICK U, S : U = ToSet(text) /\ S = (U \ Escape) \cup {"?", "&", "="}
  OBVIOUS
<1>4. text \in Seq(U)
  BY <1>2, <1>3 DEF ToSet
<1>5. decodeUrl(text) \in Seq(S)
  BY <1>3, <1>4, DecodedTokens
<1>6. PICK script : script = Parameter(parseRequest(text), Code)
  OBVIOUS
<1>7. script \in Seq(S)
  BY <1>5, <1>6, ParameterOf
<1>8. ToSet(script) \subseteq S
  BY <1>7 DEF ToSet
<1>9. Printed \cap {"?", "&", "="} = {}
  BY CodeAssumption, WordAssumption
<1> QED BY <1>1, <1>3, <1>6, <1>8, <1>9 DEF ScriptRead

-----------------------------------------------------------------------------
(* What parseRequest finds.                                                *)

\* A text that begins with one that holds no c, followed by a c, is cut there.
LEMMA CutAt ==
    ASSUME NEW S, NEW x \in Seq(S), NEW y \in Seq(S), NEW c \in S, \A i \in DOMAIN x : x[i] # c
    PROVE  /\ Find(x \o <<c>> \o y, c) = Len(x) + 1
           /\ Before(x \o <<c>> \o y, c) = x
           /\ After(x \o <<c>> \o y, c) = y
<1>1. PICK s, n, m, k : s = x \o <<c>> \o y /\ n = Len(x) /\ m = Len(y) /\ k = Find(s, c)
  OBVIOUS
<1>2. /\ n \in Nat /\ m \in Nat /\ s \in Seq(S) /\ Len(s) = n + 1 + m
      /\ s[n + 1] = c
      /\ \A i \in 1 .. n : s[i] = x[i]
      /\ \A i \in 1 .. m : s[n + 1 + i] = y[i]
  <2>1. PICK r : r = x \o <<c>>
    OBVIOUS
  <2>2. /\ n \in Nat /\ m \in Nat /\ r \in Seq(S) /\ Len(r) = n + 1
        /\ r[n + 1] = c /\ \A i \in 1 .. n : r[i] = x[i]
    BY <1>1, <2>1
  <2>3. s \in Seq(S) /\ Len(s) = n + 1 + m /\ \A i \in 1 .. n + 1 + m :
            s[i] = IF i <= n + 1 THEN r[i] ELSE y[i - (n + 1)]
    BY <1>1, <2>1, <2>2, ConcatProperties
  <2>4. \A i \in 1 .. n + 1 : s[i] = r[i]
    BY <2>2, <2>3
  <2>5. ASSUME NEW i \in 1 .. m PROVE s[n + 1 + i] = y[i]
    <3>1. PICK j \in 1 .. n + 1 + m : j = n + 1 + i /\ ~(j <= n + 1) /\ j - (n + 1) = i
      BY <2>2
    <3> QED BY <2>3, <3>1
  <2> QED BY <2>2, <2>3, <2>4, <2>5
<1>3. /\ k \in 1 .. Len(s) + 1 /\ (k <= Len(s) => s[k] = c)
      /\ \A i \in 1 .. k - 1 : s[i] # c
  <2>1. s \in Seq(S)
    BY <1>2
  <2>2. /\ Find(s, c) \in 1 .. Len(s) + 1
        /\ Find(s, c) <= Len(s) => s[Find(s, c)] = c
        /\ \A i \in 1 .. Find(s, c) - 1 : s[i] # c
    BY <2>1, FindFinds, Zenon
  <2> QED BY <1>1, <2>2
<1>4. k = n + 1
  <2>1. k <= n + 1
    BY <1>2, <1>3
  <2>2. ~(k <= n)
    BY <1>1, <1>2, <1>3
  <2> QED BY <1>2, <1>3, <2>1, <2>2
<1>5. SubSeq(s, 1, n) = x
  BY <1>1, <1>2
<1>6. SubSeq(s, n + 2, Len(s)) = y
  <2>1. PICK r : r = SubSeq(s, n + 2, Len(s))
    OBVIOUS
  <2>2. r \in Seq(S) /\ Len(r) = m /\ \A i \in 1 .. m : r[i] = s[n + 1 + i]
    BY <1>2, <2>1
  <2>3. Len(r) = Len(y) /\ \A i \in 1 .. Len(r) : r[i] = y[i]
    BY <1>1, <1>2, <2>2
  <2>4. r = y
    BY <2>2, <2>3, SeqEqual, Zenon
  <2> QED BY <2>1, <2>4
<1>7. Before(s, c) = x /\ After(s, c) = y
  <2>1. k - 1 = n /\ k + 1 = n + 2
    BY <1>2, <1>4
  <2> QED BY <1>1, <1>5, <1>6, <2>1 DEF Before, After
<1> QED BY <1>1, <1>4, <1>7

LEMMA PartsEmpty == \A c : Parts(<<>>, c) = <<<<>>>>
<1> SUFFICES ASSUME NEW c PROVE Parts(<<>>, c) = <<<<>>>>
  OBVIOUS
<1>1. PICK s : s = <<>>
  OBVIOUS
<1>2. s \in Seq({}) /\ Len(s) = 0
  BY <1>1
<1>3. PICK f : Reads(f, s, c) /\ Parts(s, c) = f[Len(s)]
  BY <1>2, PartsReads
<1>4. f[0] = <<<<>>>>
  BY <1>2, <1>3 DEF Reads
<1> QED BY <1>1, <1>2, <1>3, <1>4

LEMMA PartsAppend ==
    ASSUME NEW S, NEW s \in Seq(S), NEW x \in S, NEW c
    PROVE  Parts(Append(s, x), c) =
               IF x = c THEN Append(Parts(s, c), <<>>)
               ELSE Append(Front(Parts(s, c)), Append(Last(Parts(s, c)), x))
<1>1. PICK r, N : r = Append(s, x) /\ N = Len(s)
  OBVIOUS
<1>2. /\ N \in Nat /\ r \in Seq(S) /\ Len(r) = N + 1
      /\ r[N + 1] = x /\ \A i \in 1 .. N : r[i] = s[i]
  BY <1>1, AppendProperties
<1>3. PICK f : Reads(f, s, c) /\ Parts(s, c) = f[N]
  BY <1>1, PartsReads
<1>4. PICK g : Reads(g, r, c) /\ Parts(r, c) = g[N + 1]
  BY <1>2, PartsReads
<1>5. f[0] = <<<<>>>> /\ g[0] = <<<<>>>>
  <2>1. 0 \in 0 .. Len(s) /\ 0 \in 0 .. Len(r)
    BY <1>1, <1>2
  <2>2. f[0] = <<<<>>>>
    BY <1>3, <2>1 DEF Reads
  <2>3. g[0] = <<<<>>>>
    BY <1>4, <2>1 DEF Reads
  <2> QED BY <2>2, <2>3
<1>6. ASSUME NEW n \in 1 .. N
      PROVE  f[n] = IF s[n] = c THEN Append(f[n - 1], <<>>)
                    ELSE Append(Front(f[n - 1]), Append(Last(f[n - 1]), s[n]))
  <2>1. n \in 0 .. Len(s) /\ n # 0
    BY <1>1, <1>2
  <2>2. f = [k \in 0 .. Len(s) |->
            IF k = 0 THEN <<<<>>>>
            ELSE IF s[k] = c THEN Append(f[k - 1], <<>>)
            ELSE Append(Front(f[k - 1]), Append(Last(f[k - 1]), s[k]))]
    BY <1>3 DEF Reads
  <2> QED BY <2>1, <2>2
<1>7. ASSUME NEW n \in 1 .. N + 1
      PROVE  g[n] = IF r[n] = c THEN Append(g[n - 1], <<>>)
                    ELSE Append(Front(g[n - 1]), Append(Last(g[n - 1]), r[n]))
  <2>1. n \in 0 .. Len(r) /\ n # 0
    BY <1>2
  <2>2. g = [k \in 0 .. Len(r) |->
            IF k = 0 THEN <<<<>>>>
            ELSE IF r[k] = c THEN Append(g[k - 1], <<>>)
            ELSE Append(Front(g[k - 1]), Append(Last(g[k - 1]), r[k]))]
    BY <1>4 DEF Reads
  <2> QED BY <2>1, <2>2
<1> DEFINE M == {m \in Nat : m <= N => g[m] = f[m]}
<1>8. 0 \in M
  BY <1>5
<1>9. ASSUME NEW m \in M PROVE m + 1 \in M
  <2>1. SUFFICES ASSUME m + 1 <= N PROVE g[m + 1] = f[m + 1]
    OBVIOUS
  <2>2. PICK k \in 1 .. N : k = m + 1 /\ k - 1 = m /\ k \in 1 .. N + 1
    BY <1>2, <2>1
  <2>3. g[m] = f[m] /\ r[k] = s[k]
    BY <1>2, <2>1
  <2> QED BY <1>6, <1>7, <2>2, <2>3
<1>10. M \in SUBSET Nat
  OBVIOUS
<1>11. g[N] = f[N]
  <2>1. (\A m \in M : m + 1 \in M) /\ (N \in M => g[N] = f[N])
    BY <1>2, <1>9
  <2> HIDE DEF M
  <2> QED BY <1>2, <1>8, <1>10, <2>1, Induct
<1>12. g[N + 1] = IF x = c THEN Append(g[N], <<>>) ELSE Append(Front(g[N]), Append(Last(g[N]), x))
  <2>1. PICK k \in 1 .. N + 1 : k = N + 1 /\ k - 1 = N
    BY <1>2
  <2> QED BY <1>2, <1>7, <2>1
<1> QED BY <1>1, <1>3, <1>4, <1>11, <1>12

\* The last part and those before it.
LEMMA Ends ==
    ASSUME NEW S, NEW q \in Seq(S), NEW x \in S
    PROVE  Front(Append(q, x)) = q /\ Last(Append(q, x)) = x
<1>1. PICK r, n : r = Append(q, x) /\ n = Len(q)
  OBVIOUS
<1>2. n \in Nat /\ r \in Seq(S) /\ Len(r) = n + 1 /\ r[n + 1] = x /\ \A i \in 1 .. n : r[i] = q[i]
  BY <1>1, AppendProperties
<1>3. SubSeq(r, 1, n) = q
  BY <1>1, <1>2
<1> QED BY <1>1, <1>2, <1>3 DEF Front, Last

LEMMA ConcatAppend ==
    ASSUME NEW S, NEW q \in Seq(S), NEW y \in Seq(S), NEW e \in S
    PROVE  q \o Append(y, e) = Append(q \o y, e) /\ q \o y \in Seq(S)
<1>1. Append(y, e) = y \o <<e>> /\ <<e>> \in Seq(S)
  BY AppendIsConcat
<1>2. q \o y \in Seq(S)
  BY ConcatProperties
<1>3. Append(q \o y, e) = (q \o y) \o <<e>>
  BY <1>2, AppendIsConcat
<1>4. (q \o y) \o <<e>> = q \o (y \o <<e>>)
  BY <1>1, ConcatAssociative
<1> QED BY <1>1, <1>2, <1>3, <1>4

\* A text without c goes to the last part.
LEMMA PartsConcat ==
    ASSUME NEW S, NEW s \in Seq(S), NEW x \in Seq(S), NEW c, \A i \in DOMAIN x : x[i] # c
    PROVE  Parts(s \o x, c) = Append(Front(Parts(s, c)), Last(Parts(s, c)) \o x)
<1>1. PICK parts : parts = Parts(s, c)
  OBVIOUS
<1>2. parts \in Seq(Seq(S)) /\ parts # <<>>
  BY <1>1, PartsReads
<1>3. PICK front, last : front = Front(parts) /\ last = Last(parts)
  OBVIOUS
<1>4. front \in Seq(Seq(S)) /\ last \in Seq(S)
  BY <1>2, <1>3 DEF Front, Last
<1>5. Append(front, last) = parts
  <2>1. PICK T : T = Seq(S)
    OBVIOUS
  <2>2. PICK q \in Seq(T), z \in T : parts = Append(q, z)
    BY <1>2, <2>1, SequenceEmptyOrAppend
  <2> QED BY <1>3, <2>2, Ends
<1> DEFINE Without(y) == \A i \in DOMAIN y : y[i] # c
           Goes(y) == Parts(s \o y, c) = Append(front, last \o y)
           M == {m \in Nat : \A y \in Seq(S) : Len(y) = m /\ Without(y) => Goes(y)}
<1>6. 0 \in M
  <2>1. s \o <<>> = s /\ last \o <<>> = last
    BY <1>4
  <2>2. Goes(<<>>)
    BY <1>1, <1>5, <2>1
  <2>3. \A y \in Seq(S) : Len(y) = 0 => y = <<>>
    OBVIOUS
  <2> QED BY <2>2, <2>3
<1>7. ASSUME NEW m \in M PROVE m + 1 \in M
  <2>1. SUFFICES ASSUME NEW z \in Seq(S), Len(z) = m + 1, Without(z)
                 PROVE  Goes(z)
    OBVIOUS
  <2>2. PICK y \in Seq(S), e \in S : z = Append(y, e)
    <3>1. z # <<>>
      BY <2>1
    <3> QED BY <3>1, SequenceEmptyOrAppend
  <2>3. Len(z) = Len(y) + 1 /\ z[Len(y) + 1] = e /\ \A i \in 1 .. Len(y) : z[i] = y[i]
    BY <2>2, AppendProperties
  <2>4. Len(y) = m /\ Without(y) /\ e # c
    <3>1. Len(y) = m
      BY <2>1, <2>3
    <3>2. DOMAIN z = 1 .. m + 1 /\ DOMAIN y = 1 .. m
      BY <2>1, <3>1
    <3>3. \A i \in 1 .. m : i \in 1 .. m + 1
      OBVIOUS
    <3>4. m + 1 \in 1 .. m + 1
      OBVIOUS
    <3>5. Without(y)
      BY <2>1, <2>3, <3>1, <3>2, <3>3
    <3>6. e # c
      BY <2>1, <2>3, <3>1, <3>2, <3>4
    <3> QED BY <3>1, <3>5, <3>6
  <2>5. Goes(y)
    BY <2>4
  <2>6. ASSUME NEW q \in Seq(S)
        PROVE  q \o Append(y, e) = Append(q \o y, e) /\ q \o y \in Seq(S)
    BY ConcatAppend, Zenon
  <2>7. last \o y \in Seq(S) /\ s \o y \in Seq(S)
    BY <1>4, <2>6
  <2>8. Front(Append(front, last \o y)) = front /\ Last(Append(front, last \o y)) = last \o y
    BY <1>4, <2>7, Ends, Zenon
  <2>9. PICK sy, P : sy = s \o y /\ P = Parts(sy, c)
    OBVIOUS
  <2>10. Parts(Append(sy, e), c) = Append(Front(P), Append(Last(P), e))
    <3>1. sy \in Seq(S)
      BY <2>7, <2>9
    <3>2. Parts(Append(sy, e), c) =
              IF e = c THEN Append(Parts(sy, c), <<>>)
              ELSE Append(Front(Parts(sy, c)), Append(Last(Parts(sy, c)), e))
      BY <3>1, PartsAppend
    <3> QED BY <2>4, <2>9, <3>2
  <2>11. Front(P) = front /\ Last(P) = last \o y
    BY <2>5, <2>8, <2>9
  <2>12. Parts(s \o z, c) = Append(front, last \o z)
    <3>1. s \o z = Append(sy, e) /\ last \o z = Append(last \o y, e)
      <4>1. s \o Append(y, e) = Append(s \o y, e)
        BY <2>6, Zenon
      <4>2. last \o Append(y, e) = Append(last \o y, e)
        BY <1>4, <2>6, Zenon
      <4> QED BY <2>2, <2>9, <4>1, <4>2
    <3> QED BY <2>10, <2>11, <3>1
  <2> QED BY <2>12
<1>8. M \in SUBSET Nat /\ \A m \in M : m + 1 \in M
  BY <1>7
<1>9. Len(x) \in Nat /\ (Len(x) \in M => Goes(x))
  OBVIOUS
<1> HIDE DEF M
<1>10. Goes(x)
  BY <1>6, <1>8, <1>9, Induct
<1> QED BY <1>1, <1>3, <1>10

LEMMA UnescapedConcat ==
    ASSUME NEW S, NEW x \in Seq(S), NEW y \in Seq(S)
    PROVE  Unescaped(x \o y) = Unescaped(x) \o Unescaped(y)
<1>1. PICK T : T = S \cup {Meaning[e] : e \in Escape}
  OBVIOUS
<1>2. ASSUME NEW z \in Seq(S)
      PROVE  /\ Unescaped(z) \in Seq(T) /\ Len(Unescaped(z)) = Len(z)
             /\ \A i \in 1 .. Len(z) : Unescaped(z)[i] = IF z[i] \in Escape THEN Meaning[z[i]] ELSE z[i]
  BY <1>1 DEF Unescaped
<1>3. PICK xy, u, v, uv : xy = x \o y /\ u = Unescaped(x) /\ v = Unescaped(y) /\ uv = Unescaped(xy)
  OBVIOUS
<1>4. /\ xy \in Seq(S) /\ Len(xy) = Len(x) + Len(y)
      /\ \A i \in 1 .. Len(x) + Len(y) : xy[i] = IF i <= Len(x) THEN x[i] ELSE y[i - Len(x)]
  BY <1>3, ConcatProperties
<1>5. /\ u \in Seq(T) /\ Len(u) = Len(x)
      /\ \A i \in 1 .. Len(x) : u[i] = IF x[i] \in Escape THEN Meaning[x[i]] ELSE x[i]
  BY <1>2, <1>3
<1>6. /\ v \in Seq(T) /\ Len(v) = Len(y)
      /\ \A i \in 1 .. Len(y) : v[i] = IF y[i] \in Escape THEN Meaning[y[i]] ELSE y[i]
  BY <1>2, <1>3
<1>7. /\ uv \in Seq(T) /\ Len(uv) = Len(xy)
      /\ \A i \in 1 .. Len(xy) : uv[i] = IF xy[i] \in Escape THEN Meaning[xy[i]] ELSE xy[i]
  BY <1>2, <1>3, <1>4
<1>8. PICK w : w = u \o v
  OBVIOUS
<1>9. /\ w \in Seq(T) /\ Len(w) = Len(u) + Len(v)
      /\ \A i \in 1 .. Len(u) + Len(v) : w[i] = IF i <= Len(u) THEN u[i] ELSE v[i - Len(u)]
  <2>1. u \in Seq(T) /\ v \in Seq(T)
    BY <1>5, <1>6
  <2> QED BY <1>8, <2>1, ConcatProperties
<1>10. Len(x) \in Nat /\ Len(y) \in Nat
  OBVIOUS
<1>11. ASSUME NEW i \in 1 .. Len(uv)
       PROVE  uv[i] = w[i]
  <2>1. CASE i <= Len(x)
    <3>1. i \in 1 .. Len(x)
      BY <1>10, <2>1
    <3> QED BY <1>4, <1>5, <1>6, <1>7, <1>9, <1>10, <2>1, <3>1
  <2>2. CASE ~(i <= Len(x))
    <3>1. i - Len(x) \in 1 .. Len(y)
      BY <1>4, <1>7, <1>10, <2>2
    <3>2. i \in 1 .. Len(x) + Len(y)
      BY <1>4, <1>7
    <3>3. xy[i] = y[i - Len(x)]
      BY <1>4, <2>2, <3>2
    <3>4. w[i] = v[i - Len(x)]
      BY <1>5, <1>6, <1>9, <2>2, <3>2
    <3>5. uv[i] = IF xy[i] \in Escape THEN Meaning[xy[i]] ELSE xy[i]
      BY <1>7
    <3>6. PICK j \in 1 .. Len(y) : j = i - Len(x)
      BY <3>1
    <3> QED BY <1>6, <3>3, <3>4, <3>5, <3>6
  <2> QED BY <2>1, <2>2
<1>12. Len(uv) = Len(w)
  BY <1>4, <1>5, <1>6, <1>7, <1>9
<1>13. uv = w
  BY <1>7, <1>9, <1>11, <1>12, SeqEqual
<1> QED BY <1>3, <1>8, <1>13

\* What no escape is in stays, and what a client escapes comes back.
LEMMA UnescapedToken ==
    ASSUME NEW x \in Seq(Token)
    PROVE  Unescaped(x) = x /\ Unescaped(Escaped(x)) = x /\ Escaped(x) \in Seq(Token \cup Escape)
<1>1. /\ Token \cap Escape = {}
      /\ {"%26", "%3D", "%3F"} \subseteq Escape
      /\ Meaning["%26"] = "&" /\ Meaning["%3D"] = "=" /\ Meaning["%3F"] = "?"
  BY WordAssumption DEF Token, Escape, Meaning
<1>2. \A i \in DOMAIN x : x[i] \in Token
  OBVIOUS
<1>3. Unescaped(x) = x
  BY <1>1, <1>2 DEF Unescaped
<1>4. PICK y : y = Escaped(x)
  OBVIOUS
<1>5. DOMAIN y = DOMAIN x /\ y = [i \in DOMAIN x |-> y[i]]
  BY <1>4 DEF Escaped
<1>6. \A i \in DOMAIN x :
        y[i] = IF x[i] = "&" THEN "%26" ELSE IF x[i] = "=" THEN "%3D" ELSE IF x[i] = "?" THEN "%3F" ELSE x[i]
  BY <1>4 DEF Escaped
<1>7. \A i \in DOMAIN x : (IF y[i] \in Escape THEN Meaning[y[i]] ELSE y[i]) = x[i]
  BY <1>1, <1>2, <1>6
<1>8. Unescaped(y) = x
  BY <1>5, <1>7 DEF Unescaped
<1>9. y \in Seq(Token \cup Escape)
  BY <1>1, <1>2, <1>5, <1>6
<1> QED BY <1>3, <1>4, <1>8, <1>9

\* What parseRequest finds of a parameter.
Plain(p) == p.name \o <<"=">> \o p.value

LEMMA UnescapedWritten ==
    ASSUME NEW p, p.name \in Seq(Token), p.value \in Seq(Token), NEW n
    PROVE  /\ Unescaped(Written(p, n)) = (IF n = 1 THEN <<"?">> ELSE <<"&">>) \o Plain(p)
           /\ Written(p, n) \in Seq(Token \cup Escape)
           /\ Plain(p) \in Seq(Token)
<1>1. PICK U, k, v, e, f, eq : /\ U = Token \cup Escape /\ k = p.name /\ v = p.value
                               /\ e = Escaped(k) /\ f = Escaped(v) /\ eq = <<"=">>
  OBVIOUS
<1>2. PICK mark : mark = IF n = 1 THEN <<"?">> ELSE <<"&">>
  OBVIOUS
<1>3. {"?", "&", "="} \subseteq Token /\ Token \subseteq U
  BY <1>1 DEF Token
<1>4. mark \in Seq(Token) /\ eq \in Seq(Token) /\ k \in Seq(Token) /\ v \in Seq(Token)
  <2>1. <<"?">> \in Seq(Token) /\ <<"&">> \in Seq(Token) /\ <<"=">> \in Seq(Token)
    BY <1>3
  <2> QED BY <1>1, <1>2, <2>1
<1>5. \A q \in Seq(Token) : q \in Seq(U)
  BY <1>3
<1>6. /\ Unescaped(e) = k /\ Unescaped(f) = v /\ e \in Seq(U) /\ f \in Seq(U)
      /\ Unescaped(mark) = mark /\ Unescaped(eq) = eq
  BY <1>1, <1>4, UnescapedToken
<1>7. mark \in Seq(U) /\ eq \in Seq(U)
  BY <1>4, <1>5
<1>8. PICK x : x = mark \o e
  OBVIOUS
<1>9. x \in Seq(U) /\ Unescaped(x) = mark \o k
  BY <1>6, <1>7, <1>8, ConcatProperties, UnescapedConcat
<1>10. PICK y : y = x \o eq
  OBVIOUS
<1>11. y \in Seq(U) /\ Unescaped(y) = (mark \o k) \o eq
  BY <1>6, <1>7, <1>9, <1>10, ConcatProperties, UnescapedConcat
<1>12. Unescaped(y \o f) = ((mark \o k) \o eq) \o v /\ y \o f \in Seq(U)
  BY <1>6, <1>11, ConcatProperties, UnescapedConcat
<1>13. ((mark \o k) \o eq) \o v = mark \o ((k \o eq) \o v) /\ (k \o eq) \o v \in Seq(Token)
  <2>1. mark \o k \in Seq(Token) /\ k \o eq \in Seq(Token)
    BY <1>4, ConcatProperties
  <2>2. (mark \o k) \o eq = mark \o (k \o eq)
    BY <1>4, ConcatAssociative
  <2>3. (mark \o (k \o eq)) \o v = mark \o ((k \o eq) \o v)
    <3>1. mark \in Seq(Token) /\ v \in Seq(Token)
      BY <1>4
    <3>2. ASSUME NEW r \in Seq(Token)
          PROVE  (mark \o r) \o v = mark \o (r \o v)
      BY <3>1, ConcatAssociative
    <3> QED BY <2>1, <3>2, Zenon
  <2>4. (k \o eq) \o v \in Seq(Token)
    BY <1>4, <2>1, ConcatProperties
  <2> QED BY <2>2, <2>3, <2>4
<1>14. Written(p, n) = y \o f
  BY <1>1, <1>2, <1>8, <1>10 DEF Written
<1>15. Plain(p) = (k \o eq) \o v
  BY <1>1 DEF Plain
<1> QED BY <1>1, <1>2, <1>12, <1>13, <1>14, <1>15

\* The parameters that decoding before splitting leaves as they were.
Sturdy(p) == p.name \in Seq(Word) /\ p.value \in Seq(Word \cup {"?", "="})

LEMMA RobustSturdy ==
    ASSUME NEW a \in Asked, Robust(a), NEW i \in DOMAIN a.parameters
    PROVE  Sturdy(a.parameters[i])
<1>1. PICK p : p = a.parameters[i]
  OBVIOUS
<1>2. p \in [name : Seq(Token \cup {"%zz"}), value : Seq(Token \cup {"%zz"})]
  <2>1. a.parameters \in Seq([name : Seq(Token \cup {"%zz"}), value : Seq(Token \cup {"%zz"})])
    BY DEF Asked
  <2> QED BY <1>1, <2>1, ElementOf
<1>3. ToSet(p.name) \subseteq Word /\ ToSet(p.value) \subseteq Word \cup {"?", "="}
  BY <1>1 DEF Robust
<1>4. ASSUME NEW T, NEW R, NEW x \in Seq(R), ToSet(x) \subseteq T
      PROVE  x \in Seq(T)
  <2>1. \A j \in DOMAIN x : x[j] \in T
    BY <1>4 DEF ToSet
  <2> QED BY <2>1
<1>5. p.name \in Seq(Token \cup {"%zz"}) /\ p.value \in Seq(Token \cup {"%zz"})
  BY <1>2
<1>6. p.name \in Seq(Word)
  BY <1>3, <1>4, <1>5
<1>7. p.value \in Seq(Word \cup {"?", "="})
  BY <1>3, <1>4, <1>5
<1> QED BY <1>1, <1>6, <1>7 DEF Sturdy

LEMMA SturdyPlain ==
    ASSUME NEW p, Sturdy(p)
    PROVE  /\ p.name \in Seq(Token) /\ p.value \in Seq(Token)
           /\ Plain(p) \in Seq(Token) /\ Plain(p) # <<>>
           /\ \A i \in DOMAIN Plain(p) : Plain(p)[i] # "&"
           /\ Before(Plain(p), "=") = p.name /\ After(Plain(p), "=") = p.value
<1>1. PICK k, v : k = p.name /\ v = p.value
  OBVIOUS
<1>2. PICK T : T = Word \cup {"?", "="}
  OBVIOUS
<1>3. /\ k \in Seq(Word) /\ v \in Seq(T)
      /\ Word \subseteq T /\ T \subseteq Token /\ "&" \notin T /\ "=" \notin Word /\ "=" \in T
  BY <1>1, <1>2, WordAssumption DEF Sturdy, Token
<1>4. k \in Seq(T)
  BY <1>3
<1>5. \A q \in Seq(T) : q \in Seq(Token)
  BY <1>3
<1>6. k \o <<"=">> \in Seq(T) /\ Len(k \o <<"=">>) = Len(k) + 1
  BY <1>3, <1>4
<1>7. PICK q : q = (k \o <<"=">>) \o v
  OBVIOUS
<1>8. q \in Seq(T) /\ Len(q) = Len(k) + 1 + Len(v)
  BY <1>3, <1>6, <1>7, ConcatProperties
<1>9. q # <<>>
  BY <1>3, <1>8
<1>10. \A i \in DOMAIN q : q[i] # "&"
  BY <1>3, <1>8
<1>11. \A i \in DOMAIN k : k[i] # "="
  BY <1>3
<1>12. Before(q, "=") = k /\ After(q, "=") = v
  BY <1>3, <1>4, <1>7, <1>11, CutAt
<1>13. Plain(p) = q
  BY <1>1, <1>7 DEF Plain
<1> QED BY <1>1, <1>3, <1>4, <1>5, <1>8, <1>9, <1>10, <1>12, <1>13

\* The parts of a query: each of its parameters is one.
LEMMA PartsOne ==
    ASSUME NEW p, Sturdy(p)
    PROVE  Parts(Plain(p), "&") = <<Plain(p)>>
<1>1. PICK x : x = Plain(p)
  OBVIOUS
<1>2. x \in Seq(Token) /\ \A i \in DOMAIN x : x[i] # "&"
  BY <1>1, SturdyPlain
<1>3. <<>> \in Seq(Token) /\ <<>> \o x = x
  BY <1>2
<1>4. Parts(<<>> \o x, "&") = Append(Front(Parts(<<>>, "&")), Last(Parts(<<>>, "&")) \o x)
  BY <1>2, <1>3, PartsConcat
<1>5. Front(<<<<>>>>) = <<>> /\ Last(<<<<>>>>) = <<>>
  BY DEF Front, Last
<1>6. Parts(x, "&") = Append(<<>>, x)
  BY <1>3, <1>4, <1>5, PartsEmpty
<1> QED BY <1>1, <1>6

LEMMA PartsMore ==
    ASSUME NEW q \in Seq(Token), NEW p, Sturdy(p)
    PROVE  /\ q \o (<<"&">> \o Plain(p)) \in Seq(Token)
           /\ Parts(q \o (<<"&">> \o Plain(p)), "&") = Append(Parts(q, "&"), Plain(p))
<1>1. PICK x : x = Plain(p)
  OBVIOUS
<1>2. x \in Seq(Token) /\ \A i \in DOMAIN x : x[i] # "&"
  BY <1>1, SturdyPlain
<1>3. "&" \in Token /\ <<"&">> \in Seq(Token)
  BY DEF Token
<1>4. PICK r : r = Append(q, "&")
  OBVIOUS
<1>5. r \in Seq(Token) /\ r = q \o <<"&">>
  BY <1>3, <1>4, AppendIsConcat
<1>6. q \o (<<"&">> \o x) = r \o x
  <2>1. (q \o <<"&">>) \o x = q \o (<<"&">> \o x)
    BY <1>2, <1>3, ConcatAssociative
  <2> QED BY <1>5, <2>1
<1>7. r \o x \in Seq(Token)
  BY <1>2, <1>5, ConcatProperties
<1>8. PICK parts, T : parts = Parts(q, "&") /\ T = Seq(Token)
  OBVIOUS
<1>9. parts \in Seq(T)
  BY <1>8, PartsReads
<1>10. Parts(r, "&") = Append(parts, <<>>)
  BY <1>3, <1>4, <1>8, PartsAppend
<1>11. Front(Append(parts, <<>>)) = parts /\ Last(Append(parts, <<>>)) = <<>>
  <2>1. <<>> \in T
    BY <1>8
  <2> QED BY <1>9, <2>1, Ends
<1>12. Parts(r \o x, "&") = Append(Front(Parts(r, "&")), Last(Parts(r, "&")) \o x)
  BY <1>2, <1>5, PartsConcat
<1>13. <<>> \o x = x
  BY <1>2
<1> QED BY <1>1, <1>6, <1>7, <1>8, <1>10, <1>11, <1>12, <1>13

\* The text written so far decodes to the path and a query of these parameters.
Decodes(x, a, n, q) ==
    /\ q \in Seq(Token)
    /\ Unescaped(x) = (a.path \o <<"?">>) \o q
    /\ Parts(q, "&") = [i \in 1 .. n |-> Plain(a.parameters[i])]

LEMMA FirstDecodes ==
    ASSUME NEW a \in Asked, NEW p, Sturdy(p), p = a.parameters[1]
    PROVE  \E q : Decodes(a.path \o Written(p, 1), a, 1, q)
<1>1. PICK x, path, w, U : x = Plain(p) /\ path = a.path /\ w = Written(p, 1) /\ U = Token \cup Escape
  OBVIOUS
<1>2. x \in Seq(Token) /\ w \in Seq(U) /\ Unescaped(w) = <<"?">> \o x
  BY <1>1, SturdyPlain, UnescapedWritten
<1>3. path \in Seq(Token) /\ path \in Seq(U) /\ <<"?">> \in Seq(Token)
  <2>1. path \in Seq(Word)
    BY <1>1 DEF Asked
  <2>2. Word \subseteq Token /\ Token \subseteq U /\ "?" \in Token
    BY <1>1 DEF Token
  <2> QED BY <2>1, <2>2
<1>4. Unescaped(path) = path
  BY <1>3, UnescapedToken
<1>5. Unescaped(path \o w) = path \o (<<"?">> \o x)
  <2>1. Unescaped(path \o w) = Unescaped(path) \o Unescaped(w)
    BY <1>2, <1>3, UnescapedConcat, Zenon
  <2> QED BY <1>2, <1>4, <2>1, Zenon
<1>6. (path \o <<"?">>) \o x = path \o (<<"?">> \o x)
  BY <1>2, <1>3, ConcatAssociative
<1>7. Parts(x, "&") = <<x>>
  BY <1>1, PartsOne
<1>8. <<x>> = [i \in 1 .. 1 |-> Plain(a.parameters[i])]
  BY <1>1
<1>9. Decodes(path \o w, a, 1, x)
  BY <1>1, <1>2, <1>5, <1>6, <1>7, <1>8 DEF Decodes
<1> QED BY <1>1, <1>9

LEMMA NextDecodes ==
    ASSUME NEW a \in Asked, NEW n \in Nat, NEW p, Sturdy(p), p = a.parameters[n + 1], n # 0,
           NEW y \in Seq(Token \cup Escape), NEW q, Decodes(y, a, n, q)
    PROVE  \E r : Decodes(y \o Written(p, n + 1), a, n + 1, r)
<1>1. PICK x, head, w, U : /\ x = Plain(p) /\ head = a.path \o <<"?">>
                           /\ w = Written(p, n + 1) /\ U = Token \cup Escape
  OBVIOUS
<1>2. x \in Seq(Token) /\ w \in Seq(U) /\ Unescaped(w) = <<"&">> \o x
  <2>1. n + 1 # 1
    OBVIOUS
  <2> QED BY <1>1, <2>1, SturdyPlain, UnescapedWritten
<1>3. head \in Seq(Token) /\ "&" \in Token
  <2>1. a.path \in Seq(Word)
    BY DEF Asked
  <2>2. Word \subseteq Token /\ "?" \in Token /\ "&" \in Token
    BY DEF Token
  <2>3. a.path \in Seq(Token) /\ <<"?">> \in Seq(Token)
    BY <2>1, <2>2
  <2> QED BY <1>1, <2>2, <2>3, ConcatProperties
<1>4. q \in Seq(Token) /\ Unescaped(y) = head \o q
  BY <1>1 DEF Decodes
<1>5. PICK m : m = <<"&">> \o x
  OBVIOUS
<1>6. m \in Seq(Token)
  <2>1. <<"&">> \in Seq(Token)
    BY <1>3
  <2> QED BY <1>2, <1>5, <2>1, ConcatProperties
<1>7. Unescaped(y \o w) = (head \o q) \o m
  <2>1. y \in Seq(U)
    BY <1>1
  <2>2. Unescaped(y \o w) = Unescaped(y) \o Unescaped(w)
    BY <1>2, <2>1, UnescapedConcat
  <2> QED BY <1>2, <1>4, <1>5, <2>2
<1>8. (head \o q) \o m = head \o (q \o m)
  BY <1>3, <1>4, <1>6, ConcatAssociative
<1>9. q \o m \in Seq(Token) /\ Parts(q \o m, "&") = Append(Parts(q, "&"), x)
  BY <1>1, <1>4, <1>5, PartsMore
<1>10. Append([i \in 1 .. n |-> Plain(a.parameters[i])], x)
           = [i \in 1 .. n + 1 |-> Plain(a.parameters[i])]
  BY <1>1
<1>11. Parts(q \o m, "&") = [i \in 1 .. n + 1 |-> Plain(a.parameters[i])]
  BY <1>9, <1>10 DEF Decodes
<1>12. Decodes(y \o w, a, n + 1, q \o m)
  BY <1>1, <1>7, <1>8, <1>9, <1>11 DEF Decodes
<1> QED BY <1>1, <1>12

LEMMA TextDecodes ==
    ASSUME NEW a \in Asked, Robust(a), NEW N \in Nat, N # 0, N = Len(a.parameters),
           DOMAIN a.parameters = 1 .. N
    PROVE  \E q : Decodes(Text(a), a, N, q)
<1>1. PICK f : /\ Writes(f, a) /\ Text(a) = f[N]
               /\ \A n \in 0 .. N : f[n] \in Seq(Token \cup Escape)
  BY TextWrites
<1>2. f[0] = a.path
  BY <1>1 DEF Writes
<1>3. ASSUME NEW n \in 1 .. N
      PROVE  f[n] = f[n - 1] \o Written(a.parameters[n], n)
  <2>1. n \in 0 .. Len(a.parameters) /\ n # 0
    OBVIOUS
  <2>2. f = [k \in 0 .. Len(a.parameters) |->
            IF k = 0 THEN a.path ELSE f[k - 1] \o Written(a.parameters[k], k)]
    BY <1>1 DEF Writes
  <2> QED BY <2>1, <2>2
<1>4. \A n \in 1 .. N : Sturdy(a.parameters[n])
  BY RobustSturdy
<1> DEFINE M == {m \in Nat : m + 1 <= N => \E q : Decodes(f[m + 1], a, m + 1, q)}
<1>5. 0 \in M
  <2>1. 1 \in 1 .. N
    OBVIOUS
  <2>2. f[1] = a.path \o Written(a.parameters[1], 1)
    <3>1. f[1] = f[1 - 1] \o Written(a.parameters[1], 1)
      BY <1>3, <2>1, Zenon
    <3>2. 1 - 1 = 0
      OBVIOUS
    <3> QED BY <1>2, <3>1, <3>2, Zenon
  <2>3. \E q : Decodes(f[1], a, 1, q)
    BY <1>4, <2>1, <2>2, FirstDecodes
  <2> QED BY <2>3
<1>6. ASSUME NEW m \in M PROVE m + 1 \in M
  <2>1. SUFFICES ASSUME (m + 1) + 1 <= N
                 PROVE  \E r : Decodes(f[(m + 1) + 1], a, (m + 1) + 1, r)
    OBVIOUS
  <2>2. PICK k : k = m + 1
    OBVIOUS
  <2>3. k \in Nat /\ k # 0 /\ k + 1 \in 1 .. N /\ (k + 1) - 1 = k /\ k \in 0 .. N
    BY <2>1, <2>2
  <2>4. PICK q : Decodes(f[k], a, k, q)
    BY <2>1, <2>2
  <2>5. PICK y, p : y = f[k] /\ p = a.parameters[k + 1]
    OBVIOUS
  <2>6. y \in Seq(Token \cup Escape) /\ Sturdy(p)
    BY <1>1, <1>4, <2>3, <2>5
  <2>7. \E r : Decodes(y \o Written(p, k + 1), a, k + 1, r)
    BY <2>3, <2>4, <2>5, <2>6, NextDecodes
  <2>8. f[k + 1] = y \o Written(p, k + 1)
    BY <1>3, <2>3, <2>5
  <2> QED BY <2>2, <2>7, <2>8
<1>7. M \in SUBSET Nat /\ \A m \in M : m + 1 \in M
  BY <1>6
<1>8. N - 1 \in Nat /\ (N - 1) + 1 = N
  OBVIOUS
<1>9. N - 1 \in M => \E q : Decodes(f[N], a, N, q)
  BY <1>8
<1> HIDE DEF M
<1>10. M = Nat
  BY <1>5, <1>7, Induct, Zenon
<1> QED BY <1>1, <1>8, <1>9, <1>10, Zenon

\* decodeUrl ends at a 0, and a text of tokens has none.
LEMMA NothingCut ==
    ASSUME NEW s, Unescaped(s) \in Seq(Token)
    PROVE  decodeUrl(s) = Unescaped(s)
<1>1. PICK x : x = Unescaped(s)
  OBVIOUS
<1>2. \A i \in DOMAIN x : x[i] # NUL
  BY <1>1, WordAssumption DEF Token, NUL
<1>3. /\ Find(x, NUL) \in 1 .. Len(x) + 1
      /\ Find(x, NUL) <= Len(x) => x[Find(x, NUL)] = NUL
  BY <1>1, FindFinds
<1>4. Find(x, NUL) = Len(x) + 1
  BY <1>1, <1>2, <1>3
<1>5. SubSeq(x, 1, Len(x)) = x
  BY <1>1
<1> QED BY <1>1, <1>4, <1>5 DEF decodeUrl, Before

\* One place only is its set's greatest and its least.
LEMMA OnePlace ==
    ASSUME NEW i \in Nat
    PROVE  Max({i}) = i /\ Min({i}) = i
BY DEF Max, Min

\* parseRequest finds the script a client asked for, of every request whose names and
\* values hold no "&", whose names hold no "=", and which names nothing twice: decoding
\* before splitting, and searching the decoded text, then do no harm.
THEOREM ScriptsFoundCorrect == ScriptsFound
<1>1. SUFFICES ASSUME NEW a \in Asked, Robust(a)
               PROVE  Parameter(parseRequest(Text(a)), Code) = Script(a)
  BY CodeAssumption DEF ScriptsFound, ScriptRead
<1>2. PICK ps, N : ps = a.parameters /\ N = Len(ps)
  OBVIOUS
<1>3. ps \in Seq([name : Seq(Token \cup {"%zz"}), value : Seq(Token \cup {"%zz"})])
  BY <1>2 DEF Asked
<1>4. N \in Nat /\ DOMAIN ps = 1 .. N
  BY <1>2, <1>3
<1>5. a.path \in Seq(Token) /\ \A i \in DOMAIN a.path : a.path[i] # "?"
  <2>1. a.path \in Seq(Word)
    BY DEF Asked
  <2> QED BY <2>1, WordAssumption DEF Token
<1>6. CASE N = 0
  <2>1. Text(a) = a.path
    <3>1. PICK f : Writes(f, a) /\ Text(a) = f[0]
      BY <1>2, <1>6, TextWrites
    <3> QED BY <1>2, <1>6, <3>1 DEF Writes
  <2>2. PICK url : url = decodeUrl(Text(a))
    OBVIOUS
  <2>3. url = a.path
    BY <1>5, <2>1, <2>2, UnescapedToken, NothingCut
  <2>4. ~(Find(url, "?") < Len(url))
    BY <1>5, <2>3, FindFinds
  <2>5. parseRequest(Text(a)).parameters = <<>>
    BY <2>2, <2>4 DEF parseRequest
  <2>6. Parameter(parseRequest(Text(a)), Code) = <<>>
    BY <2>5 DEF Parameter
  <2>7. Script(a) = <<>>
    BY <1>2, <1>4, <1>6 DEF Script
  <2> QED BY <2>6, <2>7
<1>7. CASE N # 0
  <2>1. PICK q : Decodes(Text(a), a, N, q)
    <3>1. N \in Nat /\ N = Len(a.parameters) /\ DOMAIN a.parameters = 1 .. N
      BY <1>2, <1>4, Zenon
    <3>2. \E q : Decodes(Text(a), a, N, q)
      BY <1>1, <1>7, <3>1, TextDecodes, Zenon
    <3> QED BY <3>2, Zenon
  <2>2. PICK url, head, parts : /\ url = decodeUrl(Text(a)) /\ head = a.path \o <<"?">>
                                /\ parts = Parts(q, "&")
    OBVIOUS
  <2>3. q \in Seq(Token) /\ parts = [i \in 1 .. N |-> Plain(ps[i])]
    BY <1>2, <2>1, <2>2 DEF Decodes
  <2>4. \A i \in 1 .. N : Sturdy(ps[i])
    BY <1>1, <1>2, <1>4, RobustSturdy
  <2>5. url = head \o q
    <3>1. "?" \in Token
      BY DEF Token
    <3>2. head \in Seq(Token)
      BY <1>5, <2>2, <3>1
    <3>3. Unescaped(Text(a)) = head \o q /\ head \o q \in Seq(Token)
      BY <2>1, <2>2, <2>3, <3>2, ConcatProperties DEF Decodes
    <3> QED BY <2>2, <3>3, NothingCut
  <2>6. Find(url, "?") = Len(a.path) + 1 /\ After(url, "?") = q
    <3>1. "?" \in Token
      BY DEF Token
    <3> QED BY <1>5, <2>2, <2>3, <2>5, <3>1, CutAt
  <2>7. q # <<>>
    <3>1. parts[1] = Plain(ps[1]) /\ Plain(ps[1]) # <<>>
      BY <1>4, <1>7, <2>3, <2>4, SturdyPlain
    <3>2. q = <<>> => parts[1] = <<>>
      BY <2>2, PartsEmpty
    <3> QED BY <3>1, <3>2
  <2>8. Find(url, "?") < Len(url)
    <3>1. Len(url) = (Len(a.path) + 1) + Len(q)
      BY <1>5, <2>2, <2>3, <2>5
    <3>2. Len(q) \in Nat /\ Len(q) # 0 /\ Len(a.path) \in Nat
      BY <1>5, <2>3, <2>7
    <3> QED BY <2>6, <3>1, <3>2
  <2>9. split(q, "&") = parts
    <3>1. Len(parts) = N /\ parts[N] = Plain(ps[N]) /\ Plain(ps[N]) # <<>>
      BY <1>4, <1>7, <2>3, <2>4, SturdyPlain
    <3>2. Last(parts) # <<>>
      BY <3>1 DEF Last
    <3> QED BY <2>2, <3>2 DEF split
  <2>10. PICK found : found = parseRequest(Text(a)).parameters
    OBVIOUS
  <2>11. found = [i \in 1 .. N |-> [name |-> Before(parts[i], "="), value |-> After(parts[i], "=")]]
    <3>1. found = Parameters(url)
      BY <2>2, <2>8, <2>10 DEF parseRequest
    <3>2. DOMAIN parts = 1 .. N
      BY <2>3
    <3> QED BY <2>6, <2>9, <3>1, <3>2 DEF Parameters
  <2>12. ASSUME NEW i \in 1 .. N
         PROVE  found[i].name = ps[i].name /\ found[i].value = ps[i].value
    <3>1. parts[i] = Plain(ps[i])
      BY <2>3
    <3>2. Before(parts[i], "=") = ps[i].name /\ After(parts[i], "=") = ps[i].value
      BY <2>4, <3>1, SturdyPlain
    <3> QED BY <2>11, <3>2
  <2>13. DOMAIN found = 1 .. N
    BY <2>11
  <2>14. PICK places : places = {i \in 1 .. N : ps[i].name = Code}
    OBVIOUS
  <2>15. {i \in DOMAIN found : found[i].name = Code} = places
    BY <2>12, <2>13, <2>14
  <2>16. {i \in DOMAIN a.parameters : a.parameters[i].name = Code} = places
    BY <1>2, <1>4, <2>14
  <2>17. Parameter(parseRequest(Text(a)), Code) = IF places = {} THEN <<>> ELSE found[Max(places)].value
    BY <2>10, <2>15 DEF Parameter
  <2>18. Script(a) = IF places = {} THEN <<>> ELSE ps[Min(places)].value
    BY <1>2, <2>16 DEF Script
  <2>19. CASE places = {}
    BY <2>17, <2>18, <2>19
  <2>20. CASE places # {}
    <3>1. PICK i \in places : TRUE
      BY <2>20
    <3>2. \A j \in places : j = i
      BY <1>1, <1>2, <1>4, <2>14, <3>1 DEF Robust
    <3>3. places = {i} /\ i \in 1 .. N
      BY <2>14, <3>1, <3>2
    <3>4. Max(places) = i /\ Min(places) = i
      BY <1>4, <3>3, OnePlace
    <3> QED BY <2>12, <2>17, <2>18, <2>20, <3>3, <3>4
  <2> QED BY <2>19, <2>20
<1> QED BY <1>4, <1>6, <1>7

-----------------------------------------------------------------------------
(* The types.                                                              *)

TypeInv == TypeOK /\ DOMAIN reply = Thread /\ DOMAIN asked = Thread /\ DOMAIN overlaps = Thread

\* What the proofs use of the types.
LEMMA Typed ==
    ASSUME TypeInv
    PROVE  /\ buffer \in Output /\ building \in BOOLEAN /\ cors \in Option
           /\ pc \in [Thread -> {"idle", "clear", "build", "built", "run", "collect", "respond", "done"}]
           /\ code \in [Thread -> Seq(Token)] /\ result \in [Thread -> Output]
           /\ \A t \in Thread : reply[t].cors \in Option /\ reply[t].data \in Output
           /\ alone \subseteq Thread
           /\ \A t \in Thread : asked[t] \in Ask /\ overlaps[t] \subseteq Ask
           /\ DOMAIN reply = Thread /\ DOMAIN asked = Thread /\ DOMAIN overlaps = Thread
BY DEF TypeInv, TypeOK

LEMMA Outputs == <<>> \in Output /\ \A q \in Output, w \in Printed \cup {"error"} : Append(q, w) \in Output
BY DEF Output

LEMMA InitTypes == Init => TypeInv
<1> SUFFICES ASSUME Init PROVE TypeInv
  OBVIOUS
<1>1. NoAsk \in Ask
  BY CodeAssumption DEF NoAsk
<1>2. buffer \in Output /\ building \in BOOLEAN /\ cors \in Option
  BY Outputs DEF Init
<1>3. code \in [Thread -> Seq(Token)] /\ result \in [Thread -> Output]
  <2>1. <<>> \in Seq(Token)
    OBVIOUS
  <2> QED BY <2>1, Outputs DEF Init
<1>4. DOMAIN reply = Thread /\ \A t \in Thread : reply[t].cors \in Option /\ reply[t].data \in Output
  BY Outputs DEF Init, NoReply, Option
<1>5. pc \in [Thread -> {"idle", "clear", "build", "built", "run", "collect", "respond", "done"}]
  BY DEF Init
<1>6. /\ DOMAIN asked = Thread /\ DOMAIN overlaps = Thread /\ alone \subseteq Thread
      /\ \A t \in Thread : asked[t] \in Ask /\ overlaps[t] \subseteq Ask
  BY <1>1 DEF Init
<1> QED BY <1>2, <1>3, <1>4, <1>5, <1>6 DEF TypeInv, TypeOK

\* The buffer holds outputs, whichever prints are lost.
LEMMA PrintsTyped ==
    ASSUME TypeInv, NEW t \in Thread, NEW w \in Printed \cup {"error"}
    PROVE  Prints(t, w) \subseteq Output
BY Outputs, Typed DEF Prints

LEMMA AcceptTypes ==
    ASSUME TypeInv, NEW t \in Thread, Accept(t)
    PROVE  TypeInv'
<1>1. PICK a \in Ask :
        /\ code' = [code EXCEPT ![t] = ScriptRead(a)]
        /\ asked' = [asked EXCEPT ![t] = a]
        /\ overlaps' = [u \in Thread |->
            IF u = t THEN {a} \cup {asked[v] : v \in Others(t)}
            ELSE IF u \in Others(t) THEN overlaps[u] \cup {a} ELSE overlaps[u]]
  BY DEF Accept, ScriptRead
<1>2. ScriptRead(a) \in Seq(Token)
  BY CodeAssumption, ScriptTokens
<1>3. code' \in [Thread -> Seq(Token)]
  BY <1>1, <1>2, Typed
<1>4. DOMAIN asked' = Thread /\ \A u \in Thread : asked'[u] \in Ask
  BY <1>1, Typed
<1>5. DOMAIN overlaps' = Thread /\ \A u \in Thread : overlaps'[u] \subseteq Ask
  BY <1>1, Typed DEF Others
<1>6. pc' \in [Thread -> {"idle", "clear", "build", "built", "run", "collect", "respond", "done"}]
  BY Typed DEF Accept, Goto
<1>7. alone' \subseteq Thread
  BY Typed DEF Accept
<1>8. UNCHANGED <<buffer, building, cors, result, reply>>
  BY DEF Accept
<1> QED BY <1>3, <1>4, <1>5, <1>6, <1>7, <1>8, Typed DEF TypeInv, TypeOK

LEMMA StepTypes ==
    ASSUME TypeInv, NEW t \in Thread, Step(t)
    PROVE  TypeInv'
<1>1. pc' \in [Thread -> {"idle", "clear", "build", "built", "run", "collect", "respond", "done"}]
  BY Typed DEF Step, Clear, RequestBuild, BuildCompleted, Execute, Collect, Respond, Close, Goto
<1>2. building' \in BOOLEAN
  BY Typed DEF Step, Clear, RequestBuild, BuildCompleted, Execute, Collect, Respond, Close
<1>3. cors' \in Option
  BY Typed DEF Step, Clear, RequestBuild, BuildCompleted, Execute, Collect, Respond, Close
<1>4. buffer' \in Output
  BY Typed, Outputs, PrintsTyped
     DEF Step, Clear, Cleared, RequestBuild, BuildCompleted, Execute, Collect, Respond, Close
<1>5. code' \in [Thread -> Seq(Token)]
  <2>1. CASE Execute(t)
    <3>1. code[t] \in Seq(Token) /\ code[t] # <<>>
      BY <2>1, Typed DEF Execute
    <3>2. Tail(code[t]) \in Seq(Token)
      BY <3>1
    <3> QED BY <2>1, <3>2, Typed DEF Execute
  <2>2. CASE Collect(t)
    <3>1. <<>> \in Seq(Token)
      OBVIOUS
    <3> QED BY <2>2, <3>1, Typed DEF Collect
  <2> QED BY <2>1, <2>2, Typed DEF Step, Clear, RequestBuild, BuildCompleted, Respond, Close
<1>6. result' \in [Thread -> Output]
  BY Typed, Outputs DEF Step, Clear, RequestBuild, BuildCompleted, Execute, Collect, Respond, Close
<1>7. DOMAIN reply' = Thread /\ \A u \in Thread : reply'[u].cors \in Option /\ reply'[u].data \in Output
  <2>1. CASE Respond(t)
    BY <2>1, Typed DEF Respond
  <2>2. CASE Close(t)
    BY <2>2, Typed, Outputs DEF Close, NoReply, Option
  <2> QED BY <2>1, <2>2, Typed DEF Step, Clear, RequestBuild, BuildCompleted, Execute, Collect
<1>8. /\ DOMAIN asked' = Thread /\ DOMAIN overlaps' = Thread /\ alone' \subseteq Thread
      /\ \A u \in Thread : asked'[u] \in Ask /\ overlaps'[u] \subseteq Ask
  <2>1. CASE Close(t)
    BY <2>1, Typed, CodeAssumption DEF Close, NoAsk
  <2> QED BY <2>1, Typed DEF Step, Clear, RequestBuild, BuildCompleted, Execute, Collect, Respond, history
<1> QED BY <1>1, <1>2, <1>3, <1>4, <1>5, <1>6, <1>7, <1>8 DEF TypeInv, TypeOK

\* Every reachable state has the declared types, for every set of requests: no escape
\* and no 0 is left in a script once decodeUrl has read its url.
THEOREM TypeCorrect == Spec => []TypeOK
<1>1. TypeInv /\ [Next]_vars => TypeInv'
  <2>1. SUFFICES ASSUME TypeInv, [Next]_vars PROVE TypeInv'
    OBVIOUS
  <2>2. CASE UNCHANGED vars
    BY <2>1, <2>2 DEF TypeInv, TypeOK, vars, threads, history
  <2> QED BY <2>1, <2>2, AcceptTypes, StepTypes DEF Next
<1>2. TypeInv => TypeOK
  BY DEF TypeInv
<1> QED BY <1>1, <1>2, InitTypes, PTL DEF Spec

-----------------------------------------------------------------------------
(* Whose words an answer holds.                                            *)

Active(t) == pc[t] \notin {"idle", "done"}

\* A thread knows what was asked for by those that run a script with its own.
KnowsOthers(t) ==
    Active(t) => asked[t] \in overlaps[t] /\ \A u \in Others(t) : asked[u] \in overlaps[t]

\* The words that may reach a thread's client.
Overlapping(t) == UNION {ToSet(Text(a)) : a \in overlaps[t]}

Words(t) == Overlapping(t) \cup {"error"}

LEMMA WordsOf ==
    ASSUME NEW t \in Thread, NEW a \in overlaps[t]
    PROVE  ToSet(Text(a)) \subseteq Words(t)
<1>1. ASSUME NEW w \in ToSet(Text(a))
      PROVE  w \in Overlapping(t)
  <2>1. ToSet(Text(a)) \in {ToSet(Text(b)) : b \in overlaps[t]}
    BY Zenon
  <2> QED BY <2>1 DEF Overlapping
<1> QED BY <1>1 DEF Words

OwnScript(t) == Active(t) => ToSet(code[t]) \cap Printed \subseteq ToSet(Text(asked[t]))

\* Since a thread has cleared the buffer, it holds nothing of who was answered before.
OwnOutput(t) ==
    /\ pc[t] \in {"build", "built", "run", "collect"} => ToSet(buffer) \subseteq Words(t)
    /\ pc[t] = "respond" => ToSet(result[t]) \subseteq Words(t)
    /\ pc[t] = "done" => ToSet(reply[t].data) \subseteq Words(t)

OwnInv == TypeInv /\ \A t \in Thread : KnowsOthers(t) /\ OwnScript(t) /\ OwnOutput(t)

\* What a step of one thread leaves alone.
LEMMA OthersUntouched ==
    ASSUME TypeInv, NEW t \in Thread, Accept(t) \/ Step(t), NEW u \in Thread, u # t
    PROVE  /\ pc'[u] = pc[u] /\ code'[u] = code[u] /\ result'[u] = result[u]
           /\ reply'[u] = reply[u] /\ asked'[u] = asked[u]
<1>1. CASE Accept(t)
  BY <1>1, Typed DEF Accept, Goto
<1>2. CASE Clear(t) \/ RequestBuild(t) \/ BuildCompleted(t) \/ Execute(t)
  BY <1>2, Typed DEF Clear, RequestBuild, BuildCompleted, Execute, Goto, history
<1>3. CASE Collect(t) \/ Respond(t) \/ Close(t)
  BY <1>3, Typed DEF Collect, Respond, Close, Goto, history
<1> QED BY <1>1, <1>2, <1>3 DEF Step

LEMMA AcceptOwn ==
    ASSUME OwnInv, NEW t \in Thread, Accept(t)
    PROVE  \A u \in Thread : (KnowsOthers(u) /\ OwnScript(u) /\ OwnOutput(u))'
<1>1. PICK a \in Ask :
        /\ code' = [code EXCEPT ![t] = ScriptRead(a)]
        /\ asked' = [asked EXCEPT ![t] = a]
        /\ overlaps' = [u \in Thread |->
            IF u = t THEN {a} \cup {asked[v] : v \in Others(t)}
            ELSE IF u \in Others(t) THEN overlaps[u] \cup {a} ELSE overlaps[u]]
  BY DEF Accept, ScriptRead
<1>2. /\ pc[t] = "idle" /\ pc'[t] = "clear" /\ code'[t] = ScriptRead(a) /\ asked'[t] = a
      /\ UNCHANGED <<buffer, result, reply>>
  BY <1>1, Typed DEF OwnInv, Accept, Goto, At
<1>3. \A u \in Thread : u # t =>
        /\ pc'[u] = pc[u] /\ code'[u] = code[u] /\ result'[u] = result[u]
        /\ reply'[u] = reply[u] /\ asked'[u] = asked[u]
  BY OthersUntouched DEF OwnInv
<1>4. ASSUME NEW u \in Thread
      PROVE  KnowsOthers(u)'
  <2>1. CASE u = t
    BY <1>1, <1>2, <1>3, <2>1 DEF KnowsOthers, Others
  <2>2. CASE u # t
    <3>1. SUFFICES ASSUME pc'[u] \notin {"idle", "done"}
                   PROVE  asked'[u] \in overlaps'[u] /\ \A v \in Others(u)' : asked'[v] \in overlaps'[u]
      BY DEF KnowsOthers, Active
    <3>2. pc[u] \notin {"idle", "done"} /\ u \in Others(t)
      BY <1>3, <2>2, <3>1 DEF Others
    <3>3. overlaps'[u] = overlaps[u] \cup {a}
      BY <1>1, <2>2, <3>2
    <3>4. asked[u] \in overlaps[u] /\ \A v \in Others(u) : asked[v] \in overlaps[u]
      BY <3>2 DEF OwnInv, KnowsOthers, Active
    <3>5. ASSUME NEW v \in Others(u)', v # t PROVE v \in Others(u) /\ asked'[v] = asked[v]
      BY <1>3, <3>5 DEF Others
    <3> QED BY <1>2, <1>3, <2>2, <3>3, <3>4, <3>5
  <2> QED BY <2>1, <2>2
<1>5. ASSUME NEW u \in Thread
      PROVE  OwnScript(u)'
  <2>1. CASE u = t
    <3>1. ToSet(ScriptRead(a)) \cap Printed \subseteq ToSet(Text(a))
      BY CodeAssumption, ScriptsOwn
    <3> QED BY <1>2, <2>1, <3>1 DEF OwnScript
  <2>2. CASE u # t
    <3>1. pc'[u] = pc[u] /\ code'[u] = code[u] /\ asked'[u] = asked[u]
      BY <1>3, <2>2
    <3> QED BY <3>1 DEF OwnInv, OwnScript, Active
  <2> QED BY <2>1, <2>2
<1>6. ASSUME NEW u \in Thread
      PROVE  OwnOutput(u)'
  <2>1. CASE u = t
    BY <1>2, <2>1 DEF OwnOutput
  <2>2. CASE u # t
    <3>1. overlaps[u] \subseteq overlaps'[u]
      BY <1>1, <2>2
    <3>2. Words(u) \subseteq Words(u)'
      BY <3>1 DEF Words, Overlapping
    <3>3. pc'[u] = pc[u] /\ result'[u] = result[u] /\ reply'[u] = reply[u] /\ buffer' = buffer
      BY <1>2, <1>3, <2>2
    <3> QED BY <3>2, <3>3 DEF OwnInv, OwnOutput
  <2> QED BY <2>1, <2>2
<1> QED BY <1>4, <1>5, <1>6

LEMMA ToSetAppend ==
    ASSUME NEW S, NEW q \in Seq(S), NEW x
    PROVE  ToSet(Append(q, x)) = ToSet(q) \cup {x}
<1>1. PICK T, n, r : T = S \cup {x} /\ n = Len(q) /\ r = Append(q, x)
  OBVIOUS
<1>2. q \in Seq(T) /\ x \in T /\ n \in Nat /\ DOMAIN q = 1 .. n
  BY <1>1
<1>3. DOMAIN r = 1 .. n + 1 /\ r[n + 1] = x /\ \A i \in 1 .. n : r[i] = q[i]
  BY <1>1, <1>2, AppendProperties
<1>4. \A i \in 1 .. n + 1 : i = n + 1 \/ i \in 1 .. n
  BY <1>2
<1>5. ToSet(r) = ToSet(q) \cup {x}
  BY <1>2, <1>3, <1>4 DEF ToSet
<1> QED BY <1>1, <1>5

\* The words a step adds to the buffer are of its script.
LEMMA StepPrints ==
    ASSUME OwnInv, NEW t \in Thread, Step(t), Active(t)
    PROVE  ToSet(buffer') \subseteq ToSet(buffer) \cup {"error"} \cup ToSet(Text(asked[t]))
<1>1. \A w : ToSet(Append(buffer, w)) = ToSet(buffer) \cup {w}
  BY Typed, ToSetAppend DEF OwnInv, Output
<1>2. CASE Execute(t)
  <2>1. code[t] \in Seq(Token) /\ code[t] # <<>>
    BY <1>2, Typed DEF OwnInv, Execute
  <2>2. Head(code[t]) \in ToSet(code[t])
    BY <2>1 DEF ToSet
  <2>3. Head(code[t]) \in Printed => Head(code[t]) \in ToSet(Text(asked[t]))
    BY <2>2 DEF OwnInv, OwnScript
  <2>4. buffer' = buffer \/ (Head(code[t]) \in Printed /\ buffer' = Append(buffer, Head(code[t])))
    BY <1>2 DEF Execute, Prints
  <2> QED BY <1>1, <2>3, <2>4
<1>3. CASE BuildCompleted(t)
  BY <1>1, <1>3 DEF BuildCompleted, Prints
<1>4. CASE Clear(t)
  BY <1>4 DEF Clear, Cleared, ToSet
<1> QED BY <1>2, <1>3, <1>4 DEF Step, RequestBuild, Collect, Respond, Close, Active, At

LEMMA StepOwn ==
    ASSUME OwnInv, NEW t \in Thread, Step(t), Active(t)
    PROVE  \A u \in Thread : (KnowsOthers(u) /\ OwnScript(u) /\ OwnOutput(u))'
<1>1. asked' = asked /\ overlaps' = overlaps
  BY DEF Step, Clear, RequestBuild, BuildCompleted, Execute, Collect, Respond, Close, history, Active, At
<1>2. \A u \in Thread : u # t =>
        /\ pc'[u] = pc[u] /\ code'[u] = code[u] /\ result'[u] = result[u] /\ reply'[u] = reply[u]
  BY OthersUntouched DEF OwnInv
<1>3. \A u \in Thread : Words(u)' = Words(u)
  BY <1>1 DEF Words, Overlapping
<1>4. ASSUME NEW u \in Thread
      PROVE  KnowsOthers(u)'
  <2>1. \A v \in Thread : pc'[v] \notin {"idle", "done"} => pc[v] \notin {"idle", "done"}
    BY <1>2 DEF Active
  <2> QED BY <1>1, <2>1 DEF OwnInv, KnowsOthers, Active, Others
<1>5. ASSUME NEW u \in Thread
      PROVE  OwnScript(u)'
  <2>1. ToSet(code'[u]) \subseteq ToSet(code[u])
    <3>1. CASE u = t /\ Execute(t)
      <4>1. code[t] \in Seq(Token) /\ code[t] # <<>> /\ code'[t] = Tail(code[t])
        BY <3>1, Typed DEF OwnInv, Execute
      <4>2. Len(Tail(code[t])) = Len(code[t]) - 1
            /\ \A i \in 1 .. Len(Tail(code[t])) : Tail(code[t])[i] = code[t][i + 1]
        BY <4>1
      <4> QED BY <3>1, <4>1, <4>2 DEF ToSet
    <3>2. CASE u = t /\ Collect(t)
      <4>1. code'[t] = <<>>
        BY <3>2, Typed DEF OwnInv, Collect
      <4> QED BY <3>2, <4>1 DEF ToSet
    <3>3. CASE u # t
      BY <1>2, <3>3
    <3> QED BY <3>1, <3>2, <3>3
           DEF Step, Clear, RequestBuild, BuildCompleted, Respond, Close, Active, At
  <2>2. Active(u)' => Active(u)
    BY <1>2 DEF Active
  <2> QED BY <1>1, <2>1, <2>2 DEF OwnInv, OwnScript
<1>6. ASSUME NEW u \in Thread
      PROVE  OwnOutput(u)'
  <2>1. ASSUME pc'[u] \in {"build", "built", "run", "collect"}
        PROVE  ToSet(buffer') \subseteq Words(u)
    <3>1. CASE Clear(t)
      <4>1. ToSet(buffer') = {}
        BY <3>1 DEF Clear, Cleared, ToSet
      <4> QED BY <4>1
    <3>2. CASE ~Clear(t)
      <4>1. pc[u] \in {"build", "built", "run", "collect"}
        BY <1>2, <2>1, <3>2, Typed
           DEF OwnInv, Step, RequestBuild, BuildCompleted, Execute, Collect, Respond, Close, At, Goto
      <4>2. asked[t] \in overlaps[u]
        <5>1. Active(u) /\ KnowsOthers(u)
          BY <4>1 DEF OwnInv, Active
        <5>2. u # t => t \in Others(u)
          BY DEF Others, Active
        <5> QED BY <5>1, <5>2 DEF KnowsOthers
      <4>3. ToSet(Text(asked[t])) \subseteq Words(u) /\ "error" \in Words(u)
        BY <4>2, WordsOf DEF Words
      <4>4. ToSet(buffer) \subseteq Words(u)
        BY <4>1 DEF OwnInv, OwnOutput
      <4> QED BY <4>3, <4>4, StepPrints
    <3> QED BY <3>1, <3>2
  <2>2. ASSUME pc'[u] = "respond"
        PROVE  ToSet(result'[u]) \subseteq Words(u)
    <3>1. CASE u = t
      <4>1. Collect(t)
        BY <2>2, <3>1, Typed
           DEF OwnInv, Step, Clear, RequestBuild, BuildCompleted, Execute, Respond, Close, At, Goto
      <4>2. result'[t] = buffer /\ pc[t] \in {"run", "collect"}
        BY <4>1, Typed DEF OwnInv, Collect, At
      <4> QED BY <3>1, <4>2 DEF OwnInv, OwnOutput
    <3>2. CASE u # t
      BY <1>2, <2>2, <3>2 DEF OwnInv, OwnOutput
    <3> QED BY <3>1, <3>2
  <2>3. ASSUME pc'[u] = "done"
        PROVE  ToSet(reply'[u].data) \subseteq Words(u)
    <3>1. CASE u = t
      <4>1. Respond(t)
        BY <2>3, <3>1, Typed
           DEF OwnInv, Step, Clear, RequestBuild, BuildCompleted, Execute, Collect, Close, At, Goto, Active
      <4>2. reply'[t].data = result[t] /\ pc[t] = "respond"
        BY <4>1, Typed DEF OwnInv, Respond, At
      <4> QED BY <3>1, <4>2 DEF OwnInv, OwnOutput
    <3>2. CASE u # t
      BY <1>2, <2>3, <3>2 DEF OwnInv, OwnOutput
    <3> QED BY <3>1, <3>2
  <2> QED BY <1>3, <2>1, <2>2, <2>3 DEF OwnOutput
<1> QED BY <1>4, <1>5, <1>6

LEMMA CloseOwn ==
    ASSUME OwnInv, NEW t \in Thread, Close(t)
    PROVE  \A u \in Thread : (KnowsOthers(u) /\ OwnScript(u) /\ OwnOutput(u))'
<1>1. /\ pc[t] = "done" /\ pc'[t] = "idle" /\ buffer' = buffer
      /\ \A u \in Thread : u # t => overlaps'[u] = overlaps[u]
  BY Typed DEF OwnInv, Close, At, Goto
<1>2. \A u \in Thread : u # t =>
        /\ pc'[u] = pc[u] /\ code'[u] = code[u] /\ result'[u] = result[u]
        /\ reply'[u] = reply[u] /\ asked'[u] = asked[u]
  BY OthersUntouched DEF OwnInv, Step
<1>3. SUFFICES ASSUME NEW u \in Thread PROVE (KnowsOthers(u) /\ OwnScript(u) /\ OwnOutput(u))'
  OBVIOUS
<1>4. CASE u = t
  BY <1>1, <1>4 DEF KnowsOthers, OwnScript, OwnOutput, Active
<1>5. CASE u # t
  <2>1. /\ pc'[u] = pc[u] /\ code'[u] = code[u] /\ result'[u] = result[u] /\ reply'[u] = reply[u]
        /\ asked'[u] = asked[u] /\ overlaps'[u] = overlaps[u]
    BY <1>1, <1>2, <1>5
  <2>2. KnowsOthers(u)'
    BY <1>1, <1>2, <2>1 DEF OwnInv, KnowsOthers, Active, Others
  <2>3. Words(u)' = Words(u)
    BY <2>1 DEF Words, Overlapping
  <2> QED BY <1>1, <2>1, <2>2, <2>3 DEF OwnInv, OwnScript, OwnOutput, Active
<1> QED BY <1>4, <1>5

LEMMA OwnCorrect == Spec => []OwnInv
<1>1. Init => OwnInv
  <2>1. SUFFICES ASSUME Init PROVE OwnInv
    OBVIOUS
  <2>2. \A t \in Thread : pc[t] = "idle"
    BY <2>1 DEF Init
  <2> QED BY <2>1, <2>2, InitTypes DEF OwnInv, KnowsOthers, OwnScript, OwnOutput, Active
<1>2. OwnInv /\ [Next]_vars => OwnInv'
  <2>1. SUFFICES ASSUME OwnInv, [Next]_vars PROVE OwnInv'
    OBVIOUS
  <2>2. CASE UNCHANGED vars
    BY <2>1, <2>2
       DEF OwnInv, TypeInv, TypeOK, KnowsOthers, OwnScript, OwnOutput, Active, Others, Words, Overlapping,
           vars, threads, history
  <2>3. ASSUME NEW t \in Thread, Accept(t) \/ Step(t)
        PROVE  OwnInv'
    <3>1. TypeInv'
      BY <2>1, <2>3, AcceptTypes, StepTypes DEF OwnInv
    <3>2. \A u \in Thread : (KnowsOthers(u) /\ OwnScript(u) /\ OwnOutput(u))'
      <4>1. CASE Accept(t)
        BY <2>1, <4>1, AcceptOwn
      <4>2. CASE Step(t) /\ Active(t)
        BY <2>1, <4>2, StepOwn
      <4>3. CASE Step(t) /\ ~Active(t)
        <5>1. Close(t)
          BY <4>3 DEF Step, Clear, RequestBuild, BuildCompleted, Execute, Collect, Respond, Active, At
        <5> QED BY <2>1, <5>1, CloseOwn
      <4> QED BY <2>3, <4>1, <4>2, <4>3
    <3> QED BY <3>1, <3>2 DEF OwnInv
  <2> QED BY <2>1, <2>2, <2>3 DEF Next
<1> QED BY <1>1, <1>2, PTL DEF Spec

\* Whatever script overlaps whichever, and whatever prints are lost, nobody is answered
\* with words of a request that was answered before his own arrived.
THEOREM OnlyOverlappingOutputCorrect == Spec => []OnlyOverlappingOutput
<1>1. OwnInv => OnlyOverlappingOutput
  <2>1. SUFFICES ASSUME OwnInv, NEW t \in Thread, pc[t] = "done"
                 PROVE  ToSet(reply[t].data) \ {"error"} \subseteq UNION {ToSet(Text(a)) : a \in overlaps[t]}
    BY DEF OnlyOverlappingOutput, At
  <2>2. ToSet(reply[t].data) \subseteq Words(t)
    BY <2>1 DEF OwnInv, OwnOutput
  <2>3. ToSet(reply[t].data) \ {"error"} \subseteq Overlapping(t)
    BY <2>2 DEF Words
  <2> QED BY <2>3 DEF Overlapping
<1> QED BY <1>1, OwnCorrect, PTL

-----------------------------------------------------------------------------
(* What a script that overlaps no other prints.                            *)

\* The recursion of Those.
Picks(f, s, W) ==
    f = [n \in 0 .. Len(s) |->
            IF n = 0 THEN <<>> ELSE IF s[n] \in W THEN Append(f[n - 1], s[n]) ELSE f[n - 1]]

LEMMA ThosePicks ==
    ASSUME NEW S, NEW s \in Seq(S), NEW W
    PROVE  \E f : Picks(f, s, W) /\ Those(s, W) = f[Len(s)]
<1>1. PICK N : N = Len(s) /\ N \in Nat
  OBVIOUS
<1> DEFINE D == Seq(S)
           step == [x \in (1 .. N) \X D |-> IF s[x[1]] \in W THEN Append(x[2], s[x[1]]) ELSE x[2]]
           Raw(f) == f = [n \in 0 .. Len(s) |->
               IF n = 0 THEN <<>> ELSE IF s[n] \in W THEN Append(f[n - 1], s[n]) ELSE f[n - 1]]
<1>2. <<>> \in D
  OBVIOUS
<1>3. \A n \in 1 .. N, d \in D : Append(d, s[n]) \in D
  BY <1>1, AppendProperties
<1>4. step \in [(1 .. N) \X D -> D]
  BY <1>3
<1>5. ASSUME NEW n \in 1 .. N, NEW d \in D
      PROVE  step[<<n, d>>] = IF s[n] \in W THEN Append(d, s[n]) ELSE d
  OBVIOUS
<1> HIDE DEF D, step
<1>6. \E f : Raw(f)
  <2>1. PICK f : Steps(f, N, <<>>, step)
    BY <1>1, StepsExist
  <2>2. \A n \in 0 .. N : f[n] \in D
    BY <1>1, <1>2, <1>4, <2>1, StepsValues
  <2>3. ASSUME NEW n \in 1 .. N
        PROVE  f[n] = IF s[n] \in W THEN Append(f[n - 1], s[n]) ELSE f[n - 1]
    <3>1. f[n] = step[<<n, f[n - 1]>>] /\ n - 1 \in 0 .. N
      BY <1>1, <2>1 DEF Steps
    <3>2. PICK d \in D : d = f[n - 1]
      BY <2>2, <3>1
    <3> QED BY <1>5, <3>1, <3>2
  <2>4. f[0] = <<>> /\ f = [n \in 0 .. N |-> f[n]]
    BY <1>1, <2>1 DEF Steps
  <2>5. ASSUME NEW n \in 0 .. N
        PROVE  f[n] = IF n = 0 THEN <<>>
                      ELSE IF s[n] \in W THEN Append(f[n - 1], s[n]) ELSE f[n - 1]
    <3>1. CASE n = 0
      BY <2>4, <3>1
    <3>2. CASE n # 0
      <4>1. n \in 1 .. N
        BY <1>1, <3>2
      <4> QED BY <2>3, <3>2, <4>1
    <3> QED BY <3>1, <3>2
  <2> QED BY <1>1, <2>4, <2>5
<1> DEFINE f == CHOOSE g : Raw(g)
<1>7. Raw(f)
  BY <1>6, Zenon
<1>8. Those(s, W) = f[Len(s)]
  BY DEF Those
<1>9. Picks(f, s, W)
  BY <1>7, Zenon DEF Picks
<1> HIDE DEF f
<1> QED BY <1>8, <1>9

LEMMA ThoseEmpty == \A W : Those(<<>>, W) = <<>>
<1> SUFFICES ASSUME NEW W PROVE Those(<<>>, W) = <<>>
  OBVIOUS
<1>1. PICK s : s = <<>>
  OBVIOUS
<1>2. s \in Seq({}) /\ Len(s) = 0
  BY <1>1
<1>3. PICK f : Picks(f, s, W) /\ Those(s, W) = f[Len(s)]
  BY <1>2, ThosePicks
<1>4. f[0] = <<>>
  BY <1>2, <1>3 DEF Picks
<1> QED BY <1>1, <1>2, <1>3, <1>4

LEMMA ThoseTyped ==
    ASSUME NEW S, NEW s \in Seq(S), NEW W
    PROVE  Those(s, W) \in Seq(S)
<1>1. PICK f, N : Picks(f, s, W) /\ Those(s, W) = f[N] /\ N = Len(s)
  BY ThosePicks
<1>2. N \in Nat
  BY <1>1
<1> DEFINE M == {m \in Nat : m <= N => f[m] \in Seq(S)}
<1>3. 0 \in M
  <2>1. f[0] = <<>> /\ <<>> \in Seq(S)
    BY <1>1, <1>2 DEF Picks
  <2> QED BY <2>1
<1>4. ASSUME NEW m \in M PROVE m + 1 \in M
  <2>1. SUFFICES ASSUME m + 1 <= N PROVE f[m + 1] \in Seq(S)
    OBVIOUS
  <2>2. PICK k \in 1 .. N : k = m + 1 /\ k - 1 = m /\ k \in 0 .. Len(s) /\ k # 0
    BY <1>1, <1>2, <2>1
  <2>3. f[m] \in Seq(S) /\ s[k] \in S
    BY <1>1, <2>1, <2>2
  <2>4. f[k] = IF s[k] \in W THEN Append(f[k - 1], s[k]) ELSE f[k - 1]
    <3>1. f = [j \in 0 .. Len(s) |->
              IF j = 0 THEN <<>> ELSE IF s[j] \in W THEN Append(f[j - 1], s[j]) ELSE f[j - 1]]
      BY <1>1 DEF Picks
    <3> QED BY <2>2, <3>1
  <2>5. Append(f[m], s[k]) \in Seq(S)
    BY <2>3
  <2> QED BY <2>2, <2>3, <2>4, <2>5
<1>5. M \in SUBSET Nat /\ (N \in M => f[N] \in Seq(S)) /\ \A m \in M : m + 1 \in M
  BY <1>2, <1>4
<1> HIDE DEF M
<1> QED BY <1>1, <1>2, <1>3, <1>5, Induct

LEMMA ThoseAppend ==
    ASSUME NEW S, NEW s \in Seq(S), NEW w \in S, NEW W
    PROVE  Those(Append(s, w), W) = IF w \in W THEN Append(Those(s, W), w) ELSE Those(s, W)
<1>1. PICK r, N : r = Append(s, w) /\ N = Len(s)
  OBVIOUS
<1>2. /\ N \in Nat /\ r \in Seq(S) /\ Len(r) = N + 1
      /\ r[N + 1] = w /\ \A i \in 1 .. N : r[i] = s[i]
  BY <1>1, AppendProperties
<1>3. PICK f : Picks(f, s, W) /\ Those(s, W) = f[N]
  BY <1>1, ThosePicks
<1>4. PICK g : Picks(g, r, W) /\ Those(r, W) = g[N + 1]
  BY <1>2, ThosePicks
<1>5. f[0] = <<>> /\ g[0] = <<>>
  BY <1>1, <1>2, <1>3, <1>4 DEF Picks
<1>6. ASSUME NEW n \in 1 .. N
      PROVE  f[n] = IF s[n] \in W THEN Append(f[n - 1], s[n]) ELSE f[n - 1]
  <2>1. n \in 0 .. Len(s) /\ n # 0
    BY <1>1, <1>2
  <2>2. f = [k \in 0 .. Len(s) |->
            IF k = 0 THEN <<>> ELSE IF s[k] \in W THEN Append(f[k - 1], s[k]) ELSE f[k - 1]]
    BY <1>3 DEF Picks
  <2> QED BY <2>1, <2>2
<1>7. ASSUME NEW n \in 1 .. N + 1
      PROVE  g[n] = IF r[n] \in W THEN Append(g[n - 1], r[n]) ELSE g[n - 1]
  <2>1. n \in 0 .. Len(r) /\ n # 0
    BY <1>2
  <2>2. g = [k \in 0 .. Len(r) |->
            IF k = 0 THEN <<>> ELSE IF r[k] \in W THEN Append(g[k - 1], r[k]) ELSE g[k - 1]]
    BY <1>4 DEF Picks
  <2> QED BY <2>1, <2>2
<1> DEFINE M == {m \in Nat : m <= N => g[m] = f[m]}
<1>8. 0 \in M
  BY <1>5
<1>9. ASSUME NEW m \in M PROVE m + 1 \in M
  <2>1. SUFFICES ASSUME m + 1 <= N PROVE g[m + 1] = f[m + 1]
    OBVIOUS
  <2>2. PICK k \in 1 .. N : k = m + 1 /\ k - 1 = m /\ k \in 1 .. N + 1
    BY <1>2, <2>1
  <2>3. g[m] = f[m] /\ r[k] = s[k]
    BY <1>2, <2>1
  <2> QED BY <1>6, <1>7, <2>2, <2>3
<1>10. M \in SUBSET Nat
  OBVIOUS
<1>11. g[N] = f[N]
  <2>1. (\A m \in M : m + 1 \in M) /\ (N \in M => g[N] = f[N])
    BY <1>2, <1>9
  <2> HIDE DEF M
  <2> QED BY <1>2, <1>8, <1>10, <2>1, Induct
<1>12. g[N + 1] = IF w \in W THEN Append(g[N], w) ELSE g[N]
  <2>1. PICK k \in 1 .. N + 1 : k = N + 1 /\ k - 1 = N
    BY <1>2
  <2> QED BY <1>2, <1>7, <2>1
<1> QED BY <1>1, <1>3, <1>4, <1>11, <1>12

\* The script a thread has read.
Read(t) == ScriptRead(asked[t])

\* What of the option a script's statements p have left.
OptionAfter(p) == Those(p, Option) # <<>> => cors = Last(Those(p, Option))

Answered(t, data, option) ==
    /\ data = OutputOf(Read(t))
    /\ OptionsOf(Read(t)) # <<>> => option = Last(OptionsOf(Read(t)))

\* The statements a thread has run are the first of its script, and what they printed
\* is in the buffer.
HasRun(t, p) ==
    p \in Seq(Token) /\ p \o code[t] = Read(t) /\ buffer = Those(p, Printed) /\ OptionAfter(p)

\* How far a script is that overlaps no other.
Progress(t) ==
    /\ pc[t] # "idle"
    /\ Active(t) => Others(t) = {}
    /\ pc[t] \in {"clear", "build", "built"} => code[t] = Read(t)
    /\ pc[t] \in {"build", "built"} => buffer = <<>>
    /\ pc[t] = "run" => ~Contains(Read(t), Wrong) /\ \E p : HasRun(t, p)
    /\ pc[t] = "collect" => Contains(Read(t), Wrong) /\ buffer = <<"error">>
    /\ pc[t] = "respond" => Answered(t, result[t], cors)
    /\ pc[t] = "done" => Answered(t, reply[t].data, reply[t].cors)

\* Whatever earlier scripts met, the engine builds only while a thread does.
BuilderKnown == building => \E u \in Thread : pc[u] = "built"

AloneInv == TypeInv /\ BuilderKnown /\ \A t \in alone : Progress(t)

LEMMA BuilderStays ==
    ASSUME TypeInv, BuilderKnown, NEW t \in Thread, Accept(t) \/ Step(t)
    PROVE  BuilderKnown'
<1>1. CASE Accept(t)
  <2>1. pc[t] # "built" /\ building' = building
    BY <1>1 DEF Accept, At
  <2> QED BY <1>1, <2>1, OthersUntouched DEF BuilderKnown
<1>2. CASE BuildCompleted(t)
  BY <1>2 DEF BuildCompleted, BuilderKnown
<1>3. CASE RequestBuild(t)
  <2>1. pc[t] = "build" /\ (building' => pc'[t] = "built" \/ building)
    BY <1>3, Typed DEF RequestBuild, At, Goto
  <2> QED BY <1>3, <2>1, OthersUntouched DEF BuilderKnown, Step
<1>4. CASE Clear(t) \/ Execute(t) \/ Collect(t) \/ Respond(t) \/ Close(t)
  <2>1. pc[t] # "built" /\ building' = building
    BY <1>4 DEF Clear, Execute, Collect, Respond, Close, At
  <2> QED BY <1>4, <2>1, OthersUntouched DEF BuilderKnown, Step
<1> QED BY <1>1, <1>2, <1>3, <1>4 DEF Step

\* A client that has its answer keeps it, whatever the others do.
LEMMA DoneStays ==
    ASSUME NEW t \in Thread, pc[t] = "done", Progress(t),
           pc'[t] = pc[t], reply'[t] = reply[t], asked'[t] = asked[t]
    PROVE  Progress(t)'
<1>1. Read(t)' = Read(t)
  BY DEF Read
<1>2. Answered(t, reply[t].data, reply[t].cors)
  BY DEF Progress
<1>3. Answered(t, reply[t].data, reply[t].cors)'
  BY <1>1, <1>2 DEF Answered
<1> QED BY <1>3 DEF Progress, Active

LEMMA AcceptAlone ==
    ASSUME AloneInv, NEW t \in Thread, Accept(t)
    PROVE  \A u \in alone' : Progress(u)'
<1>1. PICK a \in Ask : code' = [code EXCEPT ![t] = ScriptRead(a)] /\ asked' = [asked EXCEPT ![t] = a]
  BY DEF Accept, ScriptRead
<1>2. pc[t] = "idle" /\ pc'[t] = "clear" /\ code'[t] = ScriptRead(a) /\ asked'[t] = a
  BY <1>1, Typed DEF AloneInv, Accept, Goto, At
<1>3. alone' = IF Others(t) = {} THEN alone \cup {t} ELSE alone \ Others(t)
  BY DEF Accept
<1>4. \A u \in Thread : u # t => pc'[u] = pc[u] /\ reply'[u] = reply[u] /\ asked'[u] = asked[u]
  BY OthersUntouched DEF AloneInv
<1>5. SUFFICES ASSUME NEW u \in alone' PROVE Progress(u)'
  OBVIOUS
<1>6. u \in Thread
  BY <1>3, Typed DEF AloneInv
<1>7. CASE u = t
  <2>1. Others(t) = {}
    BY <1>2, <1>3, <1>7 DEF AloneInv, Progress
  <2>2. Others(t)' = {}
    BY <1>4, <2>1 DEF Others
  <2> QED BY <1>2, <1>7, <2>2 DEF Progress, Read, Active
<1>8. CASE u # t
  <2>1. u \in alone /\ u \notin Others(t)
    BY <1>3, <1>8
  <2>2. Progress(u)
    BY <2>1 DEF AloneInv
  <2>3. pc[u] = "done"
    BY <1>6, <1>8, <2>1, <2>2 DEF Others, Progress
  <2> QED BY <1>4, <1>6, <1>8, <2>2, <2>3, DoneStays
<1> QED BY <1>7, <1>8

LEMMA CloseAlone ==
    ASSUME AloneInv, NEW t \in Thread, Close(t)
    PROVE  \A u \in alone' : Progress(u)'
<1>1. /\ alone' = alone \ {t} /\ pc[t] = "done" /\ pc'[t] = "idle"
      /\ UNCHANGED <<buffer, cors>>
  BY Typed DEF AloneInv, Close, At, Goto
<1>2. \A u \in Thread : u # t =>
        /\ pc'[u] = pc[u] /\ code'[u] = code[u] /\ result'[u] = result[u]
        /\ reply'[u] = reply[u] /\ asked'[u] = asked[u]
  BY OthersUntouched DEF AloneInv, Step
<1>3. SUFFICES ASSUME NEW u \in alone, u # t PROVE Progress(u)'
  BY <1>1
<1>4. u \in Thread /\ Progress(u)
  BY <1>3, Typed DEF AloneInv
<1>5. Others(u)' = Others(u)
  BY <1>1, <1>2 DEF Others
<1>6. /\ pc'[u] = pc[u] /\ code'[u] = code[u] /\ result'[u] = result[u]
      /\ reply'[u] = reply[u] /\ asked'[u] = asked[u]
  BY <1>2, <1>3, <1>4
<1>7. Read(u)' = Read(u)
  BY <1>6 DEF Read
<1>8. (\E p : HasRun(u, p)) => (\E p : HasRun(u, p))'
  BY <1>1, <1>6, <1>7 DEF HasRun, OptionAfter
<1>9. /\ Answered(u, result[u], cors) => Answered(u, result[u], cors)'
      /\ Answered(u, reply[u].data, reply[u].cors) => Answered(u, reply[u].data, reply[u].cors)'
  BY <1>1, <1>6, <1>7 DEF Answered
<1> QED BY <1>1, <1>4, <1>5, <1>6, <1>7, <1>8, <1>9 DEF Progress, Active

\* A statement of a script that overlaps no other.
LEMMA ExecuteAlone ==
    ASSUME AloneInv, NEW t \in alone, Execute(t)
    PROVE  Progress(t)'
<1>1. t \in Thread /\ Progress(t) /\ pc[t] = "run"
  BY Typed DEF AloneInv, Execute, At
<1>2. PICK p : HasRun(t, p)
  BY <1>1 DEF Progress
<1>3. PICK w, rest, q : w = Head(code[t]) /\ rest = Tail(code[t]) /\ q = Append(p, w)
  OBVIOUS
<1>4. code[t] \in Seq(Token) /\ code[t] # <<>> /\ p \in Seq(Token)
  BY <1>1, <1>2, Typed DEF AloneInv, Execute, HasRun
<1>5. w \in Token /\ rest \in Seq(Token) /\ code[t] = <<w>> \o rest
  BY <1>3, <1>4
<1>6. q \in Seq(Token) /\ q \o rest = p \o code[t]
  <2>1. q = p \o <<w>> /\ <<w>> \in Seq(Token)
    BY <1>3, <1>4, <1>5, AppendIsConcat
  <2> QED BY <1>4, <1>5, <2>1, ConcatAssociative
<1>7. Others(t) = {}
  BY <1>1 DEF Progress, Active
<1>8. /\ buffer' = IF w \in Printed THEN Append(buffer, w) ELSE buffer
      /\ cors' = IF w \in Option THEN w ELSE cors
      /\ code'[t] = rest
  BY <1>1, <1>3, <1>7, Typed DEF AloneInv, Execute, Prints
<1>9. pc' = pc /\ asked' = asked
  BY DEF Execute, history
<1>10. ASSUME NEW W
       PROVE  Those(q, W) = IF w \in W THEN Append(Those(p, W), w) ELSE Those(p, W)
  <2>1. Those(Append(p, w), W) = IF w \in W THEN Append(Those(p, W), w) ELSE Those(p, W)
    BY <1>4, <1>5, ThoseAppend, Zenon
  <2> QED BY <1>3, <2>1
<1>11. buffer' = Those(q, Printed)
  BY <1>2, <1>8, <1>10 DEF HasRun
<1>12. OptionAfter(q)'
  <2>1. Those(q, Option) = IF w \in Option THEN Append(Those(p, Option), w) ELSE Those(p, Option)
    BY <1>10
  <2>2. CASE w \in Option
    <3>1. Those(p, Option) \in Seq(Token)
      BY <1>4, ThoseTyped
    <3>2. Last(Append(Those(p, Option), w)) = w
      BY <1>5, <3>1, AppendProperties DEF Last
    <3> QED BY <1>8, <2>1, <2>2, <3>2 DEF OptionAfter
  <2>3. CASE w \notin Option
    BY <1>2, <1>8, <2>1, <2>3 DEF HasRun, OptionAfter
  <2> QED BY <2>2, <2>3
<1>13. Read(t)' = Read(t) /\ Others(t)' = {}
  BY <1>7, <1>9 DEF Read, Others
<1>14. HasRun(t, q)'
  BY <1>2, <1>6, <1>8, <1>11, <1>12, <1>13 DEF HasRun
<1> QED BY <1>1, <1>9, <1>13, <1>14 DEF Progress, Active

LEMMA CollectAlone ==
    ASSUME AloneInv, NEW t \in alone, Collect(t)
    PROVE  Progress(t)'
<1>1. t \in Thread /\ Progress(t)
  BY Typed DEF AloneInv
<1>2. /\ pc'[t] = "respond" /\ result'[t] = buffer /\ cors' = cors /\ asked' = asked
      /\ \A u \in Thread : u # t => pc'[u] = pc[u]
  BY <1>1, Typed DEF AloneInv, Collect, Goto, history
<1>3. Answered(t, buffer, cors)
  <2>1. CASE pc[t] = "collect"
    BY <1>1, <2>1 DEF Progress, Answered, OutputOf, OptionsOf
  <2>2. CASE pc[t] = "run" /\ code[t] = <<>>
    <3>1. PICK p : HasRun(t, p)
      BY <1>1, <2>2 DEF Progress
    <3>2. p = Read(t)
      BY <2>2, <3>1 DEF HasRun
    <3> QED BY <1>1, <2>2, <3>1, <3>2 DEF Progress, HasRun, OptionAfter, Answered, OutputOf, OptionsOf
  <2> QED BY <2>1, <2>2 DEF Collect, At
<1>4. Read(t)' = Read(t) /\ Others(t)' = Others(t)
  BY <1>2 DEF Read, Others
<1>5. Answered(t, result[t], cors)'
  BY <1>2, <1>3, <1>4 DEF Answered
<1>6. Others(t) = {}
  BY <1>1 DEF Progress, Active, Collect, At
<1> QED BY <1>2, <1>4, <1>5, <1>6 DEF Progress, Active

LEMMA StepAlone ==
    ASSUME AloneInv, NEW t \in alone, Step(t), Active(t)
    PROVE  Progress(t)'
<1>1. t \in Thread /\ Progress(t)
  BY Typed DEF AloneInv
<1>2. asked' = asked /\ Read(t)' = Read(t)
  BY DEF Step, Clear, RequestBuild, BuildCompleted, Execute, Collect, Respond, Close, history,
         Active, At, Read
<1>3. Others(t) = {} /\ Others(t)' = {}
  <2>1. \A u \in Thread : u # t => pc'[u] = pc[u]
    BY <1>1, OthersUntouched DEF AloneInv
  <2>2. Others(t) = {}
    BY <1>1 DEF Progress
  <2> QED BY <2>1, <2>2 DEF Others
<1>4. CASE Clear(t)
  <2>1. pc[t] = "clear" /\ pc'[t] = "build" /\ buffer' = <<>> /\ code' = code
    BY <1>1, <1>4, Typed DEF AloneInv, Clear, Cleared, At, Goto
  <2> QED BY <1>1, <1>2, <1>3, <2>1 DEF Progress, Active
<1>5. CASE RequestBuild(t)
  <2>1. pc[t] = "build" /\ buffer' = buffer /\ code' = code
    BY <1>5 DEF RequestBuild, At
  <2>2. ~building
    <3>1. \A u \in Thread : u # t => pc[u] # "built"
      BY <1>3 DEF Others
    <3> QED BY <2>1, <3>1 DEF AloneInv, BuilderKnown
  <2>3. pc'[t] = "built"
    BY <1>1, <1>5, <2>2, Typed DEF AloneInv, RequestBuild, Goto
  <2> QED BY <1>1, <1>2, <1>3, <2>1, <2>3 DEF Progress, Active
<1>6. CASE BuildCompleted(t)
  <2>1. pc[t] = "built" /\ code' = code /\ cors' = cors /\ code[t] = Read(t) /\ buffer = <<>>
    BY <1>1, <1>6 DEF BuildCompleted, At, Progress
  <2>2. CASE Compiles(t)
    <3>1. pc'[t] = "run" /\ buffer' = buffer
      BY <1>1, <1>6, <2>2, Typed DEF AloneInv, BuildCompleted, Goto
    <3>2. ~Contains(Read(t), Wrong)
      BY <2>1, <2>2 DEF Compiles
    <3>3. <<>> \in Seq(Token) /\ <<>> \o code[t] = code[t]
      BY <1>1, Typed DEF AloneInv
    <3>4. HasRun(t, <<>>)'
      BY <1>2, <2>1, <3>1, <3>3, ThoseEmpty DEF HasRun, OptionAfter
    <3> QED BY <1>2, <1>3, <3>1, <3>2, <3>4 DEF Progress, Active
  <2>3. CASE ~Compiles(t)
    <3>1. pc'[t] = "collect" /\ buffer' = Append(buffer, "error")
      BY <1>1, <1>3, <1>6, <2>3, Typed DEF AloneInv, BuildCompleted, Goto, Prints
    <3>2. Contains(Read(t), Wrong)
      BY <2>1, <2>3 DEF Compiles
    <3>3. buffer' = <<"error">>
      BY <2>1, <3>1
    <3> QED BY <1>2, <1>3, <3>1, <3>2, <3>3 DEF Progress, Active
  <2> QED BY <2>2, <2>3
<1>7. CASE Respond(t)
  <2>1. pc[t] = "respond" /\ pc'[t] = "done" /\ reply'[t] = [cors |-> cors, data |-> result[t]]
    BY <1>1, <1>7, Typed DEF AloneInv, Respond, At, Goto
  <2>2. Answered(t, result[t], cors)
    BY <1>1, <2>1 DEF Progress
  <2>3. Answered(t, reply[t].data, reply[t].cors)'
    BY <1>2, <2>1, <2>2 DEF Answered
  <2> QED BY <2>1, <2>3 DEF Progress, Active
<1> QED BY <1>4, <1>5, <1>6, <1>7, ExecuteAlone, CollectAlone DEF Step, Close, Active, At

LEMMA AloneCorrect == Spec => []AloneInv
<1>1. Init => AloneInv
  BY InitTypes DEF Init, AloneInv, BuilderKnown
<1>2. AloneInv /\ [Next]_vars => AloneInv'
  <2>1. SUFFICES ASSUME AloneInv, [Next]_vars PROVE AloneInv'
    OBVIOUS
  <2>2. CASE UNCHANGED vars
    BY <2>1, <2>2
       DEF AloneInv, TypeInv, TypeOK, BuilderKnown, Progress, HasRun, OptionAfter, Answered, Read,
           Active, Others, vars, threads, history
  <2>3. ASSUME NEW t \in Thread, Accept(t) \/ Step(t)
        PROVE  AloneInv'
    <3>1. TypeInv' /\ BuilderKnown'
      BY <2>1, <2>3, AcceptTypes, StepTypes, BuilderStays DEF AloneInv
    <3>2. \A u \in alone' : Progress(u)'
      <4>1. CASE Accept(t)
        BY <2>1, <4>1, AcceptAlone
      <4>2. CASE Step(t) /\ Active(t)
        <5>1. alone' = alone
          BY <4>2 DEF Step, Clear, RequestBuild, BuildCompleted, Execute, Collect, Respond, Close,
                      history, Active, At
        <5>2. ASSUME NEW u \in alone, u # t
              PROVE  Progress(u)'
          <6>1. u \in Thread /\ Progress(u)
            BY <2>1, Typed DEF AloneInv
          <6>2. t \in Others(u)
            BY <4>2, <5>2 DEF Others, Active
          <6>3. pc[u] = "done"
            BY <6>1, <6>2 DEF Progress, Active
          <6> QED BY <2>1, <2>3, <5>2, <6>1, <6>3, OthersUntouched, DoneStays DEF AloneInv
        <5> QED BY <2>1, <4>2, <5>1, <5>2, StepAlone
      <4>3. CASE Step(t) /\ ~Active(t)
        <5>1. Close(t)
          BY <4>3 DEF Step, Clear, RequestBuild, BuildCompleted, Execute, Collect, Respond, Active, At
        <5> QED BY <2>1, <5>1, CloseAlone
      <4> QED BY <2>3, <4>1, <4>2, <4>3
    <3> QED BY <3>1, <3>2 DEF AloneInv
  <2> QED BY <2>1, <2>2, <2>3 DEF Next
<1> QED BY <1>1, <1>2, PTL DEF Spec

\* A client whose script overlaps no other is answered with what its script prints,
\* whatever the buffer and the engine were left with.
THEOREM UndisturbedScriptAnswersCorrect == Spec => []UndisturbedScriptAnswers
<1>1. AloneInv => UndisturbedScriptAnswers
  <2>1. SUFFICES ASSUME AloneInv, NEW t \in alone, pc[t] = "done", Robust(asked[t])
                 PROVE  LET script == Script(asked[t]) IN
                        /\ reply[t].data = OutputOf(script)
                        /\ OptionsOf(script) # <<>> => reply[t].cors = Last(OptionsOf(script))
    BY DEF UndisturbedScriptAnswers, At
  <2>2. asked[t] \in Ask
    BY <2>1, Typed DEF AloneInv
  <2>3. Script(asked[t]) = Read(t)
    BY <2>1, <2>2, ScriptsFoundCorrect DEF ScriptsFound, Read
  <2>4. Answered(t, reply[t].data, reply[t].cors)
    BY <2>1 DEF AloneInv, Progress
  <2> QED BY <2>3, <2>4 DEF Answered
<1> QED BY <1>1, AloneCorrect, PTL
=============================================================================
