---------------------------- MODULE RouterProofs ----------------------------
(***************************************************************************)
(* What sortPlugins makes of the plugins and what handleClient answers     *)
(* with, for any plugins and any number of threads that scan the table     *)
(* while scripts switch plugins.  What an active flag is at one place is   *)
(* read when the scan passes it; the proofs are about what is still known  *)
(* of it then.                                                             *)
(***************************************************************************)
EXTENDS Router, TLAPS, WellFoundedInduction

\* What sortPlugins makes of the plugins.
Table == sortPlugins(Plugins)

Entry(p) ==
    /\ p = [name |-> p.name, methods |-> p.methods, suburl |-> p.suburl, active |-> p.active]
    /\ Len(p.suburl) \in Nat

\* A table of as many plugins, and no plugin before one with a longer suburl.
Sorted ==
    /\ Len(Plugins) \in Nat
    /\ DOMAIN Table = Places
    /\ \A i \in Places : Entry(Table[i])
    /\ Ordered(Table)

\* As much of the types as the proofs need.
Types ==
    /\ DOMAIN plugins = Places
    /\ \A i \in Places : Entry(plugins[i])
    /\ pc \in [Thread -> {"idle", "scan", "script", "done"}]
    /\ req \in [Thread -> Requests]
    /\ pos \in [Thread -> 1 .. Len(Plugins) + 1]
    /\ DOMAIN answer = Thread
    /\ steady \in [Thread -> SUBSET Places]

\* Nothing but the active flags of the table is changed.
TableKept ==
    \A i \in Places : /\ plugins[i].name = Table[i].name
                      /\ plugins[i].methods = Table[i].methods
                      /\ plugins[i].suburl = Table[i].suburl

Shape == Types /\ TableKept

\* A place that is steady is active, and a scan has not passed it if it matches.
SteadyActive == \A t \in Thread : \A i \in steady[t] : plugins[i].active

Ahead(t) ==
    pc[t] = "scan" => \A i \in steady[t] : Matches(plugins[i], req[t]) => i >= pos[t]

\* MostSpecificAnswers, of one thread.
AnsweredBest(t) ==
    pc[t] \in {"script", "done"} =>
        \A i \in steady[t] : Matches(plugins[i], req[t]) =>
            /\ answer[t] # 0
            /\ Len(plugins[i].suburl) <= Len(plugins[answer[t]].suburl)

AnswerInv ==
    /\ Shape /\ SteadyActive
    /\ \A t \in Thread : Ahead(t) /\ AnsweredBest(t) /\ answer[t] \in Places \cup {0}

Inactive(n, i) == plugins[i].name = n => ~plugins[i].active

\* A call that switches the name n off, and has done so at the places before p.
CallOff(t, n, p) ==
    /\ t \in Thread /\ pc[t] = "script" /\ ~req[t].active
    /\ n = req[t].name /\ p = pos[t]
    /\ ~SwitchingOn(n)
    /\ \A i \in Places : i < p => Inactive(n, i)

AloneSwitchesOff == \A t \in alone : \E n, p : CallOff(t, n, p)

OffInactive ==
    \A n \in off : ~SwitchingOn(n) /\ \A i \in Places : Inactive(n, i)

OffInv == Shape /\ AloneSwitchesOff /\ OffInactive
-----------------------------------------------------------------------------
(* The order of the table.                                                 *)

\* Every set of naturals has a least element.
LEMMA Least ==
    ASSUME NEW S \in SUBSET Nat, S # {}
    PROVE  \E m \in S : \A k \in S : m <= k
<1> DEFINE R == {ss \in Nat \X Nat : ss[1] < ss[2]}
<1>1. IsWellFoundedOn(R, Nat)
  BY NatLessThanWellFounded, Zenon DEF OpToRel
<1> HIDE DEF R
<1>2. PICK x \in S : \A y \in S : ~ (<<y, x>> \in R)
  BY <1>1, WFMin
<1>3. \A y \in S : ~(y < x)
  BY <1>2 DEF R
<1> QED BY <1>3

\* Induction.
LEMMA Induct ==
    ASSUME NEW S \in SUBSET Nat, 0 \in S, \A n \in S : n + 1 \in S
    PROVE  S = Nat
<1>1. SUFFICES ASSUME Nat \ S # {} PROVE FALSE
  OBVIOUS
<1>2. PICK m \in Nat \ S : \A k \in Nat \ S : m <= k
  BY <1>1, Least
<1>3. m # 0 /\ m - 1 \in S
  BY <1>2
<1> QED BY <1>2, <1>3

\* A bounded set of naturals has a greatest one.
LEMMA Greatest ==
    ASSUME NEW S \in SUBSET Nat, S # {}, NEW N \in Nat, \A k \in S : k <= N
    PROVE  Max(S) \in S /\ \A k \in S : Max(S) >= k
<1> DEFINE T == {N - k : k \in S}
<1>1. T \in SUBSET Nat /\ T # {}
  <2>1. \A k \in S : k \in Nat /\ N - k \in Nat
    OBVIOUS
  <2>2. PICK k \in S : TRUE
    OBVIOUS
  <2>3. N - k \in T
    BY <2>2
  <2> QED BY <2>1, <2>3
<1>2. PICK d \in T : \A e \in T : d <= e
  BY <1>1, Least
<1>3. \E x \in S : \A y \in S : x >= y
  <2>1. PICK x \in S : d = N - x
    BY <1>2
  <2> QED BY <1>2, <2>1
<1> QED BY <1>3 DEF Max

LEMMA InsertKeeps ==
    ASSUME NEW P, \A p \in P : Len(p.suburl) \in Nat,
           NEW table \in Seq(P), Ordered(table), NEW p \in P
    PROVE  /\ Insert(table, p) \in Seq(P)
           /\ Len(Insert(table, p)) = Len(table) + 1
           /\ Ordered(Insert(table, p))
           /\ ToSet(Insert(table, p)) = ToSet(table) \cup {p}
<1> DEFINE S == {0} \cup {i \in DOMAIN table : ~Before(p, table[i])}
<1>1. PICK k : k = PlaceBefore(table, p)
  OBVIOUS
<1>2. k \in S /\ \A i \in S : k >= i
  <2>1. S \in SUBSET Nat /\ S # {} /\ Len(table) \in Nat /\ \A i \in S : i <= Len(table)
    OBVIOUS
  <2>2. k = Max(S)
    BY <1>1 DEF PlaceBefore
  <2> HIDE DEF S
  <2> QED BY <2>1, <2>2, Greatest
<1>9. k \in 0 .. Len(table)
  BY <1>2
<1>3. PICK longer : longer = SubSeq(table, 1, k) \o <<p>> \o SubSeq(table, k + 1, Len(table))
  OBVIOUS
<1>4. /\ longer \in Seq(P) /\ Len(longer) = Len(table) + 1
      /\ \A i \in 1 .. Len(table) + 1 : longer[i] = IF i <= k THEN table[i] ELSE IF i = k + 1 THEN p ELSE table[i - 1]
  <2>1. PICK left, right : left = SubSeq(table, 1, k) /\ right = SubSeq(table, k + 1, Len(table))
    OBVIOUS
  <2>2. left \in Seq(P) /\ Len(left) = k /\ \A i \in 1 .. k : left[i] = table[i]
    BY <1>9, <2>1
  <2>3. /\ right \in Seq(P) /\ Len(right) = Len(table) - k
        /\ \A i \in 1 .. Len(table) - k : right[i] = table[k + i]
    BY <1>9, <2>1
  <2>4. PICK begin : begin = left \o <<p>>
    OBVIOUS
  <2>5. begin \in Seq(P) /\ Len(begin) = k + 1 /\ begin[k + 1] = p /\ \A i \in 1 .. k : begin[i] = table[i]
    BY <1>9, <2>2, <2>4
  <2>6. longer = begin \o right
    BY <1>3, <2>1, <2>4
  <2>7. longer \in Seq(P) /\ Len(longer) = Len(table) + 1
    BY <1>9, <2>3, <2>5, <2>6
  <2>8. ASSUME NEW i \in 1 .. Len(table) + 1
        PROVE  longer[i] = IF i <= k THEN table[i] ELSE IF i = k + 1 THEN p ELSE table[i - 1]
    <3>1. CASE i <= k + 1
      BY <1>9, <2>5, <2>6, <2>8, <3>1
    <3>2. CASE i > k + 1
      <4>1. PICK j \in 1 .. Len(right) : i = Len(begin) + j
        <5>1. i - (k + 1) \in 1 .. Len(table) - k
          BY <1>9, <2>8, <3>2
        <5>2. i = k + 1 + (i - (k + 1))
          BY <1>9, <2>8
        <5> QED BY <2>3, <2>5, <5>1, <5>2
      <4>2. longer[i] = right[j]
        BY <2>3, <2>5, <2>6, <4>1
      <4>3. right[j] = table[k + j] /\ k + j = i - 1
        BY <1>9, <2>3, <2>5, <4>1
      <4> QED BY <1>9, <2>8, <3>2, <4>2, <4>3
    <3> QED BY <1>9, <2>8, <3>1, <3>2
  <2> QED BY <2>7, <2>8
<1>5. ToSet(longer) = ToSet(table) \cup {p}
  <2>1. \A i \in DOMAIN table : table[i] \in ToSet(longer)
    <3>1. \A i \in DOMAIN table : IF i <= k THEN longer[i] = table[i] ELSE longer[i + 1] = table[i]
      BY <1>4, <1>9
    <3> QED BY <1>4, <1>9, <3>1 DEF ToSet
  <2>2. p \in ToSet(longer)
    <3>1. k + 1 \in DOMAIN longer /\ longer[k + 1] = p
      BY <1>4, <1>9
    <3> QED BY <3>1 DEF ToSet
  <2>3. ASSUME NEW i \in DOMAIN longer
        PROVE  longer[i] \in ToSet(table) \cup {p}
    <3>1. i \in 1 .. Len(table) + 1
      BY <1>4
    <3>2. CASE i <= k
      <4>1. longer[i] = table[i] /\ i \in DOMAIN table
        BY <1>4, <1>9, <3>1, <3>2
      <4> QED BY <4>1 DEF ToSet
    <3>3. CASE i = k + 1
      BY <1>4, <1>9, <3>1, <3>3
    <3>4. CASE i > k + 1
      <4>1. longer[i] = table[i - 1] /\ i - 1 \in DOMAIN table
        BY <1>4, <1>9, <3>1, <3>4
      <4> QED BY <4>1 DEF ToSet
    <3> QED BY <1>9, <3>1, <3>2, <3>3, <3>4
  <2> QED BY <2>1, <2>2, <2>3 DEF ToSet
<1>6. Ordered(longer)
  <2>1. \A i \in DOMAIN table : table[i] \in P
    OBVIOUS
  <2>2. \A i \in DOMAIN table : i > k => Before(p, table[i])
    BY <1>2
  <2>3. \A i \in DOMAIN table : i <= k => ~Before(p, table[i])
    <3>1. CASE k = 0
      BY <3>1
    <3>2. CASE k # 0
      <4>1. ~Before(p, table[k]) /\ k \in DOMAIN table
        BY <1>2, <3>2
      <4>2. \A i \in DOMAIN table : i < k => ~Before(table[k], table[i])
        BY <4>1 DEF Ordered
      <4> QED BY <2>1, <4>1, <4>2 DEF Before
    <3> QED BY <3>1, <3>2
  <2>4. SUFFICES ASSUME NEW i \in DOMAIN longer, NEW j \in DOMAIN longer, i < j
                 PROVE  ~Before(longer[j], longer[i])
    BY DEF Ordered
  <2>5. i \in 1 .. Len(table) + 1 /\ j \in 1 .. Len(table) + 1
    BY <1>4
  <2>6. CASE i # k + 1 /\ j # k + 1
    <3>1. PICK a \in DOMAIN table : longer[i] = table[a] /\ a = IF i <= k THEN i ELSE i - 1
      BY <1>4, <1>9, <2>5, <2>6
    <3>2. PICK b \in DOMAIN table : longer[j] = table[b] /\ b = IF j <= k THEN j ELSE j - 1
      BY <1>4, <1>9, <2>5, <2>6
    <3>3. a < b
      BY <1>9, <2>4, <2>5, <2>6, <3>1, <3>2
    <3> QED BY <3>1, <3>2, <3>3 DEF Ordered
  <2>7. CASE j = k + 1
    <3>1. i <= k /\ i \in DOMAIN table /\ longer[i] = table[i] /\ longer[j] = p
      BY <1>4, <1>9, <2>4, <2>5, <2>7
    <3> QED BY <2>3, <3>1
  <2>8. CASE i = k + 1
    <3>1. PICK b \in DOMAIN table : longer[j] = table[b] /\ b > k /\ longer[i] = p
      <4>1. j - 1 \in DOMAIN table /\ longer[j] = table[j - 1] /\ j - 1 > k /\ longer[i] = p
        BY <1>4, <1>9, <2>4, <2>5, <2>8
      <4> QED BY <4>1
    <3>2. Before(p, table[b]) /\ table[b] \in P
      BY <2>1, <2>2, <3>1
    <3> QED BY <3>1, <3>2 DEF Before
  <2> QED BY <2>6, <2>7, <2>8
<1> QED BY <1>1, <1>3, <1>4, <1>5, <1>6 DEF Insert


\* The tables sortPlugins goes through, and the first n of them.
Sorts(table) == CHOOSE f : f = [n \in 0 .. Len(table) |-> IF n = 0 THEN <<>> ELSE Insert(f[n - 1], table[n])]

FirstSorts(table, f, n) ==
    f = [i \in 0 .. n |-> IF i = 0 THEN <<>> ELSE Insert(f[i - 1], table[i])]

LEMMA FirstSortsExist ==
    ASSUME NEW table, NEW n \in Nat
    PROVE  \E f : FirstSorts(table, f, n)
<1> DEFINE S == {m \in Nat : \E f : FirstSorts(table, f, m)}
<1>1. 0 \in S
  <2>1. PICK f : f = [i \in 0 .. 0 |-> <<>>]
    OBVIOUS
  <2>2. FirstSorts(table, f, 0)
    BY <2>1 DEF FirstSorts
  <2> QED BY <2>2
<1>2. ASSUME NEW m \in S
      PROVE  m + 1 \in S
  <2>1. PICK f : FirstSorts(table, f, m)
    OBVIOUS
  <2>2. PICK g : g = [i \in 0 .. m + 1 |-> IF i = m + 1 THEN Insert(f[m], table[m + 1]) ELSE f[i]]
    OBVIOUS
  <2>3. ASSUME NEW i \in 0 .. m + 1
        PROVE  g[i] = IF i = 0 THEN <<>> ELSE Insert(g[i - 1], table[i])
    <3>1. CASE i = 0
      BY <2>1, <2>2, <3>1 DEF FirstSorts
    <3>2. CASE i # 0 /\ i # m + 1
      <4>1. i \in 0 .. m /\ i - 1 \in 0 .. m
        BY <3>2
      <4>2. f[i] = Insert(f[i - 1], table[i])
        BY <2>1, <3>2, <4>1 DEF FirstSorts
      <4>3. g[i] = f[i] /\ g[i - 1] = f[i - 1]
        BY <2>2, <4>1
      <4> QED BY <3>2, <4>2, <4>3
    <3>3. CASE i = m + 1
      <4>1. g[i] = Insert(f[m], table[i]) /\ i # 0
        BY <2>2, <3>3
      <4>2. g[i - 1] = f[m]
        BY <2>2, <3>3
      <4> QED BY <4>1, <4>2
    <3> QED BY <3>1, <3>2, <3>3
  <2>4. g = [i \in 0 .. m + 1 |-> g[i]]
    BY <2>2
  <2>5. FirstSorts(table, g, m + 1)
    BY <2>3, <2>4 DEF FirstSorts
  <2> QED BY <2>5
<1>3. S = Nat
  <2>1. S \in SUBSET Nat
    OBVIOUS
  <2> HIDE DEF S
  <2> QED BY <1>1, <1>2, <2>1, Induct
<1> QED BY <1>3

\* What a sort of the first n plugins has to be.
SortOf(P, table, n, sorted) ==
    /\ sorted \in Seq(P) /\ Len(sorted) = n
    /\ Ordered(sorted)
    /\ ToSet(sorted) = {table[i] : i \in 1 .. n}

LEMMA EachSorts ==
    ASSUME NEW P, \A p \in P : Len(p.suburl) \in Nat, NEW table \in Seq(P),
           NEW f, FirstSorts(table, f, Len(table)), NEW n \in 0 .. Len(table)
    PROVE  SortOf(P, table, n, f[n])
<1> DEFINE S == {m \in Nat : m <= Len(table) => SortOf(P, table, m, f[m])}
<1>1. 0 \in S
  <2>1. f[0] = <<>>
    BY DEF FirstSorts
  <2>2. SortOf(P, table, 0, <<>>)
    BY DEF SortOf, Ordered, ToSet
  <2> QED BY <2>1, <2>2
<1>2. ASSUME NEW m \in S
      PROVE  m + 1 \in S
  <2>1. SUFFICES ASSUME m + 1 <= Len(table) PROVE SortOf(P, table, m + 1, f[m + 1])
    OBVIOUS
  <2>2. f[m + 1] = Insert(f[m], table[m + 1])
    BY <2>1 DEF FirstSorts
  <2>3. PICK shorter : shorter = f[m]
    OBVIOUS
  <2>4. SortOf(P, table, m, shorter)
    BY <2>1, <2>3
  <2>5. PICK p \in P : p = table[m + 1]
    BY <2>1
  <2>6. PICK longer : longer = Insert(shorter, p)
    OBVIOUS
  <2>7. shorter \in Seq(P) /\ Ordered(shorter)
    BY <2>4 DEF SortOf
  <2>8. /\ longer \in Seq(P) /\ Len(longer) = Len(shorter) + 1
        /\ Ordered(longer) /\ ToSet(longer) = ToSet(shorter) \cup {p}
    <3>1. /\ Insert(shorter, p) \in Seq(P) /\ Len(Insert(shorter, p)) = Len(shorter) + 1
          /\ Ordered(Insert(shorter, p)) /\ ToSet(Insert(shorter, p)) = ToSet(shorter) \cup {p}
      BY <2>7, InsertKeeps
    <3> QED BY <2>6, <3>1
  <2>9. {table[i] : i \in 1 .. m + 1} = {table[i] : i \in 1 .. m} \cup {p}
    <3>1. 1 .. m + 1 = (1 .. m) \cup {m + 1}
      OBVIOUS
    <3> QED BY <2>5, <3>1
  <2>10. SortOf(P, table, m + 1, longer)
    BY <2>4, <2>8, <2>9 DEF SortOf
  <2> QED BY <2>2, <2>3, <2>5, <2>6, <2>10
<1>3. S = Nat
  <2>1. S \in SUBSET Nat
    OBVIOUS
  <2> HIDE DEF S
  <2> QED BY <1>1, <1>2, <2>1, Induct
<1> QED BY <1>3

LEMMA SortPluginsSorts ==
    ASSUME NEW P, \A p \in P : Len(p.suburl) \in Nat, NEW table \in Seq(P)
    PROVE  SortOf(P, table, Len(table), sortPlugins(table))
<1>1. \E f : FirstSorts(table, f, Len(table))
  <2>1. Len(table) \in Nat
    OBVIOUS
  <2> QED BY <2>1, FirstSortsExist
<1>2. FirstSorts(table, Sorts(table), Len(table))
  BY <1>1 DEF FirstSorts, Sorts
<1>3. sortPlugins(table) = Sorts(table)[Len(table)]
  BY DEF sortPlugins, Sorts
<1>4. PICK f : f = Sorts(table)
  OBVIOUS
<1>5. SortOf(P, table, Len(table), f[Len(table)])
  BY <1>2, <1>4, EachSorts
<1> QED BY <1>3, <1>4, <1>5

\* The table handleClient scans is in order when the server starts: of any two of
\* its plugins the one with the longer suburl comes first, and it holds the plugins
\* that were registered and no other, whichever and however many they are.
THEOREM TableSorted ==
    /\ Ordered(sortPlugins(Plugins))
    /\ Len(sortPlugins(Plugins)) = Len(Plugins)
    /\ ToSet(sortPlugins(Plugins)) = ToSet(Plugins)
    /\ sortPlugins(Plugins) \in Seq(ToSet(Plugins))
<1>1. Plugins \in Seq(ToSet(Plugins)) /\ \A p \in ToSet(Plugins) : Len(p.suburl) \in Nat
  BY PluginsAssumption
<1>2. SortOf(ToSet(Plugins), Plugins, Len(Plugins), sortPlugins(Plugins))
  <2>1. PICK P : P = ToSet(Plugins)
    OBVIOUS
  <2>2. Plugins \in Seq(P) /\ \A p \in P : Len(p.suburl) \in Nat
    BY <1>1, <2>1
  <2> QED BY <2>1, <2>2, SortPluginsSorts
<1>3. {Plugins[i] : i \in 1 .. Len(Plugins)} = ToSet(Plugins)
  <2>1. DOMAIN Plugins = 1 .. Len(Plugins)
    BY <1>1
  <2> QED BY <2>1 DEF ToSet
<1> QED BY <1>2, <1>3 DEF SortOf

LEMMA TableIsSorted == Sorted
<1>1. PICK P, table : P = ToSet(Plugins) /\ table = Table
  OBVIOUS
<1>2. table \in Seq(P) /\ Len(table) = Len(Plugins) /\ Ordered(table)
  BY <1>1, TableSorted DEF Table
<1>3. Plugins \in Seq(P) /\ \A p \in P : Entry(p)
  BY <1>1, PluginsAssumption DEF Entry
<1>4. Len(Plugins) \in Nat
  BY <1>3
<1>5. DOMAIN table = Places
  BY <1>2, <1>4 DEF Places
<1>6. \A i \in Places : Entry(table[i])
  BY <1>2, <1>3, <1>5
<1> QED BY <1>1, <1>2, <1>4, <1>5, <1>6 DEF Sorted

-----------------------------------------------------------------------------
(* The table's shape.                                                      *)

\* A step changes at most the active flag of one place.
LEMMA FlagSet ==
    ASSUME Types, NEW k \in Places, NEW b, plugins' = [plugins EXCEPT ![k].active = b]
    PROVE  /\ DOMAIN plugins' = Places
           /\ \A i \in Places : /\ Entry(plugins'[i])
                                /\ plugins'[i].name = plugins[i].name
                                /\ plugins'[i].methods = plugins[i].methods
                                /\ plugins'[i].suburl = plugins[i].suburl
           /\ \A i \in Places \ {k} : plugins'[i].active = plugins[i].active
           /\ plugins'[k].active = b
<1>1. \A i \in Places \ {k} : plugins'[i] = plugins[i]
  BY DEF Types
<1>2. plugins'[k] = [plugins[k] EXCEPT !.active = b] /\ Entry(plugins[k])
  BY DEF Types
<1>3. /\ Entry(plugins'[k]) /\ plugins'[k].name = plugins[k].name
      /\ plugins'[k].methods = plugins[k].methods /\ plugins'[k].suburl = plugins[k].suburl
      /\ plugins'[k].active = b
  BY <1>2 DEF Entry
<1> QED BY <1>1, <1>3 DEF Types

LEMMA InitShape ==
    ASSUME Init
    PROVE  Shape
<1>1. plugins = Table
  BY DEF Init, Table
<1>2. (CHOOSE r \in Requests : TRUE) \in Requests
  BY RequestsAssumption
<1>3. 1 \in 1 .. Len(Plugins) + 1
  BY TableIsSorted DEF Sorted
<1> QED BY TableIsSorted, <1>1, <1>2, <1>3 DEF Init, Shape, Types, TableKept, Sorted

LEMMA StepShape ==
    ASSUME Shape, NEW t \in Thread, Accept(t) \/ Step(t)
    PROVE  Shape'
<1> USE DEF Shape
<1>1. Len(Plugins) \in Nat
  BY TableIsSorted DEF Sorted
<1>2. CASE Accept(t)
  <2>1. {i \in Places : plugins[i].active} \in SUBSET Places
    OBVIOUS
  <2> QED BY <1>1, <1>2, <2>1 DEF Accept, Types, TableKept
<1>3. CASE Look(t)
  <2>1. pos[t] + 1 \in 1 .. Len(Plugins) + 1 /\ 1 \in 1 .. Len(Plugins) + 1
    BY <1>1, <1>3 DEF Look, Places
  <2>2. pos' \in [Thread -> 1 .. Len(Plugins) + 1]
    BY <1>3, <2>1 DEF Look, Types
  <2> QED BY <1>3, <2>2 DEF Look, Types, TableKept
<1>4. CASE NoPlugin(t)
  BY <1>4 DEF NoPlugin, Types, TableKept, history
<1>5. CASE Switch(t)
  <2>1. pos[t] + 1 \in 1 .. Len(Plugins) + 1 /\ pos[t] \in Places
    BY <1>1, <1>5 DEF Switch, Places
  <2>2. pos' \in [Thread -> 1 .. Len(Plugins) + 1] /\ UNCHANGED <<pc, req, answer>>
    BY <1>5, <2>1 DEF Switch, NextPlace, Types
  <2>3. steady' \in [Thread -> SUBSET Places]
    BY <1>5 DEF Switch, Types
  <2>4. CASE plugins[pos[t]].name = req[t].name
    <3>1. PICK k, b : k = pos[t] /\ b = req[t].active
      OBVIOUS
    <3>2. k \in Places /\ plugins' = [plugins EXCEPT ![k].active = b]
      BY <1>5, <2>1, <2>4, <3>1 DEF Switch
    <3>3. /\ DOMAIN plugins' = Places
          /\ \A i \in Places : /\ Entry(plugins'[i])
                               /\ plugins'[i].name = plugins[i].name
                               /\ plugins'[i].methods = plugins[i].methods
                               /\ plugins'[i].suburl = plugins[i].suburl
      BY <3>2, FlagSet
    <3> QED BY <2>2, <2>3, <3>3 DEF Types, TableKept
  <2>5. CASE plugins[pos[t]].name # req[t].name
    BY <1>5, <2>2, <2>3, <2>5 DEF Switch, Types, TableKept
  <2> QED BY <2>4, <2>5
<1>6. CASE Return(t)
  BY <1>6 DEF Return, Types, TableKept
<1>7. CASE Close(t)
  BY <1>1, <1>7 DEF Close, Types, TableKept
<1> QED BY <1>2, <1>3, <1>4, <1>5, <1>6, <1>7 DEF Step

-----------------------------------------------------------------------------
(* The most specific plugin answers.                                       *)

\* What setPluginActive does at one place.
LEMMA SwitchSets ==
    ASSUME Shape, NEW t \in Thread, Switch(t)
    PROVE  /\ pos[t] \in Places
           /\ \A i \in Places \ {pos[t]} : plugins'[i].active = plugins[i].active
           /\ IF plugins[pos[t]].name = req[t].name
              THEN plugins'[pos[t]].active = req[t].active
              ELSE plugins'[pos[t]].active = plugins[pos[t]].active
<1>1. PICK k, b : k = pos[t] /\ b = req[t].active
  OBVIOUS
<1>2. k \in Places
  BY <1>1 DEF Switch
<1>3. CASE plugins[k].name = req[t].name
  <2>1. plugins' = [plugins EXCEPT ![k].active = b]
    BY <1>1, <1>3 DEF Switch
  <2>2. /\ \A i \in Places \ {k} : plugins'[i].active = plugins[i].active
        /\ plugins'[k].active = b
    BY <1>2, <2>1, FlagSet DEF Shape
  <2> QED BY <1>1, <1>2, <1>3, <2>2
<1>4. CASE plugins[k].name # req[t].name
  BY <1>1, <1>2, <1>4 DEF Switch
<1> QED BY <1>3, <1>4

\* What matches and how long its suburl is does not change.
LEMMA MatchesKept ==
    ASSUME Shape, Shape', NEW i \in Places, NEW r
    PROVE  /\ Matches(plugins'[i], r) <=> Matches(plugins[i], r)
           /\ plugins'[i].suburl = plugins[i].suburl
BY DEF Shape, TableKept, Matches

\* A thread whose own step this is not, or that goes on as it was.
Untouched(u) ==
    /\ pc'[u] = pc[u] /\ req'[u] = req[u] /\ pos'[u] = pos[u] /\ answer'[u] = answer[u]
    /\ steady'[u] \subseteq steady[u]

LEMMA UntouchedKeeps ==
    ASSUME Shape, Shape', NEW u \in Thread, Untouched(u), answer[u] \in Places \cup {0},
           Ahead(u), AnsweredBest(u)
    PROVE  Ahead(u)' /\ AnsweredBest(u)'
<1>1. steady[u] \subseteq Places
  BY DEF Shape, Types
<1>2. Ahead(u)'
  BY <1>1, MatchesKept DEF Ahead, Untouched
<1>3. AnsweredBest(u)'
  <2>1. \A i \in Places : plugins'[i].suburl = plugins[i].suburl
    BY MatchesKept
  <2> QED BY <1>1, <2>1, MatchesKept DEF AnsweredBest, Untouched
<1> QED BY <1>2, <1>3

\* The place a scan stops at is the best of those that are steady and match.
LEMMA FoundBest ==
    ASSUME Shape, NEW t \in Thread, pc[t] = "scan", pos[t] \in Places, Ahead(t)
    PROVE  \A i \in steady[t] : Matches(plugins[i], req[t]) =>
                Len(plugins[i].suburl) <= Len(plugins[pos[t]].suburl)
<1>1. SUFFICES ASSUME NEW i \in steady[t], Matches(plugins[i], req[t])
               PROVE  Len(plugins[i].suburl) <= Len(plugins[pos[t]].suburl)
  OBVIOUS
<1>2. i \in Places /\ i >= pos[t]
  BY <1>1 DEF Ahead, Shape, Types
<1>3. Len(plugins[i].suburl) \in Nat /\ Len(plugins[pos[t]].suburl) \in Nat
  BY <1>2 DEF Shape, Types, Entry
<1>4. CASE i = pos[t]
  BY <1>3, <1>4
<1>5. CASE i # pos[t]
  <2>1. pos[t] < i
    BY <1>2, <1>5 DEF Places
  <2>2. ~Before(Table[i], Table[pos[t]])
    BY TableIsSorted, <1>2, <2>1 DEF Sorted, Ordered
  <2>3. ~(Len(plugins[i].suburl) > Len(plugins[pos[t]].suburl))
    BY <1>2, <2>2 DEF Shape, TableKept, Before
  <2> QED BY <1>3, <2>3
<1> QED BY <1>4, <1>5

\* The thread whose step it is.
LEMMA ScanKeeps ==
    ASSUME Shape, Shape', SteadyActive, NEW t \in Thread, Accept(t) \/ Step(t),
           answer[t] \in Places \cup {0}, Ahead(t), AnsweredBest(t)
    PROVE  Ahead(t)' /\ AnsweredBest(t)' /\ answer'[t] \in Places \cup {0}
<1> USE DEF Shape
<1>1. Len(Plugins) \in Nat /\ steady[t] \subseteq Places /\ pos[t] \in 1 .. Len(Plugins) + 1
  BY TableIsSorted DEF Sorted, Types
<1>2. CASE Accept(t)
  <2>1. pc'[t] = "scan" /\ pos'[t] = 1 /\ answer'[t] = answer[t] /\ steady'[t] \subseteq Places
    BY <1>2 DEF Accept, Types
  <2> QED BY <2>1 DEF Ahead, AnsweredBest, Places
<1>3. CASE Look(t)
  <2>1. /\ pc[t] = "scan" /\ pos[t] \in Places
        /\ UNCHANGED <<plugins, req, steady>>
    BY <1>3 DEF Look
  <2>2. CASE plugins[pos[t]].active /\ Matches(plugins[pos[t]], req[t])
    <3>1. answer'[t] = pos[t] /\ pc'[t] # "scan"
      BY <1>3, <2>2 DEF Look, Types
    <3>2. answer'[t] # 0
      BY <2>1, <3>1 DEF Places
    <3>3. AnsweredBest(t)'
      BY <2>1, <3>1, <3>2, FoundBest DEF AnsweredBest
    <3> QED BY <2>1, <3>1, <3>3 DEF Ahead
  <2>3. CASE ~(plugins[pos[t]].active /\ Matches(plugins[pos[t]], req[t]))
    <3>1. pos'[t] = pos[t] + 1 /\ UNCHANGED <<pc, answer>>
      BY <1>3, <2>3 DEF Look, Types
    <3>2. \A i \in steady[t] : Matches(plugins[i], req[t]) => i >= pos[t] + 1
      <4>1. \A i \in steady[t] : Matches(plugins[i], req[t]) => i >= pos[t] /\ i # pos[t] /\ i \in Int
        BY <1>1, <2>1, <2>3 DEF Ahead, SteadyActive, Places
      <4> QED BY <1>1, <4>1
    <3> QED BY <2>1, <3>1, <3>2 DEF Ahead, AnsweredBest
  <2> QED BY <2>2, <2>3
<1>4. CASE NoPlugin(t)
  <2>1. pos[t] = Len(Plugins) + 1 /\ pc[t] = "scan" /\ pc'[t] = "done"
    BY <1>1, <1>4 DEF NoPlugin, Places, Types
  <2>2. \A i \in steady[t] : ~Matches(plugins[i], req[t])
    BY <1>1, <2>1 DEF Ahead, Places
  <2> QED BY <1>4, <2>1, <2>2 DEF NoPlugin, Ahead, AnsweredBest, history
<1>5. CASE Switch(t)
  <2>1. /\ UNCHANGED <<pc, req, answer>> /\ pc[t] = "script"
        /\ steady'[t] \subseteq steady[t]
    BY <1>5 DEF Switch, Types
  <2>2. \A i \in Places : plugins'[i].suburl = plugins[i].suburl
    BY MatchesKept
  <2> QED BY <1>1, <2>1, <2>2, MatchesKept DEF Ahead, AnsweredBest
<1>6. CASE Return(t)
  BY <1>6 DEF Return, Ahead, AnsweredBest, Types
<1>7. CASE Close(t)
  BY <1>7 DEF Close, Ahead, AnsweredBest, Types
<1> QED BY <1>2, <1>3, <1>4, <1>5, <1>6, <1>7 DEF Step

LEMMA OthersUntouched ==
    ASSUME Shape, NEW t \in Thread, Accept(t) \/ Step(t), NEW u \in Thread \ {t}
    PROVE  Untouched(u)
<1> USE DEF Shape, Untouched
<1>1. CASE Accept(t)
  BY <1>1 DEF Accept, Types
<1>2. CASE Look(t)
  <2>1. /\ pc'[u] = pc[u] /\ pos'[u] = pos[u] /\ answer'[u] = answer[u]
        /\ UNCHANGED <<req, steady>>
    BY <1>2 DEF Look, Types
  <2> QED BY <2>1
<1>3. CASE NoPlugin(t)
  BY <1>3 DEF NoPlugin, Types, history
<1>4. CASE Switch(t)
  BY <1>4 DEF Switch, Types
<1>5. CASE Return(t)
  BY <1>5 DEF Return, Types
<1>6. CASE Close(t)
  BY <1>6 DEF Close, Types
<1> QED BY <1>1, <1>2, <1>3, <1>4, <1>5, <1>6 DEF Step

LEMMA SteadyKept ==
    ASSUME Shape, SteadyActive, NEW t \in Thread, Accept(t) \/ Step(t)
    PROVE  SteadyActive'
<1> USE DEF Shape
<1>1. CASE Accept(t)
  <2>1. /\ plugins' = plugins /\ steady'[t] = {i \in Places : plugins[i].active}
        /\ \A u \in Thread \ {t} : steady'[u] = steady[u]
    BY <1>1 DEF Accept, Types
  <2> QED BY <2>1 DEF SteadyActive
<1>2. CASE Switch(t)
  <2>1. \A u \in Thread : steady[u] \subseteq Places
    BY DEF Types
  <2>2. CASE plugins[pos[t]].name = req[t].name /\ ~req[t].active
    <3>1. \A u \in Thread : steady'[u] = steady[u] \ {pos[t]}
      BY <1>2, <2>2 DEF Switch, Types
    <3> QED BY <1>2, <2>1, <3>1, SwitchSets DEF SteadyActive
  <2>3. CASE plugins[pos[t]].name = req[t].name /\ req[t].active
    <3>1. steady' = steady
      BY <1>2, <2>3 DEF Switch
    <3> QED BY <1>2, <2>1, <2>3, <3>1, SwitchSets DEF SteadyActive
  <2>4. CASE plugins[pos[t]].name # req[t].name
    BY <1>2, <2>4 DEF Switch, SteadyActive
  <2> QED BY <2>2, <2>3, <2>4
<1>3. CASE Look(t) \/ NoPlugin(t) \/ Return(t)
  BY <1>3 DEF Look, NoPlugin, Return, history, SteadyActive
<1>4. CASE Close(t)
  BY <1>4 DEF Close, SteadyActive, Types
<1> QED BY <1>1, <1>2, <1>3, <1>4 DEF Step

LEMMA AnswerInit ==
    ASSUME Init
    PROVE  AnswerInv
<1>1. Shape
  BY InitShape
<1> QED BY <1>1 DEF Init, AnswerInv, SteadyActive, Ahead, AnsweredBest

LEMMA AnswerStep ==
    ASSUME AnswerInv, [Next]_vars
    PROVE  AnswerInv'
<1>1. CASE UNCHANGED vars
  BY <1>1 DEF vars, history, AnswerInv, Shape, Types, TableKept, SteadyActive, Ahead, AnsweredBest, Matches
<1>2. ASSUME NEW t \in Thread, Accept(t) \/ Step(t)
      PROVE  AnswerInv'
  <2>1. Shape /\ Shape' /\ SteadyActive /\ SteadyActive'
    BY <1>2, StepShape, SteadyKept DEF AnswerInv
  <2>2. Ahead(t)' /\ AnsweredBest(t)' /\ answer'[t] \in Places \cup {0}
    BY <1>2, <2>1, ScanKeeps DEF AnswerInv
  <2>3. ASSUME NEW u \in Thread \ {t}
        PROVE  Ahead(u)' /\ AnsweredBest(u)' /\ answer'[u] \in Places \cup {0}
    <3>1. Untouched(u)
      BY <1>2, <2>1, OthersUntouched
    <3> QED BY <2>1, <3>1, UntouchedKeeps DEF AnswerInv, Untouched
  <2> QED BY <2>1, <2>2, <2>3 DEF AnswerInv
<1> QED BY <1>1, <1>2 DEF Next

\* Whatever scripts switch during a scan, handleClient answers with a plugin whose
\* suburl is as long as that of any matching one that was active all the time: for
\* any plugins, every set of requests and threads.
THEOREM MostSpecificAnswersCorrect ==
    Spec => []MostSpecificAnswers
<1>1. Init => AnswerInv
  BY AnswerInit
<1>2. AnswerInv /\ [Next]_vars => AnswerInv'
  BY AnswerStep
<1>3. AnswerInv => MostSpecificAnswers
  BY DEF AnswerInv, AnsweredBest, MostSpecificAnswers
<1> QED BY <1>1, <1>2, <1>3, PTL DEF Spec

-----------------------------------------------------------------------------
(* What is switched off stays silent.                                      *)

\* No step but the beginning of a script starts to switch a name on.
LEMMA OnlyCallsSwitchOn ==
    ASSUME Shape, NEW t \in Thread, Accept(t) \/ Step(t), NEW n, SwitchingOn(n)'
    PROVE  \/ SwitchingOn(n)
           \/ Look(t) /\ pc'[t] = "script" /\ req[t].name = n /\ req[t].active
<1>1. PICK u \in Thread : pc'[u] = "script" /\ req'[u].name = n /\ req'[u].active
  BY DEF SwitchingOn
<1>2. CASE u # t
  BY <1>1, <1>2, OthersUntouched DEF Untouched, SwitchingOn
<1>3. CASE u = t
  <2>1. CASE Look(t)
    BY <1>1, <1>3, <2>1 DEF Look
  <2>2. CASE Switch(t)
    BY <1>1, <1>3, <2>2 DEF Switch, SwitchingOn
  <2>3. CASE Accept(t) \/ NoPlugin(t) \/ Return(t) \/ Close(t)
    BY <1>1, <1>3, <2>3 DEF Accept, NoPlugin, Return, Close, Shape, Types
  <2> QED BY <2>1, <2>2, <2>3 DEF Step
<1> QED BY <1>2, <1>3

\* What keeps a call that switches off what it is.
LEMMA CallOffGoesOn ==
    ASSUME NEW t, NEW n, NEW p, CallOff(t, n, p), NEW q,
           pc'[t] = pc[t], req'[t] = req[t], pos'[t] = q,
           ~SwitchingOn(n)', \A i \in Places : i < q => Inactive(n, i)'
    PROVE  CallOff(t, n, q)'
BY DEF CallOff

\* A step that sets no flag and begins no call.
LEMMA QuietOff ==
    ASSUME OffInv, NEW t \in Thread, Accept(t) \/ Step(t), Shape',
           UNCHANGED <<plugins, off>>, alone' = alone \/ alone' = alone \ {t},
           t \in alone' => pc'[t] = "script" /\ req'[t] = req[t] /\ pos'[t] = pos[t],
           \A n : SwitchingOn(n)' => SwitchingOn(n)
    PROVE  OffInv'
<1> USE DEF OffInv
<1>1. \A n, i : Inactive(n, i)' <=> Inactive(n, i)
  BY DEF Inactive
<1>2. OffInactive'
  BY <1>1 DEF OffInactive
<1>3. AloneSwitchesOff'
  <2>1. SUFFICES ASSUME NEW u \in alone'
                 PROVE \E n, p : CallOff(u, n, p)'
    BY DEF AloneSwitchesOff
  <2>2. PICK n, p : CallOff(u, n, p)
    BY <2>1 DEF AloneSwitchesOff
  <2>3. pc'[u] = pc[u] /\ req'[u] = req[u] /\ pos'[u] = p
    <3>1. u \in Thread /\ pc[u] = "script" /\ pos[u] = p
      BY <2>2 DEF CallOff
    <3> QED BY <2>1, <3>1, OthersUntouched DEF Untouched
  <2>4. ~SwitchingOn(n)' /\ \A i \in Places : i < p => Inactive(n, i)'
    BY <1>1, <2>2 DEF CallOff
  <2>5. CallOff(u, n, p)'
    BY <2>2, <2>3, <2>4, CallOffGoesOn
  <2> QED BY <2>5
<1> QED BY <1>2, <1>3

LEMMA LookOff ==
    ASSUME OffInv, NEW t \in Thread, Look(t), Shape'
    PROVE  OffInv'
<1> USE DEF OffInv
<1>1. /\ plugins' = plugins /\ req' = req /\ pc[t] = "scan"
  BY DEF Look
<1>2. \A n, i : Inactive(n, i)' <=> Inactive(n, i)
  BY <1>1 DEF Inactive
<1>3. t \notin alone
  BY <1>1 DEF AloneSwitchesOff, CallOff
<1>4. \A u \in Thread \ {t} : pc'[u] = pc[u] /\ req'[u] = req[u] /\ pos'[u] = pos[u]
  BY OthersUntouched DEF Untouched, Step
<1>5. CASE UNCHANGED <<off, alone>> /\ pc'[t] # "script"
  <2>1. \A n : SwitchingOn(n)' => SwitchingOn(n)
    BY <1>1, <1>4, <1>5 DEF SwitchingOn
  <2> QED BY <1>1, <1>3, <1>5, <2>1, QuietOff DEF Step
<1>6. CASE CallBegins(t) /\ pc'[t] = "script" /\ pos'[t] = 1
  <2>1. \A n : SwitchingOn(n)' => SwitchingOn(n) \/ (req[t].name = n /\ req[t].active)
    BY <1>1, <1>4 DEF SwitchingOn
  <2>2. ASSUME NEW u \in alone, NEW n, NEW p, CallOff(u, n, p), ~SwitchingOn(n)'
        PROVE  CallOff(u, n, p)'
    <3>1. u \in Thread \ {t} /\ pos[u] = p
      BY <1>3, <2>2 DEF CallOff
    <3>2. pc'[u] = pc[u] /\ req'[u] = req[u] /\ pos'[u] = p
      BY <1>4, <3>1
    <3>3. \A i \in Places : i < p => Inactive(n, i)'
      BY <1>2, <2>2 DEF CallOff
    <3> QED BY <2>2, <3>2, <3>3, CallOffGoesOn
  <2>3. CASE req[t].active
    <3>1. off' = off \ {req[t].name} /\ alone' = {u \in alone : req[u].name # req[t].name}
      BY <1>6, <2>3 DEF CallBegins
    <3>2. OffInactive'
      BY <1>2, <2>1, <3>1 DEF OffInactive
    <3>3. AloneSwitchesOff'
      <4>1. SUFFICES ASSUME NEW u \in alone'
                     PROVE \E n, p : CallOff(u, n, p)'
        BY DEF AloneSwitchesOff
      <4>2. u \in alone /\ req[u].name # req[t].name
        BY <3>1, <4>1
      <4>3. PICK n, p : CallOff(u, n, p)
        BY <4>2 DEF AloneSwitchesOff
      <4>4. ~SwitchingOn(n)'
        BY <2>1, <4>2, <4>3 DEF CallOff
      <4> QED BY <2>2, <4>2, <4>3, <4>4
    <3> QED BY <3>2, <3>3
  <2>4. CASE ~req[t].active
    <3>1. off' = off /\ alone' = IF SwitchingOn(req[t].name) THEN alone ELSE alone \cup {t}
      BY <1>6, <2>4 DEF CallBegins
    <3>2. \A n : SwitchingOn(n)' => SwitchingOn(n)
      BY <2>1, <2>4
    <3>3. OffInactive'
      BY <1>2, <3>1, <3>2 DEF OffInactive
    <3>4. AloneSwitchesOff'
      <4>1. SUFFICES ASSUME NEW u \in alone'
                     PROVE \E n, p : CallOff(u, n, p)'
        BY DEF AloneSwitchesOff
      <4>2. CASE u \in alone
        <5>1. PICK n, p : CallOff(u, n, p)
          BY <4>2 DEF AloneSwitchesOff
        <5>2. ~SwitchingOn(n)'
          BY <3>2, <5>1 DEF CallOff
        <5> QED BY <2>2, <4>2, <5>1, <5>2
      <4>3. CASE u = t /\ ~SwitchingOn(req[t].name)
        <5>1. PICK n : n = req[t].name
          OBVIOUS
        <5>2. ~SwitchingOn(n)' /\ ~req'[t].active /\ n = req'[t].name
          BY <1>1, <2>4, <3>2, <4>3, <5>1
        <5>3. \A i \in Places : ~(i < 1)
          BY DEF Places
        <5>4. CallOff(t, n, 1)'
          BY <1>6, <5>2, <5>3 DEF CallOff
        <5> QED BY <4>3, <5>4
      <4> QED BY <3>1, <4>1, <4>2, <4>3
    <3> QED BY <3>3, <3>4
  <2> QED BY <2>3, <2>4
<1>7. \/ UNCHANGED <<off, alone>> /\ pc'[t] # "script"
      \/ CallBegins(t) /\ pc'[t] = "script" /\ pos'[t] = 1
  BY <1>1 DEF Look, Shape, Types
<1> QED BY <1>5, <1>6, <1>7

LEMMA SwitchOff ==
    ASSUME OffInv, NEW t \in Thread, Switch(t), Shape'
    PROVE  OffInv'
<1> USE DEF OffInv
<1>1. /\ UNCHANGED <<pc, req, off, alone>> /\ pc[t] = "script"
      /\ pos'[t] = pos[t] + 1 /\ \A u \in Thread \ {t} : pos'[u] = pos[u]
      /\ pos[t] \in Places
  BY DEF Switch, NextPlace, Shape, Types
<1>2. \A n : SwitchingOn(n)' => SwitchingOn(n)
  BY <1>1 DEF SwitchingOn
<1>3. \A i \in Places : plugins'[i].name = plugins[i].name
  BY DEF Shape, TableKept
<1>4. ASSUME NEW n, ~SwitchingOn(n), NEW i \in Places, Inactive(n, i)
      PROVE  Inactive(n, i)'
  <2>1. CASE i # pos[t]
    BY <1>3, <1>4, <2>1, SwitchSets DEF Inactive
  <2>2. CASE i = pos[t] /\ plugins[i].name = req[t].name
    <3>1. plugins'[i].active = req[t].active
      BY <2>2, SwitchSets
    <3>2. req[t].name = n => ~req[t].active
      BY <1>1, <1>4 DEF SwitchingOn
    <3> QED BY <1>3, <2>2, <3>1, <3>2 DEF Inactive
  <2>3. CASE i = pos[t] /\ plugins[i].name # req[t].name
    BY <1>3, <1>4, <2>3, SwitchSets DEF Inactive
  <2> QED BY <2>1, <2>2, <2>3
<1>5. OffInactive'
  BY <1>1, <1>2, <1>4 DEF OffInactive
<1>6. AloneSwitchesOff'
  <2>1. SUFFICES ASSUME NEW u \in alone
                 PROVE \E n, p : CallOff(u, n, p)'
    BY <1>1 DEF AloneSwitchesOff
  <2>2. PICK n, p : CallOff(u, n, p)
    BY <2>1 DEF AloneSwitchesOff
  <2>3. u \in Thread /\ pos[u] = p /\ n = req[u].name /\ ~req[u].active /\ ~SwitchingOn(n)
    BY <2>2 DEF CallOff
  <2>4. PICK q : q = pos'[u]
    OBVIOUS
  <2>5. ASSUME NEW i \in Places, i < q
        PROVE  Inactive(n, i)'
    <3>1. CASE i < p
      <4>1. Inactive(n, i)
        BY <2>2, <3>1 DEF CallOff
      <4> QED BY <1>4, <2>3, <4>1
    <3>2. CASE ~(i < p)
      <4>1. u = t /\ i = pos[t]
        BY <1>1, <2>3, <2>4, <2>5, <3>2 DEF Places
      <4>2. plugins[i].name = req[t].name => plugins'[i].active = req[t].active
        BY <4>1, SwitchSets
      <4> QED BY <1>3, <2>3, <4>1, <4>2 DEF Inactive
    <3> QED BY <3>1, <3>2
  <2>6. ~SwitchingOn(n)'
    BY <1>2, <2>3
  <2>7. CallOff(u, n, q)'
    BY <1>1, <2>2, <2>4, <2>5, <2>6, CallOffGoesOn
  <2> QED BY <2>7
<1> QED BY <1>5, <1>6

LEMMA ReturnOff ==
    ASSUME OffInv, NEW t \in Thread, Return(t), Shape'
    PROVE  OffInv'
<1> USE DEF OffInv
<1>1. /\ plugins' = plugins /\ UNCHANGED <<req, pos>> /\ pc[t] = "script" /\ pc'[t] = "done"
      /\ \A u \in Thread \ {t} : pc'[u] = pc[u]
      /\ alone' = alone \ {t}
  BY DEF Return, Shape, Types
<1>2. \A n, i : Inactive(n, i)' <=> Inactive(n, i)
  BY <1>1 DEF Inactive
<1>3. \A n : SwitchingOn(n)' => SwitchingOn(n)
  BY <1>1 DEF SwitchingOn
<1>4. AloneSwitchesOff'
  <2>1. SUFFICES ASSUME NEW u \in alone, u # t
                 PROVE \E n, p : CallOff(u, n, p)'
    BY <1>1 DEF AloneSwitchesOff
  <2>2. PICK n, p : CallOff(u, n, p)
    BY <2>1 DEF AloneSwitchesOff
  <2>3. pc'[u] = pc[u] /\ req'[u] = req[u] /\ pos'[u] = p
    BY <1>1, <2>1, <2>2 DEF CallOff
  <2>4. ~SwitchingOn(n)' /\ \A i \in Places : i < p => Inactive(n, i)'
    BY <1>2, <1>3, <2>2 DEF CallOff
  <2>5. CallOff(u, n, p)'
    BY <2>2, <2>3, <2>4, CallOffGoesOn
  <2> QED BY <2>5
<1>5. OffInactive'
  <2>1. CASE t \notin alone
    BY <1>2, <1>3, <2>1 DEF Return, OffInactive
  <2>2. CASE t \in alone
    <3>1. off' = off \cup {req[t].name} /\ ~SwitchingOn(req[t].name)
      BY <2>2 DEF Return, AloneSwitchesOff, CallOff
    <3>2. \A i \in Places : i < pos[t]
      BY TableIsSorted DEF Return, Shape, Types, Places, Sorted
    <3>3. \A i \in Places : Inactive(req[t].name, i)
      BY <2>2, <3>2 DEF AloneSwitchesOff, CallOff
    <3> QED BY <1>2, <1>3, <3>1, <3>3 DEF OffInactive
  <2> QED BY <2>1, <2>2
<1> QED BY <1>4, <1>5

LEMMA OffStep ==
    ASSUME OffInv, [Next]_vars
    PROVE  OffInv'
<1>1. CASE UNCHANGED vars
  BY <1>1 DEF vars, history, OffInv, Shape, Types, TableKept, AloneSwitchesOff, CallOff,
     OffInactive, Inactive, SwitchingOn
<1>2. ASSUME NEW t \in Thread, Accept(t) \/ Step(t)
      PROVE  OffInv'
  <2>1. Shape /\ Shape'
    BY <1>2, StepShape DEF OffInv
  <2>2. CASE Look(t)
    BY <2>1, <2>2, LookOff
  <2>3. CASE Switch(t)
    BY <2>1, <2>3, SwitchOff
  <2>4. CASE Return(t)
    BY <2>1, <2>4, ReturnOff
  <2>5. CASE Accept(t) \/ NoPlugin(t) \/ Close(t)
    <3>1. /\ UNCHANGED <<plugins, off, alone>> /\ pc[t] # "script" /\ pc'[t] # "script"
      BY <2>1, <2>5 DEF Accept, NoPlugin, Close, history, Shape, Types
    <3>2. t \notin alone
      BY <3>1 DEF OffInv, AloneSwitchesOff, CallOff
    <3>3. \A n : SwitchingOn(n)' => SwitchingOn(n)
      BY <1>2, <2>1, <3>1, OnlyCallsSwitchOn
    <3> QED BY <1>2, <2>1, <3>1, <3>2, <3>3, QuietOff
  <2> QED BY <1>2, <2>2, <2>3, <2>4, <2>5 DEF Step
<1> QED BY <1>1, <1>2 DEF Next

\* A scan is answered by a plugin whose flag it has read as active.
LEMMA AnswersActive ==
    ASSUME Shape, [Next]_vars, NEW t \in Thread, answer'[t] # answer[t], answer'[t] # 0
    PROVE  answer'[t] \in Places /\ plugins[answer'[t]].active
<1>1. PICK u \in Thread : Accept(u) \/ Step(u)
  BY DEF Next, vars
<1>2. u = t
  BY <1>1, OthersUntouched DEF Untouched
<1>3. CASE Look(t)
  BY <1>3 DEF Look, Shape, Types
<1>4. CASE Accept(t) \/ NoPlugin(t) \/ Switch(t) \/ Return(t) \/ Close(t)
  BY <1>4 DEF Accept, NoPlugin, Switch, Return, Close, Shape, Types
<1> QED BY <1>1, <1>2, <1>3, <1>4 DEF Step

\* What setPluginActive has switched off answers no scan until a script begins to
\* switch it on: for any plugins and any number of scripts that run meanwhile.
THEOREM SwitchedOffNeverAnswersCorrect ==
    Spec => SwitchedOffNeverAnswers
<1>1. Init => OffInv
  BY InitShape DEF Init, OffInv, AloneSwitchesOff, OffInactive
<1>2. OffInv /\ [Next]_vars => OffInv'
  BY OffStep
<1>3. ASSUME OffInv, [Next]_vars
      PROVE  [\A t \in Thread : answer'[t] # answer[t] /\ answer'[t] # 0 =>
                plugins[answer'[t]].name \notin off]_vars
  BY <1>3, AnswersActive DEF OffInv, OffInactive, Inactive
<1> QED BY <1>1, <1>2, <1>3, PTL DEF Spec, SwitchedOffNeverAnswers

-----------------------------------------------------------------------------
(* The types.                                                              *)

\* What TypeOK says that the other proofs do not need.
MoreTypes ==
    /\ \A i \in Places : plugins[i].active \in BOOLEAN
    /\ answer \in [Thread -> 0 .. Len(Plugins)]
    /\ alone \subseteq Thread /\ off \subseteq ScriptName

LEMMA StepMoreTypes ==
    ASSUME Shape, Shape', MoreTypes, NEW t \in Thread, Accept(t) \/ Step(t)
    PROVE  MoreTypes'
<1>1. Len(Plugins) \in Nat
  BY TableIsSorted DEF Sorted
<1>2. req[t].name \in ScriptName /\ req[t].active \in BOOLEAN
  BY RequestsAssumption DEF Shape, Types
<1>3. CASE Accept(t) \/ NoPlugin(t)
  BY <1>3 DEF MoreTypes, Accept, NoPlugin, history
<1>4. CASE Look(t)
  <2>1. answer' \in [Thread -> 0 .. Len(Plugins)] /\ plugins' = plugins
    BY <1>1, <1>4 DEF MoreTypes, Look, Places
  <2>2. alone' \subseteq Thread /\ off' \subseteq ScriptName
    <3>1. CASE CallBegins(t)
      BY <3>1 DEF CallBegins, MoreTypes
    <3>2. CASE UNCHANGED <<alone, off>>
      BY <3>2 DEF MoreTypes
    <3> QED BY <1>4, <3>1, <3>2 DEF Look
  <2> QED BY <2>1, <2>2 DEF MoreTypes
<1>5. CASE Switch(t)
  <2>1. ASSUME NEW i \in Places
        PROVE  plugins'[i].active \in BOOLEAN
    BY <1>2, <1>5, SwitchSets DEF MoreTypes
  <2> QED BY <1>5, <2>1 DEF Switch, MoreTypes
<1>6. CASE Return(t)
  BY <1>2, <1>6 DEF Return, MoreTypes
<1>7. CASE Close(t)
  <2>1. answer' \in [Thread -> 0 .. Len(Plugins)]
    BY <1>1, <1>7 DEF Close, MoreTypes
  <2> QED BY <1>7, <2>1 DEF Close, MoreTypes
<1> QED BY <1>3, <1>4, <1>5, <1>6, <1>7 DEF Step

\* Switched on again, the table holds what was registered.
LEMMA PluginsKept ==
    ASSUME Shape
    PROVE  {[p EXCEPT !.active = TRUE] : p \in ToSet(plugins)} = ToSet(Plugins)
<1>1. ToSet(plugins) = {plugins[i] : i \in Places} /\ ToSet(Plugins) = {Table[i] : i \in Places}
  <2>1. ToSet(Table) = {Table[i] : i \in Places}
    BY TableIsSorted DEF Sorted, ToSet
  <2> QED BY <2>1, TableSorted DEF Shape, Types, ToSet, Table
<1>2. ASSUME NEW i \in Places
      PROVE  [plugins[i] EXCEPT !.active = TRUE] = Table[i]
  <2>1. Table[i] \in ToSet(Plugins)
    BY <1>1
  <2>2. PICK p \in ToSet(Plugins) : p = Table[i]
    BY <2>1
  <2>3. p = [name |-> p.name, methods |-> p.methods, suburl |-> p.suburl, active |-> TRUE]
    BY PluginsAssumption
  <2>4. PICK q : q = plugins[i]
    OBVIOUS
  <2>5. q = [name |-> q.name, methods |-> q.methods, suburl |-> q.suburl, active |-> q.active]
    BY <2>4 DEF Shape, Types, Entry
  <2>6. q.name = p.name /\ q.methods = p.methods /\ q.suburl = p.suburl
    BY <2>2, <2>4 DEF Shape, TableKept
  <2>7. [q EXCEPT !.active = TRUE]
          = [name |-> q.name, methods |-> q.methods, suburl |-> q.suburl, active |-> TRUE]
    <3>1. PICK r : r = [q EXCEPT !.active = TRUE]
      OBVIOUS
    <3>2. r = [name |-> q.name, methods |-> q.methods, suburl |-> q.suburl, active |-> TRUE]
      BY <2>5, <3>1
    <3> QED BY <3>1, <3>2
  <2> QED BY <2>2, <2>3, <2>4, <2>6, <2>7
<1>3. {[p EXCEPT !.active = TRUE] : p \in {plugins[i] : i \in Places}}
        = {[plugins[i] EXCEPT !.active = TRUE] : i \in Places}
  OBVIOUS
<1>4. {[plugins[i] EXCEPT !.active = TRUE] : i \in Places} = {Table[i] : i \in Places}
  BY <1>2, Zenon
<1> QED BY <1>1, <1>3, <1>4, Zenon

\* Whatever scripts switch, the table holds the plugins that were registered with
\* nothing but their active flags changed, and no thread reads past the end of the
\* table: TypeOK, for any plugins, requests and threads.
THEOREM TypeCorrect ==
    Spec => []TypeOK
<1> DEFINE Inv == Shape /\ MoreTypes
<1>1. Init => Inv
  <2>1. ASSUME Init
        PROVE  MoreTypes
    <3>1. \A i \in Places : Table[i] \in ToSet(Plugins)
      BY TableSorted, TableIsSorted DEF Sorted, Table, ToSet
    <3>2. \A p \in ToSet(Plugins) : p.active = TRUE
      BY PluginsAssumption
    <3>3. Len(Plugins) \in Nat
      BY TableIsSorted DEF Sorted
    <3>4. \A i \in Places : plugins[i].active \in BOOLEAN
      BY <2>1, <3>1, <3>2 DEF Init, Table
    <3>5. answer \in [Thread -> 0 .. Len(Plugins)]
      BY <2>1, <3>3 DEF Init
    <3> QED BY <2>1, <3>4, <3>5 DEF Init, MoreTypes
  <2> QED BY <2>1, InitShape
<1>2. ASSUME Inv, [Next]_vars
      PROVE  Inv'
  <2>1. CASE UNCHANGED vars
    BY <1>2, <2>1 DEF vars, history, Shape, Types, TableKept, MoreTypes
  <2>2. ASSUME NEW t \in Thread, Accept(t) \/ Step(t)
        PROVE  Inv'
    <3>1. Shape'
      BY <1>2, <2>2, StepShape
    <3> QED BY <1>2, <2>2, <3>1, StepMoreTypes
  <2> QED BY <1>2, <2>1, <2>2 DEF Next
<1>3. Inv => TypeOK
  BY PluginsKept DEF Shape, Types, MoreTypes, TypeOK
<1> QED BY <1>1, <1>2, <1>3, PTL DEF Spec
=============================================================================
