--------------------------- MODULE ListingProofs ---------------------------
(***************************************************************************)
(* That a listing is a snapshot, for any number of threads, comments and   *)
(* voters.  A thread that is alone has its statement to itself since it    *)
(* reset it: what it has collected is then the beginning of one answer to  *)
(* its query, for a content the comments table had meanwhile.              *)
(***************************************************************************)
EXTENDS Listing, TLAPS, FiniteSetTheorems

\* A row of a query's result.
Row == [k \in Kind |-> IF k = "comments" THEN [id : 1 .. MaxComments, votes : SUBSET Voter, count : Nat]
                       ELSE [site : Site, count : Nat]]

Statement(k) ==
    [site : Pattern, limit : Limit \cup {0}, rows : Seq(Row[k]), at : Nat, status : {"row", "done"}]

\* What the comments table may hold.
Tables == {table \in Seq(Comment) : Len(table) <= MaxComments}

TypeInv ==
    /\ TypeOK
    /\ \A k \in Kind : stmt[k] \in Statement(k)
    /\ \A t \in Thread : pc[t] # "idle" => req[t] \in Requests
    /\ \A t \in alone : pc[t] \notin {"idle", "reset"}
    /\ \A t \in Thread \ alone : listing[t] = <<>>
    /\ seen \in [Thread -> SUBSET Tables]

\* What a handler makes of one row.
EntryOf(r, row) ==
    IF r.kind = "sites" THEN row
    ELSE [id |-> row.id, likes |-> row.count, voted |-> r.user \in row.votes]

\* t has collected the first k of these rows.
Collected(t, rows, k) ==
    Len(listing[t]) = k /\ \A i \in 1 .. k : listing[t][i] = EntryOf(req[t], rows[i])

\* The rows the request of t may be answered with, for a table there was meanwhile.
Wanted(t) == UNION {Results(req[t].kind, table, req[t].site, req[t].limit) : table \in seen[t]}

\* Nothing was read yet.
Started(t) ==
    /\ pc[t] \in {"bindSite", "bindLimit", "test", "step"}
    /\ Mine(t).at = 0 /\ Mine(t).rows = <<>> /\ Mine(t).status = "row" /\ listing[t] = <<>>
    /\ pc[t] # "bindSite" => Mine(t).site = req[t].site
    /\ pc[t] \in {"test", "step"} => Mine(t).limit = req[t].limit

\* The statement is at a row.
Amid(t) ==
    /\ Mine(t).at \in DOMAIN Mine(t).rows /\ Mine(t).status = "row"
    /\ Mine(t).rows \in Wanted(t)
    /\ \/ pc[t] \in {"test", "step"} /\ Collected(t, Mine(t).rows, Mine(t).at)
       \/ pc[t] = "columns" /\ got[t] = "row" /\ Collected(t, Mine(t).rows, Mine(t).at - 1)

\* The statement is done.
Over(t) ==
    /\ \E rows \in Wanted(t) : Collected(t, rows, Len(rows))
    /\ \/ pc[t] = "columns" /\ got[t] = "done" /\ Mine(t).at \notin DOMAIN Mine(t).rows
       \/ pc[t] = "test" /\ Mine(t).status = "done"
       \/ pc[t] = "reply"

Progress(t) == comments \in seen[t] /\ (Started(t) \/ Amid(t) \/ Over(t))

ListingInv == TypeInv /\ \A t \in alone : Progress(t)

-----------------------------------------------------------------------------
(* What a query returns.                                                   *)

\* The values of a function on a finite set are finitely many.
LEMMA FiniteValues ==
    ASSUME NEW S, IsFiniteSet(S), NEW T, NEW f, f = [x \in S |-> f[x]], T = {f[x] : x \in S}
    PROVE  IsFiniteSet(T)
<1>1. f \in Surjection(S, T)
  BY DEF Surjection
<1> QED BY <1>1, FS_Surjection

LEMMA OrderedTyped ==
    ASSUME NEW T, NEW rows \in SUBSET T, IsFiniteSet(rows), NEW n \in Nat,
           NEW s \in Ordered(rows, n)
    PROVE  s \in Seq(T)
<1>1. PICK size : size = IF Cardinality(rows) < n THEN Cardinality(rows) ELSE n
  OBVIOUS
<1>2. Cardinality(rows) \in Nat
  BY FS_CardinalityType
<1>3. size \in Nat
  BY <1>1, <1>2
<1>4. PICK S \in kSubset(size, rows) : s \in SetToSeqs(S)
  BY <1>1 DEF Ordered
<1>5. S \subseteq T /\ Cardinality(S) = size
  BY <1>4 DEF kSubset
<1>6. s \in [1 .. size -> S]
  BY <1>4, <1>5 DEF SetToSeqs
<1> QED BY <1>3, <1>5, <1>6

LEMMA ResultsTyped ==
    ASSUME NEW k \in Kind, NEW table \in Seq(Comment), Len(table) <= MaxComments,
           NEW pattern, NEW n \in Nat, NEW rows \in Results(k, table, pattern, n)
    PROVE  rows \in Seq(Row[k])
<1>1. PICK found : found = Matching(table, pattern)
  OBVIOUS
<1>2. found \subseteq DOMAIN table /\ IsFiniteSet(found) /\ \A c \in found : c \in 1 .. MaxComments
  <2>1. DOMAIN table = 1 .. Len(table) /\ Len(table) \in Nat /\ MaxComments \in Nat
    BY ListingAssumption
  <2>2. found \subseteq 1 .. Len(table)
    BY <1>1, <2>1 DEF Matching
  <2>3. IsFiniteSet(1 .. Len(table))
    BY <2>1, FS_Interval
  <2>4. IsFiniteSet(found)
    BY <2>2, <2>3, FS_Subset
  <2> QED BY <2>1, <2>2, <2>4
<1>3. \A c \in found : table[c] \in Comment
  BY <1>2
<1>4. CASE k = "comments"
  <2>1. PICK all : all = CommentRows(table, pattern)
    OBVIOUS
  <2>2. all = {[id |-> c, votes |-> table[c].votes, count |-> Cardinality(table[c].votes)] : c \in found}
    BY <1>1, <2>1 DEF CommentRows
  <2>3. IsFiniteSet(all)
    <3>1. PICK f : f = [c \in found |->
                          [id |-> c, votes |-> table[c].votes, count |-> Cardinality(table[c].votes)]]
      OBVIOUS
    <3>2. f = [c \in found |-> f[c]] /\ all = {f[c] : c \in found}
      BY <2>2, <3>1
    <3> QED BY <1>2, <3>2, FiniteValues
  <2>4. all \subseteq Row[k]
    <3>1. ASSUME NEW c \in found
          PROVE  table[c].votes \in SUBSET Voter /\ Cardinality(table[c].votes) \in Nat
      <4>1. table[c].votes \in SUBSET Voter
        BY <1>3 DEF Comment
      <4>2. IsFiniteSet(table[c].votes)
        BY <4>1, ListingAssumption, FS_Subset
      <4> QED BY <4>1, <4>2, FS_CardinalityType
    <3>2. Row[k] = [id : 1 .. MaxComments, votes : SUBSET Voter, count : Nat]
      BY <1>4 DEF Row
    <3> QED BY <1>2, <2>2, <3>1, <3>2
  <2>5. rows \in Ordered(all, n)
    BY <1>4, <2>1 DEF Results
  <2> QED BY <2>3, <2>4, <2>5, OrderedTyped
<1>5. CASE k = "sites"
  <2>1. PICK all : all = SiteRows(table, pattern)
    OBVIOUS
  <2>2. PICK sites : sites = {table[c].site : c \in found}
    OBVIOUS
  <2>3. all = {[site |-> s, count |-> Cardinality({c \in found : table[c].site = s})] : s \in sites}
    BY <1>1, <2>1, <2>2 DEF SiteRows
  <2>4. IsFiniteSet(all)
    <3>1. PICK f : f = [c \in found |-> table[c].site]
      OBVIOUS
    <3>2. f = [c \in found |-> f[c]] /\ sites = {f[c] : c \in found}
      BY <2>2, <3>1
    <3>3. IsFiniteSet(sites)
      BY <1>2, <3>2, FiniteValues
    <3>4. PICK g : g = [s \in sites |->
                          [site |-> s, count |-> Cardinality({c \in found : table[c].site = s})]]
      OBVIOUS
    <3>5. g = [s \in sites |-> g[s]] /\ all = {g[s] : s \in sites}
      BY <2>3, <3>4
    <3> QED BY <3>3, <3>5, FiniteValues
  <2>5. all \subseteq Row[k]
    <3>1. ASSUME NEW s \in sites
          PROVE  s \in Site /\ Cardinality({c \in found : table[c].site = s}) \in Nat
      <4>1. s \in Site
        BY <1>3, <2>2 DEF Comment
      <4>2. IsFiniteSet({c \in found : table[c].site = s})
        BY <1>2, FS_Subset
      <4> QED BY <4>1, <4>2, FS_CardinalityType
    <3>2. Row[k] = [site : Site, count : Nat]
      BY <1>5 DEF Row
    <3>3. ASSUME NEW s \in sites
          PROVE  [site |-> s, count |-> Cardinality({c \in found : table[c].site = s})]
                   \in [site : Site, count : Nat]
      <4>1. PICK n1 \in Nat : n1 = Cardinality({c \in found : table[c].site = s})
        BY <3>1
      <4> QED BY <3>1, <4>1
    <3> QED BY <2>3, <3>2, <3>3
  <2>6. rows \in Ordered(all, n)
    BY <1>5, <2>1 DEF Results
  <2> QED BY <2>4, <2>5, <2>6, OrderedTyped
<1> QED BY <1>4, <1>5 DEF Kind

-----------------------------------------------------------------------------
(* The types.                                                              *)

Labels == {"idle", "reset", "bindSite", "bindLimit", "test", "step", "columns", "reply"}

LEMMA InitTypes ==
    ASSUME Init
    PROVE  TypeInv
<1>1. \A k \in Kind : Fresh \in Statement(k) /\ StatementOK(Fresh)
  <2>1. \A k \in Kind : <<>> \in Seq(Row[k])
    OBVIOUS
  <2> QED BY <2>1 DEF Fresh, Statement, StatementOK, Pattern
<1>2. stmt = [k \in Kind |-> Fresh]
  BY DEF Init
<1>3. \A k \in Kind : stmt[k] \in Statement(k) /\ StatementOK(stmt[k])
  BY <1>1, <1>2
<1>4. comments \in Seq(Comment) /\ Len(comments) <= MaxComments
  BY ListingAssumption DEF Init
<1> QED BY <1>2, <1>3, <1>4 DEF Init, TypeInv, TypeOK

\* The request of a thread that serves one.
LEMMA Serves ==
    ASSUME TypeInv, NEW t \in Thread, pc[t] # "idle"
    PROVE  /\ req[t] \in Requests /\ req[t] \in Request
           /\ req[t].kind \in Kind /\ req[t].site \in Pattern /\ req[t].limit \in Limit /\ req[t].limit \in Nat
           /\ Mine(t) \in Statement(req[t].kind)
           /\ Mine(t).at <= Len(Mine(t).rows) + 1
<1>1. req[t] \in Requests /\ Requests \subseteq Request /\ Limit \subseteq Nat
  BY ListingAssumption DEF TypeInv
<1>2. req[t].kind \in Kind /\ req[t].site \in Pattern /\ req[t].limit \in Limit
  BY <1>1 DEF Request
<1>3. Mine(t) \in Statement(req[t].kind) /\ StatementOK(Mine(t))
  BY <1>2 DEF TypeInv, TypeOK, Mine
<1>4. Mine(t).at <= Len(Mine(t).rows) + 1
  BY <1>3 DEF StatementOK, Statement
<1> QED BY <1>1, <1>2, <1>3, <1>4

\* A call of SQLite, and what it does to the statement of t.
Uses(t, l, s, x) ==
    /\ pc[t] # "idle" /\ pc' = [pc EXCEPT ![t] = l]
    /\ stmt' = [stmt EXCEPT ![req[t].kind] = s]
    /\ Collect(t, x)
    /\ alone' = (alone \ Others(t)) \cup (alone' \cap {t})
    /\ UNCHANGED <<comments, req>>

LEMMA UsesTyped ==
    ASSUME TypeInv, NEW t \in Thread, NEW l \in Labels \ {"idle", "reset"}, NEW s, NEW x \in Seq(Entry),
           Uses(t, l, s, x), s \in Statement(req[t].kind), s.at <= Len(s.rows) + 1,
           t \in alone => t \in alone',
           got' \in [Thread -> {"row", "done"}], seen' \in [Thread -> SUBSET Tables]
    PROVE  TypeInv'
<1>1. req[t].kind \in Kind
  BY Serves DEF Uses
<1>2. /\ DOMAIN stmt = Kind /\ \A k \in Kind : stmt[k] \in Statement(k) /\ StatementOK(stmt[k])
      /\ stmt' = [stmt EXCEPT ![req[t].kind] = s]
  BY DEF Uses, TypeInv, TypeOK
<1>3. StatementOK(s)
  BY <1>1 DEF Statement, StatementOK
<1>4. DOMAIN stmt' = Kind /\ \A k \in Kind : stmt'[k] \in Statement(k) /\ StatementOK(stmt'[k])
  BY <1>1, <1>2, <1>3
<1>5. listing' \in [Thread -> Seq(Entry)]
  <2>1. \A u \in Thread : listing[u] \in Seq(Entry) /\ listing[u] \o x \in Seq(Entry)
    BY DEF TypeInv, TypeOK
  <2>2. listing' = [u \in Thread |-> IF u \in Others(t) THEN <<>>
                                     ELSE IF u = t /\ t \in alone THEN listing[t] \o x ELSE listing[u]]
    BY DEF Uses, Collect
  <2>3. <<>> \in Seq(Entry)
    OBVIOUS
  <2> QED BY <2>1, <2>2, <2>3
<1>6. \A u \in Thread \ alone' : listing'[u] = <<>>
  <2>1. ASSUME NEW u \in Thread \ alone'
        PROVE  listing'[u] = <<>>
    <3>1. u \in Others(t) \/ u \notin alone
      BY <2>1 DEF Uses
    <3>2. CASE u \in Others(t)
      BY <3>2 DEF Uses, Collect
    <3>3. CASE u \notin Others(t) /\ u \notin alone
      BY <3>3 DEF Uses, Collect, TypeInv
    <3> QED BY <3>1, <3>2, <3>3
  <2> QED BY <2>1
<1>7. pc' \in [Thread -> Labels] /\ req' = req /\ comments' = comments /\ alone' \subseteq Thread
  BY DEF Uses, TypeInv, TypeOK, Labels
<1>8. \A u \in Thread : pc'[u] # "idle" => req'[u] \in Requests
  BY DEF Uses, TypeInv, TypeOK
<1>9. \A u \in alone' : pc'[u] \notin {"idle", "reset"}
  BY DEF Uses, TypeInv, TypeOK
<1> QED BY <1>4, <1>5, <1>6, <1>7, <1>8, <1>9 DEF TypeInv, TypeOK, Labels

-----------------------------------------------------------------------------
(* The threads that do not move.                                           *)

Untouched(u) ==
    /\ u \in alone /\ comments' = comments
    /\ pc'[u] = pc[u] /\ req'[u] = req[u] /\ got'[u] = got[u] /\ listing'[u] = listing[u]
    /\ seen'[u] = seen[u] /\ Mine(u)' = Mine(u)

LEMMA UntouchedKeeps ==
    ASSUME NEW u \in Thread, Untouched(u), Progress(u)
    PROVE  Progress(u)'
<1>1. Wanted(u)' = Wanted(u)
  BY DEF Untouched, Wanted
<1>2. \A rows, k : Collected(u, rows, k)' <=> Collected(u, rows, k)
  BY DEF Untouched, Collected
<1>3. CASE Started(u)
  <2>1. Started(u)'
    BY <1>3 DEF Started, Untouched
  <2> QED BY <2>1 DEF Progress, Untouched
<1>4. CASE Amid(u)
  <2>1. Amid(u)'
    BY <1>1, <1>2, <1>4 DEF Amid, Untouched
  <2> QED BY <2>1 DEF Progress, Untouched
<1>5. CASE Over(u)
  <2>1. Over(u)'
    BY <1>1, <1>2, <1>5 DEF Over, Untouched
  <2> QED BY <2>1 DEF Progress, Untouched
<1> QED BY <1>3, <1>4, <1>5 DEF Progress

LEMMA OthersUntouched ==
    ASSUME TypeInv, NEW t \in Thread, NEW l, NEW s, NEW x, Uses(t, l, s, x),
           NEW u \in alone', u # t, got'[u] = got[u], u \notin Others(t) => seen'[u] = seen[u]
    PROVE  Untouched(u)
<1>1. u \in alone /\ u \notin Others(t) /\ u \in Thread
  BY DEF Uses, TypeInv, TypeOK
<1>2. req[u].kind # req[t].kind
  BY <1>1 DEF Others
<1>3. req'[u] = req[u] /\ pc'[u] = pc[u] /\ listing'[u] = listing[u] /\ comments' = comments
  BY <1>1 DEF Uses, Collect, TypeInv, TypeOK
<1>4. stmt'[req[u].kind] = stmt[req[u].kind]
  <2>1. pc[u] # "idle"
    BY <1>1 DEF TypeInv
  <2>2. req[u].kind \in Kind
    BY <1>1, <2>1, Serves
  <2> QED BY <1>2, <2>2 DEF Uses, TypeInv, TypeOK
<1> QED BY <1>1, <1>3, <1>4 DEF Untouched, Mine

\* What t itself finds after its step.
LEMMA MineUsed ==
    ASSUME TypeInv, NEW t \in Thread, NEW l, NEW s, NEW x, Uses(t, l, s, x)
    PROVE  /\ Mine(t)' = s /\ pc'[t] = l /\ req'[t] = req[t]
           /\ t \in alone => listing'[t] = listing[t] \o x
           /\ t \notin alone => listing'[t] = listing[t]
<1>1. req[t].kind \in Kind
  BY Serves DEF Uses
<1>2. t \notin Others(t)
  BY DEF Others
<1> QED BY <1>1, <1>2 DEF Uses, Collect, Mine, TypeInv, TypeOK

-----------------------------------------------------------------------------
(* The calls of SQLite.                                                    *)

LEMMA UsesKeeps ==
    ASSUME ListingInv, NEW t \in Thread, NEW l \in Labels \ {"idle", "reset"}, NEW s, NEW x \in Seq(Entry),
           Uses(t, l, s, x), s \in Statement(req[t].kind), s.at <= Len(s.rows) + 1,
           t \in alone => t \in alone',
           got' \in [Thread -> {"row", "done"}], seen' \in [Thread -> SUBSET Tables],
           \A u \in Thread \ {t} : got'[u] = got[u] /\ (u \notin Others(t) => seen'[u] = seen[u]),
           t \in alone' => Progress(t)'
    PROVE  ListingInv'
<1>1. TypeInv'
  BY UsesTyped DEF ListingInv
<1>2. ASSUME NEW u \in alone'
      PROVE  Progress(u)'
  <2>1. CASE u = t
    BY <1>2, <2>1
  <2>2. CASE u # t
    <3>1. u \in Thread
      BY <1>1 DEF TypeInv, TypeOK
    <3>2. got'[u] = got[u] /\ (u \notin Others(t) => seen'[u] = seen[u])
      BY <2>2, <3>1
    <3>3. Untouched(u)
      BY <1>2, <2>2, <3>2, OthersUntouched DEF ListingInv
    <3>4. u \in alone
      BY <3>3 DEF Untouched
    <3>5. Progress(u)
      BY <3>4 DEF ListingInv
    <3> QED BY <3>1, <3>3, <3>5, UntouchedKeeps
  <2> QED BY <2>1, <2>2
<1> QED BY <1>1, <1>2 DEF ListingInv

LEMMA EmptySeq == <<>> \in Seq(Entry) /\ \A q \in Seq(Entry) : q \o <<>> = q
OBVIOUS

LEMMA ResetKeeps ==
    ASSUME ListingInv, NEW t \in Thread, Reset(t)
    PROVE  ListingInv'
<1>1. TypeInv /\ pc[t] = "reset"
  BY DEF ListingInv, Reset, Goto
<1>2. PICK old : old = Mine(t)
  OBVIOUS
<1>3. PICK s : s = ResetStatement(old)
  OBVIOUS
<1>4. old \in Statement(req[t].kind)
  BY <1>1, <1>2, Serves
<1>5. s \in Statement(req[t].kind) /\ s.at = 0 /\ s.rows = <<>> /\ s.status = "row"
  <2>1. <<>> \in Seq(Row[req[t].kind])
    OBVIOUS
  <2> QED BY <1>3, <1>4, <2>1 DEF ResetStatement, Statement
<1>6. t \notin alone /\ listing[t] = <<>>
  BY <1>1 DEF TypeInv
<1>7. Uses(t, "bindSite", s, <<>>)
  <2>1. t \in alone'
    BY DEF Reset
  <2> QED BY <1>1, <1>2, <1>3, <2>1 DEF Uses, Reset, Goto
<1>8. Progress(t)'
  <2>1. Mine(t)' = s /\ pc'[t] = "bindSite" /\ listing'[t] = <<>>
    BY <1>1, <1>6, <1>7, MineUsed
  <2>2. Started(t)'
    BY <1>5, <2>1 DEF Started
  <2>3. comments' \in seen'[t]
    BY DEF Reset
  <2> QED BY <2>2, <2>3 DEF Progress
<1>9. got' = got /\ \A u \in Thread \ {t} : u \notin Others(t) => seen'[u] = seen[u]
  BY DEF Reset
<1>10. got' \in [Thread -> {"row", "done"}]
  BY <1>1, <1>9 DEF TypeInv, TypeOK
<1>11. s.at <= Len(s.rows) + 1
  BY <1>5
<1>12. "bindSite" \in Labels \ {"idle", "reset"}
  BY DEF Labels
<1>13. seen' \in [Thread -> SUBSET Tables]
  <2>1. {comments} \in SUBSET Tables
    BY <1>1 DEF TypeInv, TypeOK, Tables
  <2> QED BY <1>1, <2>1 DEF Reset, TypeInv
<1> QED BY <1>13, <1>5, <1>6, <1>7, <1>8, <1>9, <1>10, <1>11, <1>12, EmptySeq, UsesKeeps

\* setArgs, as it binds one argument.
LEMMA BindKeeps ==
    ASSUME ListingInv, NEW t \in Thread, NEW l \in {"bindLimit", "test"}, NEW s,
           pc[t] # "idle", pc' = [pc EXCEPT ![t] = l],
           Use(t, s), Collect(t, <<>>), UNCHANGED <<comments, req, got>>,
           s \in Statement(req[t].kind), s.at = Mine(t).at, s.rows = Mine(t).rows,
           t \in alone => /\ s.at = 0 /\ s.rows = <<>> /\ s.status = "row" /\ listing[t] = <<>>
                          /\ s.site = req[t].site /\ (l = "test" => s.limit = req[t].limit)
    PROVE  ListingInv'
<1>1. TypeInv
  BY DEF ListingInv
<1>2. alone' = alone \ Others(t) /\ t \notin Others(t)
  BY DEF Use, Others
<1>3. Uses(t, l, s, <<>>)
  BY <1>2 DEF Uses, Use
<1>4. ASSUME t \in alone'
      PROVE  Progress(t)'
  <2>1. t \in alone /\ Progress(t)
    BY <1>2, <1>4 DEF ListingInv
  <2>2. /\ Mine(t)' = s /\ pc'[t] = l /\ req'[t] = req[t] /\ listing'[t] = <<>>
    <3>1. Mine(t)' = s /\ pc'[t] = l /\ req'[t] = req[t] /\ listing'[t] = listing[t] \o <<>>
      BY <1>1, <1>3, <2>1, MineUsed
    <3> QED BY <2>1, <3>1, EmptySeq
  <2>3. Started(t)'
    BY <2>1, <2>2 DEF Started
  <2>4. comments' \in seen'[t]
    BY <1>2, <2>1 DEF Use, Progress
  <2> QED BY <2>3, <2>4 DEF Progress
<1>5. got' \in [Thread -> {"row", "done"}]
  BY <1>1 DEF TypeInv, TypeOK
<1>6. s.at <= Len(s.rows) + 1
  BY <1>1, Serves
<1>7. \A u \in Thread \ {t} : got'[u] = got[u] /\ (u \notin Others(t) => seen'[u] = seen[u])
  BY DEF Use
<1>8. l \in Labels \ {"idle", "reset"}
  BY DEF Labels
<1>9. seen' \in [Thread -> SUBSET Tables]
  BY <1>1 DEF Use, TypeInv
<1> QED BY <1>9, <1>2, <1>3, <1>4, <1>5, <1>6, <1>7, <1>8, EmptySeq, UsesKeeps

LEMMA BindSiteKeeps ==
    ASSUME ListingInv, NEW t \in Thread, BindSite(t)
    PROVE  ListingInv'
<1>1. TypeInv /\ pc[t] = "bindSite"
  BY DEF ListingInv, BindSite, Goto
<1>2. PICK old : old = Mine(t)
  OBVIOUS
<1>3. PICK s : s = IF old.at = 0 THEN [old EXCEPT !.site = req[t].site] ELSE old
  OBVIOUS
<1>4. old \in Statement(req[t].kind) /\ req[t].site \in Pattern
  BY <1>1, <1>2, Serves
<1>5. /\ s \in Statement(req[t].kind) /\ s.at = old.at /\ s.rows = old.rows /\ s.status = old.status
      /\ old.at = 0 => s.site = req[t].site
  BY <1>3, <1>4 DEF Statement
<1>6. t \in alone => old.at = 0 /\ old.rows = <<>> /\ old.status = "row" /\ listing[t] = <<>>
  BY <1>1, <1>2 DEF ListingInv, Progress, Started, Amid, Over
<1>7. Use(t, s) /\ Collect(t, <<>>) /\ UNCHANGED <<comments, req, got>> /\ pc' = [pc EXCEPT ![t] = "bindLimit"]
  BY <1>2, <1>3 DEF BindSite, Goto
<1> QED BY <1>1, <1>2, <1>5, <1>6, <1>7, BindKeeps

LEMMA BindLimitKeeps ==
    ASSUME ListingInv, NEW t \in Thread, BindLimit(t)
    PROVE  ListingInv'
<1>1. TypeInv /\ pc[t] = "bindLimit"
  BY DEF ListingInv, BindLimit, Goto
<1>2. PICK old : old = Mine(t)
  OBVIOUS
<1>3. PICK s : s = IF old.at = 0 THEN [old EXCEPT !.limit = req[t].limit] ELSE old
  OBVIOUS
<1>4. old \in Statement(req[t].kind) /\ req[t].limit \in Limit
  BY <1>1, <1>2, Serves
<1>5. /\ s \in Statement(req[t].kind) /\ s.at = old.at /\ s.rows = old.rows /\ s.status = old.status
      /\ s.site = old.site /\ (old.at = 0 => s.limit = req[t].limit)
  BY <1>3, <1>4 DEF Statement
<1>6. t \in alone => /\ old.at = 0 /\ old.rows = <<>> /\ old.status = "row" /\ listing[t] = <<>>
                     /\ old.site = req[t].site
  BY <1>1, <1>2 DEF ListingInv, Progress, Started, Amid, Over
<1>7. Use(t, s) /\ Collect(t, <<>>) /\ UNCHANGED <<comments, req, got>> /\ pc' = [pc EXCEPT ![t] = "test"]
  BY <1>2, <1>3 DEF BindLimit, Goto
<1> QED BY <1>1, <1>2, <1>5, <1>6, <1>7, BindKeeps

\* A call of sqlite3_step, whatever it does to the statement.
LEMMA StepUses ==
    ASSUME ListingInv, NEW t \in Thread, pc[t] = "step", Step(t), NEW s,
           Use(t, s), got' = [got EXCEPT ![t] = IF s.at \in DOMAIN s.rows THEN "row" ELSE "done"],
           s \in Statement(req[t].kind), s.at <= Len(s.rows) + 1,
           ASSUME Progress(t), t \in alone, t \in alone', seen'[t] = seen[t], Uses(t, "columns", s, <<>>)
           PROVE  Progress(t)'
    PROVE  ListingInv'
<1>1. alone' = alone \ Others(t) /\ t \notin Others(t)
  BY DEF Use, Others
<1>2. Uses(t, "columns", s, <<>>)
  BY <1>1 DEF Uses, Use, Step, Goto
<1>3. t \in alone' => Progress(t)'
  BY <1>1, <1>2 DEF Use, ListingInv
<1>4. /\ got' \in [Thread -> {"row", "done"}]
      /\ \A u \in Thread \ {t} : got'[u] = got[u] /\ (u \notin Others(t) => seen'[u] = seen[u])
  BY DEF Use, ListingInv, TypeInv, TypeOK
<1>5. "columns" \in Labels \ {"idle", "reset"}
  BY DEF Labels
<1>6. seen' \in [Thread -> SUBSET Tables]
  BY DEF Use, ListingInv, TypeInv
<1> QED BY <1>6, <1>1, <1>2, <1>3, <1>4, <1>5, EmptySeq, UsesKeeps

\* t steps its statement to s.
LEMMA StepKeeps ==
    ASSUME ListingInv, NEW t \in Thread, Step(t)
    PROVE  ListingInv'
<1>1. TypeInv /\ pc[t] = "step"
  BY DEF ListingInv, Step, Goto
<1>2. PICK old : old = Mine(t)
  OBVIOUS
<1>3. PICK s \in Stepped(req[t].kind, old) :
        Use(t, s) /\ got' = [got EXCEPT ![t] = IF s.at \in DOMAIN s.rows THEN "row" ELSE "done"]
  BY <1>2 DEF Step
<1>4. PICK kind, site, limit : kind = req[t].kind /\ site = req[t].site /\ limit = req[t].limit
  OBVIOUS
<1>5. kind \in Kind /\ old \in Statement(kind)
  BY <1>1, <1>2, <1>4, Serves
<1>6. old.limit \in Nat /\ old.at \in Nat /\ old.rows \in Seq(Row[kind])
  <2>1. old.limit \in Limit \cup {0} /\ old.at \in Nat /\ old.rows \in Seq(Row[kind])
    BY <1>5 DEF Statement
  <2>2. Limit \cup {0} \subseteq Nat
    <3>1. Limit \subseteq Nat
      BY ListingAssumption
    <3> QED BY <3>1
  <2> QED BY <2>1, <2>2
<1>7. CASE old.at \in DOMAIN old.rows /\ old.at < Len(old.rows) /\ s = [old EXCEPT !.at = old.at + 1]
  <2>1. s \in Statement(kind) /\ s.at = old.at + 1 /\ s.rows = old.rows /\ s.status = old.status
    BY <1>5, <1>6, <1>7 DEF Statement
  <2>2. s.at <= Len(s.rows) + 1 /\ s.at \in DOMAIN s.rows
    BY <1>6, <1>7, <2>1
  <2>3. ASSUME Progress(t), t \in alone, t \in alone', seen'[t] = seen[t], Uses(t, "columns", s, <<>>)
        PROVE  Progress(t)'
    <3>1. Amid(t)
      BY <1>1, <1>2, <1>7, <2>3 DEF Progress, Started, Over
    <3>2. Mine(t)' = s /\ pc'[t] = "columns" /\ req'[t] = req[t] /\ listing'[t] = listing[t]
      <4>1. listing[t] \o <<>> = listing[t]
        BY <1>1, EmptySeq DEF TypeInv, TypeOK
      <4> QED BY <1>1, <2>3, <4>1, MineUsed
    <3>3. Wanted(t)' = Wanted(t)
      BY <2>3, <3>2 DEF Wanted
    <3>4. got'[t] = "row"
      BY <1>1, <1>3, <2>2 DEF TypeInv, TypeOK
    <3>5. Collected(t, old.rows, old.at)'
      BY <1>1, <1>2, <3>1, <3>2 DEF Amid, Collected
    <3>6. s.at - 1 = old.at
      BY <1>6, <2>1
    <3>7. Collected(t, s.rows, s.at - 1)'
      BY <2>1, <3>5, <3>6
    <3>8. Amid(t)'
      BY <1>2, <2>1, <2>2, <3>1, <3>2, <3>3, <3>4, <3>7 DEF Amid
    <3> QED BY <2>3, <3>8 DEF Progress, Uses
  <2> QED BY <1>1, <1>3, <1>4, <2>1, <2>2, <2>3, StepUses
<1>8. CASE old.at \in DOMAIN old.rows /\ ~(old.at < Len(old.rows)) /\ s = [old EXCEPT !.at = 1, !.rows = <<>>]
  <2>1. s \in Statement(kind) /\ s.at = 1 /\ s.rows = <<>>
    <3>1. <<>> \in Seq(Row[kind])
      OBVIOUS
    <3> QED BY <1>5, <1>8, <3>1 DEF Statement
  <2>2. s.at <= Len(s.rows) + 1 /\ s.at \notin DOMAIN s.rows
    BY <2>1
  <2>3. ASSUME Progress(t), t \in alone, t \in alone', seen'[t] = seen[t], Uses(t, "columns", s, <<>>)
        PROVE  Progress(t)'
    <3>1. Amid(t) /\ old.at = Len(old.rows)
      BY <1>1, <1>2, <1>6, <1>8, <2>3 DEF Progress, Started, Over
    <3>2. Mine(t)' = s /\ pc'[t] = "columns" /\ req'[t] = req[t] /\ listing'[t] = listing[t]
      <4>1. listing[t] \o <<>> = listing[t]
        BY <1>1, EmptySeq DEF TypeInv, TypeOK
      <4> QED BY <1>1, <2>3, <4>1, MineUsed
    <3>3. Wanted(t)' = Wanted(t)
      BY <2>3, <3>2 DEF Wanted
    <3>4. got'[t] = "done"
      BY <1>1, <1>3, <2>2 DEF TypeInv, TypeOK
    <3>5. Collected(t, old.rows, Len(old.rows))' /\ old.rows \in Wanted(t)
      BY <1>1, <1>2, <3>1, <3>2 DEF Amid, Collected
    <3>6. Over(t)'
      BY <2>2, <3>2, <3>3, <3>4, <3>5 DEF Over
    <3> QED BY <2>3, <3>6 DEF Progress, Uses
  <2> QED BY <1>1, <1>3, <1>4, <2>1, <2>2, <2>3, StepUses
<1>9. CASE /\ old.at \notin DOMAIN old.rows
           /\ \E r \in Results(kind, comments, old.site, old.limit) : s = [old EXCEPT !.at = 1, !.rows = r]
  <2>1. PICK r \in Results(kind, comments, old.site, old.limit) : s = [old EXCEPT !.at = 1, !.rows = r]
    BY <1>9
  <2>2. r \in Seq(Row[kind])
    BY <1>1, <1>5, <1>6, ResultsTyped DEF TypeInv, TypeOK
  <2>3. s \in Statement(kind) /\ s.at = 1 /\ s.rows = r /\ s.status = old.status
    BY <1>5, <2>1, <2>2 DEF Statement
  <2>4. s.at <= Len(s.rows) + 1
    BY <2>2, <2>3
  <2>5. ASSUME Progress(t), t \in alone, t \in alone', seen'[t] = seen[t], Uses(t, "columns", s, <<>>)
        PROVE  Progress(t)'
    <3>1. Started(t)
      BY <1>1, <1>2, <1>9, <2>5 DEF Progress, Amid, Over
    <3>2. r \in Wanted(t)
      BY <1>2, <1>4, <1>1, <2>1, <2>5, <3>1 DEF Started, Wanted, Progress
    <3>3. Mine(t)' = s /\ pc'[t] = "columns" /\ req'[t] = req[t] /\ listing'[t] = <<>>
      <4>1. listing[t] \o <<>> = listing[t] /\ listing[t] = <<>>
        BY <1>1, <3>1, EmptySeq DEF Started, TypeInv, TypeOK
      <4> QED BY <1>1, <2>5, <4>1, MineUsed
    <3>4. Wanted(t)' = Wanted(t)
      BY <2>5, <3>3 DEF Wanted
    <3>5. Collected(t, r, 0)'
      BY <3>3 DEF Collected
    <3>6. CASE 1 \in DOMAIN r
      <4>1. got'[t] = "row"
        BY <1>1, <1>3, <2>3, <3>6 DEF TypeInv, TypeOK
      <4>2. Amid(t)'
        BY <1>2, <2>3, <3>1, <3>2, <3>3, <3>4, <3>5, <3>6, <4>1 DEF Amid, Started
      <4> QED BY <2>5, <4>2 DEF Progress, Uses
    <3>7. CASE 1 \notin DOMAIN r
      <4>1. got'[t] = "done" /\ Len(r) = 0
        BY <1>1, <1>3, <2>2, <2>3, <3>7 DEF TypeInv, TypeOK
      <4>2. Over(t)'
        BY <2>3, <3>2, <3>3, <3>4, <3>5, <3>7, <4>1 DEF Over
      <4> QED BY <2>5, <4>2 DEF Progress, Uses
    <3> QED BY <3>6, <3>7
  <2> QED BY <1>1, <1>3, <1>4, <2>3, <2>4, <2>5, StepUses
<1> QED BY <1>3, <1>4, <1>7, <1>8, <1>9 DEF Stepped

\* t reads the columns of the row its statement is at.
LEMMA EntriesTyped ==
    ASSUME NEW r \in Requests, NEW row \in Row[r.kind]
    PROVE  EntriesOf(r, <<row>>) = <<EntryOf(r, row)>> /\ EntryOf(r, row) \in Entry
<1>1. r.kind \in Kind
  BY ListingAssumption DEF Request
<1>2. CASE r.kind = "sites"
  BY <1>1, <1>2 DEF EntriesOf, EntryOf, Row, Entry
<1>3. CASE r.kind = "comments"
  <2>1. row \in [id : 1 .. MaxComments, votes : SUBSET Voter, count : Nat]
    BY <1>1, <1>3 DEF Row
  <2>2. EntryOf(r, row) \in Entry
    BY <1>3, <2>1 DEF EntryOf, Entry
  <2>3. EntriesOf(r, <<row>>) = [i \in 1 .. 1 |-> EntryOf(r, row)]
    BY <1>3 DEF EntriesOf, EntryOf
  <2> QED BY <2>2, <2>3
<1> QED BY <1>1, <1>2, <1>3 DEF Kind

LEMMA ColumnsKeeps ==
    ASSUME ListingInv, NEW t \in Thread, Columns(t)
    PROVE  ListingInv'
<1>1. TypeInv /\ pc[t] = "columns"
  BY DEF ListingInv, Columns, Goto
<1>2. PICK old, r, b : old = Mine(t) /\ r = req[t] /\ b = got[t]
  OBVIOUS
<1>3. PICK s : s = [old EXCEPT !.status = b]
  OBVIOUS
<1>4. r \in Requests /\ r.kind \in Kind /\ old \in Statement(r.kind) /\ old.at <= Len(old.rows) + 1
  BY <1>1, <1>2, Serves
<1>5. b \in {"row", "done"}
  BY <1>1, <1>2 DEF TypeInv, TypeOK
<1>6. s \in Statement(r.kind) /\ s.at = old.at /\ s.rows = old.rows /\ s.status = b
  BY <1>3, <1>4, <1>5 DEF Statement
<1>7. PICK x : x = EntriesOf(r, RowAt(old))
  OBVIOUS
<1>8. /\ Use(t, s) /\ Collect(t, x) /\ UNCHANGED <<comments, req>> /\ pc' = [pc EXCEPT ![t] = "test"]
      /\ got' = [got EXCEPT ![t] = "row"]
  BY <1>2, <1>3, <1>7 DEF Columns, Goto
<1>9. /\ old.at \in DOMAIN old.rows => x = <<EntryOf(r, old.rows[old.at])>> /\ EntryOf(r, old.rows[old.at]) \in Entry
      /\ old.at \notin DOMAIN old.rows => x = <<>>
  <2>1. CASE old.at \in DOMAIN old.rows
    <3>1. PICK row : row = old.rows[old.at]
      OBVIOUS
    <3>2. row \in Row[r.kind]
      BY <1>4, <2>1, <3>1 DEF Statement
    <3>3. x = EntriesOf(r, <<row>>)
      BY <1>7, <2>1, <3>1 DEF RowAt
    <3> QED BY <1>4, <2>1, <3>1, <3>2, <3>3, EntriesTyped
  <2>2. CASE old.at \notin DOMAIN old.rows
    <3>1. x = EntriesOf(r, <<>>)
      BY <1>7, <2>2 DEF RowAt
    <3>2. EntriesOf(r, <<>>) = <<>>
      BY DEF EntriesOf
    <3> QED BY <2>2, <3>1, <3>2
  <2> QED BY <2>1, <2>2
<1>10. x \in Seq(Entry)
  <2>1. ASSUME NEW e \in Entry
        PROVE  <<e>> \in Seq(Entry)
    OBVIOUS
  <2> QED BY <1>9, <2>1, EmptySeq
<1>11. alone' = alone \ Others(t) /\ t \notin Others(t)
  BY <1>8 DEF Use, Others
<1>12. Uses(t, "test", s, x)
  BY <1>1, <1>8, <1>11 DEF Uses, Use
<1>13. ASSUME t \in alone'
       PROVE  Progress(t)'
  <2>1. t \in alone /\ Progress(t) /\ seen'[t] = seen[t]
    BY <1>8, <1>11, <1>13 DEF ListingInv, Use
  <2>2. Mine(t)' = s /\ pc'[t] = "test" /\ req'[t] = r /\ listing'[t] = listing[t] \o x
    BY <1>1, <1>2, <1>12, <2>1, MineUsed
  <2>3. Wanted(t)' = Wanted(t)
    BY <1>2, <2>1, <2>2 DEF Wanted
  <2>4. PICK before : before = listing[t]
    OBVIOUS
  <2>5. before \in Seq(Entry)
    BY <1>1, <2>4 DEF TypeInv, TypeOK
  <2>6. CASE Amid(t)
    <3>1. old.at \in DOMAIN old.rows /\ b = "row" /\ Collected(t, old.rows, old.at - 1) /\ old.rows \in Wanted(t)
      BY <1>1, <1>2, <2>6 DEF Amid
    <3>2. PICK k, rows, e : k = old.at /\ rows = old.rows /\ e = EntryOf(r, old.rows[old.at])
      OBVIOUS
    <3>3. k \in Nat /\ k >= 1
      BY <1>4, <3>1, <3>2 DEF Statement
    <3>4. Len(before) = k - 1 /\ \A i \in 1 .. k - 1 : before[i] = EntryOf(r, rows[i])
      BY <1>2, <2>4, <3>1, <3>2 DEF Collected
    <3>5. listing'[t] = before \o <<e>> /\ e \in Entry
      BY <1>9, <2>2, <2>4, <3>1, <3>2
    <3>6. Len(before \o <<e>>) = k /\ (before \o <<e>>)[k] = e
      BY <2>5, <3>3, <3>4, <3>5
    <3>7. \A i \in 1 .. k - 1 : (before \o <<e>>)[i] = before[i]
      BY <2>5, <3>3, <3>4, <3>5
    <3>8. \A i \in 1 .. k : listing'[t][i] = EntryOf(r, rows[i])
      BY <3>2, <3>3, <3>4, <3>5, <3>6, <3>7
    <3>9. Collected(t, rows, k)'
      BY <2>2, <3>5, <3>6, <3>8 DEF Collected
    <3>10. Amid(t)'
      BY <1>6, <2>2, <2>3, <3>1, <3>2, <3>9 DEF Amid
    <3> QED BY <1>8, <2>1, <3>10 DEF Progress
  <2>7. CASE Over(t)
    <3>1. old.at \notin DOMAIN old.rows /\ b = "done"
      BY <1>1, <1>2, <2>7 DEF Over
    <3>2. listing'[t] = listing[t]
      BY <1>9, <2>2, <2>4, <2>5, <3>1, EmptySeq
    <3>3. \A rows, k : Collected(t, rows, k)' <=> Collected(t, rows, k)
      BY <1>2, <2>2, <3>2 DEF Collected
    <3>4. Over(t)'
      BY <1>6, <2>2, <2>3, <2>7, <3>1, <3>3 DEF Over
    <3> QED BY <1>8, <2>1, <3>4 DEF Progress
  <2> QED BY <1>1, <2>1, <2>6, <2>7 DEF Progress, Started
<1>14. got' \in [Thread -> {"row", "done"}]
  BY <1>1, <1>8 DEF TypeInv, TypeOK
<1>15. s.at <= Len(s.rows) + 1
  BY <1>4, <1>6
<1>16. \A u \in Thread \ {t} : got'[u] = got[u] /\ (u \notin Others(t) => seen'[u] = seen[u])
  BY <1>1, <1>8 DEF Use, TypeInv, TypeOK
<1>17. "test" \in Labels \ {"idle", "reset"}
  BY DEF Labels
<1>18. seen' \in [Thread -> SUBSET Tables]
  BY <1>1, <1>8 DEF Use, TypeInv
<1> QED BY <1>18, <1>2, <1>6, <1>10, <1>11, <1>12, <1>13, <1>14, <1>15, <1>16, <1>17, UsesKeeps

-----------------------------------------------------------------------------
(* The other steps.                                                        *)

\* A step that uses no statement.
LEMMA QuietKeeps ==
    ASSUME ListingInv, NEW t \in Thread, UNCHANGED <<comments, stmt, got>>, TypeInv', alone' \subseteq alone,
           \A u \in Thread \ {t} : /\ pc'[u] = pc[u] /\ req'[u] = req[u]
                                   /\ listing'[u] = listing[u] /\ seen'[u] = seen[u],
           t \in alone' => Progress(t)'
    PROVE  ListingInv'
<1>1. ASSUME NEW u \in alone'
      PROVE  Progress(u)'
  <2>1. CASE u = t
    BY <1>1, <2>1
  <2>2. CASE u # t
    <3>1. u \in Thread /\ u \in alone /\ Progress(u)
      BY <1>1 DEF ListingInv, TypeInv, TypeOK
    <3>2. Untouched(u)
      BY <2>2, <3>1 DEF Untouched, Mine
    <3> QED BY <3>1, <3>2, UntouchedKeeps
  <2> QED BY <2>1, <2>2
<1> QED BY <1>1 DEF ListingInv

LEMMA AcceptKeeps ==
    ASSUME ListingInv, NEW t \in Thread, Accept(t)
    PROVE  ListingInv'
<1>1. TypeInv /\ pc[t] = "idle" /\ pc' = [pc EXCEPT ![t] = "reset"]
  BY DEF ListingInv, Accept, Goto
<1>2. PICK r \in Requests : req' = [req EXCEPT ![t] = r]
  BY DEF Accept
<1>3. UNCHANGED <<comments, stmt, got, listing, alone, seen>>
  BY DEF Accept
<1>4. t \notin alone
  BY <1>1 DEF TypeInv
<1>5. r \in Request
  BY ListingAssumption
<1>6. TypeOK'
  BY <1>1, <1>2, <1>3, <1>5 DEF TypeInv, TypeOK
<1>7. TypeInv'
  BY <1>1, <1>2, <1>3, <1>4, <1>6 DEF TypeInv, TypeOK
<1>8. \A u \in Thread \ {t} : pc'[u] = pc[u] /\ req'[u] = req[u]
  BY <1>1, <1>2 DEF TypeInv, TypeOK
<1> QED BY <1>3, <1>4, <1>7, <1>8, QuietKeeps

LEMMA TestKeeps ==
    ASSUME ListingInv, NEW t \in Thread, Test(t)
    PROVE  ListingInv'
<1>1. TypeInv /\ pc[t] = "test" /\ UNCHANGED <<comments, stmt, req, got, listing, alone, seen>>
  BY DEF ListingInv, Test, Goto
<1>2. PICK l \in {"step", "reply"} : /\ pc' = [pc EXCEPT ![t] = l]
                                     /\ Mine(t).status = IF l = "step" THEN "row" ELSE "done"
  BY DEF Test, Goto
<1>3. TypeInv'
  BY <1>1, <1>2 DEF TypeInv, TypeOK
<1>4. ASSUME t \in alone'
      PROVE  Progress(t)'
  <2>1. Progress(t) /\ comments' \in seen'[t]
    BY <1>1, <1>4 DEF ListingInv, Progress
  <2>2. Wanted(t)' = Wanted(t) /\ Mine(t)' = Mine(t) /\ pc'[t] = l /\ listing' = listing /\ req' = req
    BY <1>1, <1>2 DEF Wanted, Mine, TypeInv, TypeOK
  <2>3. \A rows, k : Collected(t, rows, k)' <=> Collected(t, rows, k)
    BY <2>2 DEF Collected
  <2>4. CASE l = "step"
    <3>1. Started(t) \/ Amid(t)
      BY <1>1, <1>2, <2>1, <2>4 DEF Progress, Over
    <3>2. Started(t)' \/ Amid(t)'
      BY <1>1, <2>2, <2>3, <2>4, <3>1 DEF Started, Amid
    <3> QED BY <2>1, <3>2 DEF Progress
  <2>5. CASE l = "reply"
    <3>1. Over(t)
      BY <1>1, <1>2, <2>1, <2>5 DEF Progress, Started, Amid
    <3>2. Over(t)'
      BY <2>2, <2>3, <2>5, <3>1 DEF Over
    <3> QED BY <2>1, <3>2 DEF Progress
  <2> QED BY <2>4, <2>5
<1>5. \A u \in Thread \ {t} : pc'[u] = pc[u]
  BY <1>1, <1>2 DEF TypeInv, TypeOK
<1> QED BY <1>1, <1>3, <1>4, <1>5, QuietKeeps

LEMMA CloseKeeps ==
    ASSUME ListingInv, NEW t \in Thread, Close(t)
    PROVE  ListingInv'
<1>1. TypeInv /\ pc' = [pc EXCEPT ![t] = "idle"]
  BY DEF ListingInv, Close, Goto
<1>2. TypeOK'
  BY <1>1, EmptySeq DEF Close, TypeInv, TypeOK
<1>3. TypeInv'
  BY <1>1, <1>2 DEF Close, TypeInv, TypeOK
<1>4. \A u \in Thread \ {t} : /\ pc'[u] = pc[u] /\ req'[u] = req[u]
                              /\ listing'[u] = listing[u] /\ seen'[u] = seen[u]
  BY <1>1 DEF Close, TypeInv, TypeOK
<1>5. UNCHANGED <<comments, stmt, got>> /\ alone' \subseteq alone /\ t \notin alone'
  BY DEF Close
<1> QED BY <1>3, <1>4, <1>5, QuietKeeps

LEMMA WriteKeeps ==
    ASSUME ListingInv, NEW table \in Seq(Comment), Len(table) <= MaxComments, Write(table)
    PROVE  ListingInv'
<1>1. UNCHANGED <<stmt, pc, req, got, listing, alone>> /\ comments' = table
  BY DEF Write
<1>2. TypeInv'
  <2>1. seen' \in [Thread -> SUBSET Tables]
    <3>1. \A t \in Thread : seen[t] \cup {table} \in SUBSET Tables
      BY DEF ListingInv, TypeInv, Tables
    <3> QED BY <3>1 DEF Write
  <2>2. TypeOK'
    BY <1>1 DEF ListingInv, TypeInv, TypeOK
  <2> QED BY <1>1, <2>1, <2>2 DEF ListingInv, TypeInv
<1>3. ASSUME NEW t \in alone'
      PROVE  Progress(t)'
  <2>1. t \in Thread /\ t \in alone /\ Progress(t)
    BY <1>1, <1>3 DEF ListingInv, TypeInv, TypeOK
  <2>2. seen'[t] = seen[t] \cup {table}
    BY <2>1 DEF Write
  <2>3. Wanted(t) \subseteq Wanted(t)' /\ Mine(t)' = Mine(t)
    BY <1>1, <2>2 DEF Wanted, Mine
  <2>4. \A rows, k : Collected(t, rows, k)' <=> Collected(t, rows, k)
    BY <1>1 DEF Collected
  <2>5. Started(t) => Started(t)'
    BY <1>1, <2>3 DEF Started
  <2>6. Amid(t) => Amid(t)'
    BY <1>1, <2>3, <2>4 DEF Amid
  <2>7. Over(t) => Over(t)'
    BY <1>1, <2>3, <2>4 DEF Over
  <2> QED BY <1>1, <2>1, <2>2, <2>5, <2>6, <2>7 DEF Progress
<1> QED BY <1>2, <1>3 DEF ListingInv

LEMMA InvStep ==
    ASSUME ListingInv, [Next]_vars
    PROVE  ListingInv'
<1>1. comments \in Seq(Comment) /\ Len(comments) <= MaxComments /\ MaxComments \in Nat
  BY ListingAssumption DEF ListingInv, TypeInv, TypeOK
<1>2. CASE Post
  <2>1. PICK s \in Site : Len(comments) < MaxComments /\ Write(Append(comments, [site |-> s, votes |-> {}]))
    BY <1>2 DEF Post
  <2>2. PICK c : c = [site |-> s, votes |-> {}]
    OBVIOUS
  <2>3. c \in Comment
    BY <2>2 DEF Comment
  <2>4. Append(comments, c) \in Seq(Comment) /\ Len(Append(comments, c)) <= MaxComments
    BY <1>1, <2>1, <2>3
  <2> QED BY <2>1, <2>2, <2>4, WriteKeeps
<1>3. CASE Vote
  <2>1. PICK c \in DOMAIN comments, u \in Voter :
          Write([comments EXCEPT ![c].votes = IF u \in @ THEN @ \ {u} ELSE @ \cup {u}])
    BY <1>3 DEF Vote
  <2>2. PICK v : v = IF u \in comments[c].votes THEN comments[c].votes \ {u} ELSE comments[c].votes \cup {u}
    OBVIOUS
  <2>3. comments[c] \in Comment
    BY <1>1
  <2>4. PICK new : new = [comments[c] EXCEPT !.votes = v]
    OBVIOUS
  <2>5. new \in Comment
    BY <2>2, <2>3, <2>4 DEF Comment
  <2>6. PICK table : table = [comments EXCEPT ![c] = new]
    OBVIOUS
  <2>7. table \in Seq(Comment) /\ Len(table) = Len(comments)
    BY <1>1, <2>5, <2>6
  <2>8. table = [comments EXCEPT ![c].votes = IF u \in @ THEN @ \ {u} ELSE @ \cup {u}]
    BY <2>2, <2>4, <2>6
  <2> QED BY <1>1, <2>1, <2>7, <2>8, WriteKeeps
<1>4. ASSUME NEW t \in Thread, Accept(t) \/ Serve(t)
      PROVE  ListingInv'
  BY <1>4, AcceptKeeps, ResetKeeps, BindSiteKeeps, BindLimitKeeps, TestKeeps, StepKeeps, ColumnsKeeps,
     CloseKeeps, Zenon DEF Serve
<1>5. CASE UNCHANGED vars
  <2>1. TypeInv'
    BY <1>5 DEF vars, ListingInv, TypeInv, TypeOK, StatementOK, Statement
  <2>2. ASSUME NEW t \in alone'
        PROVE  Progress(t)'
    BY <1>5, <2>2, UntouchedKeeps DEF vars, Untouched, Mine, ListingInv, TypeInv, TypeOK
  <2> QED BY <2>1, <2>2 DEF ListingInv
<1> QED BY <1>2, <1>3, <1>4, <1>5 DEF Next

-----------------------------------------------------------------------------
(* The theorems.                                                           *)

\* The handlers that list keep the types, and no statement runs past its rows.
THEOREM TypeCorrect == Spec => []TypeOK
<1>1. Init => ListingInv
  BY InitTypes DEF Init, ListingInv
<1>2. ListingInv /\ [Next]_vars => ListingInv'
  BY InvStep
<1>3. ListingInv => TypeOK
  BY DEF ListingInv, TypeInv
<1> QED BY <1>1, <1>2, <1>3, PTL DEF Spec

\* What was collected whole is what the handler makes of the rows.
LEMMA WholeListing ==
    ASSUME TypeInv, NEW t \in Thread, pc[t] # "idle", NEW rows \in Seq(Row[req[t].kind]),
           Collected(t, rows, Len(rows))
    PROVE  listing[t] = EntriesOf(req[t], rows)
<1>1. PICK n, l : n = Len(rows) /\ l = listing[t]
  OBVIOUS
<1>2. n \in Nat /\ rows = [i \in 1 .. n |-> rows[i]]
  BY <1>1
<1>3. l \in Seq(Entry) /\ Len(l) = n /\ \A i \in 1 .. n : l[i] = EntryOf(req[t], rows[i])
  BY <1>1 DEF Collected, TypeInv, TypeOK
<1>4. l = [i \in 1 .. n |-> EntryOf(req[t], rows[i])]
  BY <1>3
<1>5. CASE req[t].kind = "sites"
  <2>1. l = [i \in 1 .. n |-> rows[i]]
    BY <1>4, <1>5 DEF EntryOf
  <2> QED BY <1>1, <1>2, <1>5, <2>1 DEF EntriesOf
<1>6. CASE req[t].kind # "sites"
  <2>1. DOMAIN rows = 1 .. n
    BY <1>2
  <2> QED BY <1>1, <1>4, <1>6, <2>1 DEF EntriesOf, EntryOf
<1> QED BY <1>5, <1>6

\* A listing whose statement no other thread touched is complete, sorted and the
\* content the comments table had at one moment of the request: for any number of
\* threads, comments, voters and requests.
THEOREM UndisturbedListingIsSnapshotCorrect == Spec => []UndisturbedListingIsSnapshot
<1>1. Init => ListingInv
  BY InitTypes DEF Init, ListingInv
<1>2. ListingInv /\ [Next]_vars => ListingInv'
  BY InvStep
<1>3. ASSUME ListingInv
      PROVE  UndisturbedListingIsSnapshot
  <2>1. SUFFICES ASSUME NEW t \in alone, pc[t] = "reply"
                 PROVE  \E table \in seen[t] : listing[t] \in Asked(req[t], table)
    BY DEF UndisturbedListingIsSnapshot
  <2>2. TypeInv /\ t \in Thread /\ Over(t)
    BY <1>3, <2>1 DEF ListingInv, TypeInv, TypeOK, Progress, Started, Amid
  <2>6. PICK rows \in Wanted(t) : Collected(t, rows, Len(rows))
    BY <2>2 DEF Over
  <2>3. PICK table \in seen[t] : rows \in Results(req[t].kind, table, req[t].site, req[t].limit)
    BY <2>6 DEF Wanted
  <2>4. rows \in Seq(Row[req[t].kind])
    <3>1. table \in Seq(Comment) /\ Len(table) <= MaxComments
      BY <2>2, <2>3 DEF TypeInv, Tables
    <3> QED BY <2>1, <2>2, <2>3, <3>1, Serves, ResultsTyped
  <2>5. listing[t] = EntriesOf(req[t], rows)
    BY <2>1, <2>2, <2>4, <2>6, WholeListing
  <2> QED BY <2>3, <2>5 DEF Asked
<1> QED BY <1>1, <1>2, <1>3, PTL DEF Spec
=============================================================================
