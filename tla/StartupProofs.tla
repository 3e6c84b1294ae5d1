--------------------------- MODULE StartupProofs ---------------------------
(***************************************************************************)
(* Proofs about Startup.  A step of initPlugin can only be reached over a  *)
(* check that found the file good or over the statements of init.sql       *)
(* before it; the inductive invariant says what each of them has left in   *)
(* the file.                                                               *)
(***************************************************************************)
EXTENDS Startup, FiniteSetTheorems, TLAPS

\* Every table has the columns of structure.
AllGood == \A n \in Table : table[n] = "good"

\* The tables that are there before each statement of initPlugin.
Made(at) ==
    CASE at = "resources" -> {"users", "sqlite_sequence"}
      [] at = "comments" -> {"users", "resources", "sqlite_sequence"}
      [] OTHER -> {}

\* The rows of init.sql that are there before each statement of initPlugin.
Inserted(at) ==
    CASE at = "test" -> {"admin"}
      [] at = "comment" -> {"admin", "test"}
      [] OTHER -> {}

Creating == {"vacuum", "users", "resources", "comments"}

Seeding == {"admin", "test", "comment"}

Tables ==
    /\ pc \in Creating =>
           table = [n \in Table |-> IF n \in Made(pc) THEN "good" ELSE "none"]
    /\ pc \in Seeding \cup {"drop", "up"} => AllGood
    /\ pc = "wipe" => ~AllGood

Seeds ==
    /\ pc \in Seeding => Inserted(pc) \subseteq rows
    /\ pc \in {"down", "check", "drop", "up"} /\ AllGood /\ rebuilt /\ ~cut
           => Seeding \subseteq rows

IInv == TypeOK /\ Tables /\ Seeds

-----------------------------------------------------------------------------

\* There are four tables.
LEMMA FourTables == IsFiniteSet(Table) /\ Cardinality(Table) = 4
<1>1. IsFiniteSet({}) /\ Cardinality({}) = 0
  BY FS_EmptySet
<1>2. IsFiniteSet({"comments"}) /\ Cardinality({"comments"}) = 1
  BY FS_Singleton
<1>3. IsFiniteSet({"comments", "users"}) /\ Cardinality({"comments", "users"}) = 2
  <2>1. {"comments", "users"} = {"comments"} \cup {"users"} /\ "users" \notin {"comments"}
    OBVIOUS
  <2> QED BY <1>2, <2>1, FS_AddElement
<1>4. /\ IsFiniteSet({"comments", "users", "resources"})
      /\ Cardinality({"comments", "users", "resources"}) = 3
  <2>1. /\ {"comments", "users", "resources"} = {"comments", "users"} \cup {"resources"}
        /\ "resources" \notin {"comments", "users"}
    OBVIOUS
  <2> QED BY <1>3, <2>1, FS_AddElement
<1>5. /\ Table = {"comments", "users", "resources"} \cup {"sqlite_sequence"}
      /\ "sqlite_sequence" \notin {"comments", "users", "resources"}
  BY DEF Table
<1> QED BY <1>4, <1>5, FS_AddElement

\* The check of initPlugin, which counts the tables of the file, accepts
\* exactly the files that have every table.
LEMMA CheckIsExact ==
    ASSUME table \in [Table -> {"none", "good", "other"}]
    PROVE  StructureOK <=> AllGood
<1> DEFINE There == {n \in Table : table[n] # "none"}
<1>1. ASSUME AllGood PROVE StructureOK
  <2>1. There = Table
    BY <1>1 DEF AllGood
  <2> QED BY <1>1, <2>1, FourTables DEF AllGood, StructureOK
<1>2. ASSUME StructureOK PROVE AllGood
  <2>1. There \subseteq Table /\ Cardinality(There) = Cardinality(Table)
    BY <1>2, FourTables DEF StructureOK
  <2>2. There = Table
    BY <2>1, FourTables, FS_Subset
  <2> QED BY <1>2, <2>2 DEF StructureOK, AllGood
<1> QED BY <1>1, <1>2

LEMMA InitEstablishes == Init => IInv
<1> SUFFICES ASSUME Init PROVE IInv
  OBVIOUS
<1>1. TypeOK
  BY DEF Init, TypeOK
<1>2. Tables
  BY DEF Init, Tables, Creating, Seeding
<1>3. Seeds
  BY DEF Init, Seeds, Seeding
<1> QED BY <1>1, <1>2, <1>3 DEF IInv

\* CREATE TABLE of init.sql.
LEMMA CreateKeeps ==
    ASSUME IInv, NEW n, NEW next, Create(n, next),
           <<n, next>> \in {<<"users", "resources">>, <<"resources", "comments">>,
                            <<"comments", "admin">>}
    PROVE  IInv'
<1>1. /\ pc = n /\ pc' = next
      /\ table' = [table EXCEPT ![n] = "good", !["sqlite_sequence"] = "good"]
      /\ UNCHANGED <<rows, sessions, rebuilt, cut>>
  BY DEF Create, history
<1>2. table = [m \in Table |-> IF m \in Made(pc) THEN "good" ELSE "none"]
  BY <1>1 DEF IInv, Tables, Creating
<1>3. /\ table' \in [Table -> {"none", "good", "other"}]
      /\ \A m \in Table : table'[m] = "none" => table[m] = "none"
  BY <1>1 DEF IInv, TypeOK, Table
<1>4. TypeOK'
  BY <1>1, <1>3 DEF IInv, TypeOK, TablesOfRowsExist, Inits, Table
<1>5. Tables'
  <2>1. CASE n = "users"
    BY <1>1, <1>2, <2>1 DEF Tables, Creating, Seeding, Made, Table
  <2>2. CASE n = "resources"
    BY <1>1, <1>2, <2>2 DEF Tables, Creating, Seeding, Made, Table
  <2>3. CASE n = "comments"
    <3>1. pc' = "admin"
      BY <1>1, <2>3
    <3>2. AllGood'
      BY <1>1, <1>2, <2>3 DEF AllGood, Made, Table
    <3> QED BY <3>1, <3>2 DEF Tables, Creating, Seeding
  <2> QED BY <2>1, <2>2, <2>3
<1>6. Seeds'
  BY <1>1 DEF Seeds, Seeding, Inserted
<1> QED BY <1>4, <1>5, <1>6 DEF IInv

\* INSERT INTO of init.sql.
LEMMA InsertKeeps ==
    ASSUME IInv, NEW r, NEW next, Insert(r, next),
           <<r, next>> \in {<<"admin", "test">>, <<"test", "comment">>, <<"comment", "drop">>}
    PROVE  IInv'
<1>1. /\ pc = r /\ pc' = next /\ r \in Seeding /\ next \in {"test", "comment", "drop"}
      /\ rows' = rows \cup {r}
      /\ sessions' = IF r = "test" THEN sessions \cup {"test"} ELSE sessions
      /\ UNCHANGED <<table, rebuilt, cut>>
  BY DEF Insert, history, Seeding
<1>2. AllGood /\ Inserted(r) \subseteq rows
  BY <1>1 DEF IInv, Tables, Seeds
<1>3. TypeOK'
  <2>1. TablesOfRowsExist'
    BY <1>1, <1>2 DEF IInv, TypeOK, TablesOfRowsExist, AllGood, Table
  <2>2. r \in Row
    BY <1>1 DEF Seeding, Row
  <2> QED BY <1>1, <2>1, <2>2 DEF IInv, TypeOK, Inits
<1>4. Tables'
  BY <1>1, <1>2 DEF Tables, Creating, AllGood
<1>5. Seeds'
  BY <1>1, <1>2 DEF Seeds, Seeding, Inserted
<1> QED BY <1>3, <1>4, <1>5 DEF IInv

LEMMA StepKeeps == IInv /\ [Next]_vars => IInv'
<1> SUFFICES ASSUME IInv, [Next]_vars PROVE IInv'
  OBVIOUS
<1> USE DEF IInv
<1>1. CASE Start
  <2>1. TypeOK'
    BY <1>1 DEF Start, TypeOK, TablesOfRowsExist, history
  <2> QED BY <1>1, <2>1 DEF Start, Tables, Seeds, Creating, Seeding, AllGood, history
<1>2. CASE Check
  <2>1. UNCHANGED <<table, rows, sessions, rebuilt, cut>> /\ pc = "check"
    BY <1>2 DEF Check, history
  <2>2. \/ pc' = "drop" /\ AllGood
        \/ pc' = "wipe" /\ ~AllGood
    BY <1>2, CheckIsExact DEF Check, TypeOK
  <2>3. TypeOK'
    BY <2>1, <2>2 DEF TypeOK, TablesOfRowsExist, Inits
  <2>4. Tables'
    BY <2>1, <2>2 DEF Tables, Creating, Seeding, AllGood
  <2>5. Seeds'
    BY <2>1, <2>2 DEF Seeds, Seeding, AllGood
  <2> QED BY <2>3, <2>4, <2>5
<1>3. CASE Wipe
  <2>1. TypeOK'
    BY <1>3 DEF Wipe, TypeOK, TablesOfRowsExist, Inits
  <2>2. Tables'
    BY <1>3 DEF Wipe, Tables, Creating, Seeding, Made
  <2>3. Seeds'
    BY <1>3 DEF Wipe, Seeds, Seeding
  <2> QED BY <2>1, <2>2, <2>3
<1>4. CASE Vacuum
  <2>1. TypeOK'
    BY <1>4 DEF Vacuum, TypeOK, TablesOfRowsExist, Inits, history
  <2>2. Tables'
    BY <1>4 DEF Vacuum, Tables, Creating, Seeding, Made, history
  <2>3. Seeds'
    BY <1>4 DEF Vacuum, Seeds, Seeding, history
  <2> QED BY <2>1, <2>2, <2>3
<1>5. CASE Create("users", "resources") \/ Create("resources", "comments")
           \/ Create("comments", "admin")
  BY <1>5, CreateKeeps
<1>6. CASE Insert("admin", "test") \/ Insert("test", "comment") \/ Insert("comment", "drop")
  BY <1>6, InsertKeeps
<1>7. CASE Drop
  <2>1. TypeOK'
    BY <1>7 DEF Drop, TypeOK, TablesOfRowsExist, history
  <2>2. Tables' /\ Seeds'
    BY <1>7 DEF Drop, Tables, Seeds, Creating, Seeding, AllGood, history
  <2> QED BY <2>1, <2>2
<1>8. CASE Serve
  <2>1. AllGood /\ pc = "up" /\ UNCHANGED <<table, pc, rebuilt, cut>> /\ rows \subseteq rows'
    BY <1>8 DEF Serve, Tables, history
  <2>2. TypeOK'
    BY <1>8, <2>1 DEF Serve, TypeOK, TablesOfRowsExist, AllGood, Row, Table
  <2>3. Tables' /\ Seeds'
    BY <2>1 DEF Tables, Seeds, Creating, Seeding, AllGood
  <2> QED BY <2>2, <2>3
<1>9. CASE Kill
  <2>1. pc' = "down" /\ UNCHANGED <<table, rows, sessions, rebuilt>>
    BY <1>9 DEF Kill
  <2>2. cut' = (cut \/ pc \in Seeding)
    BY <1>9 DEF Kill, Seeding
  <2>3. TypeOK'
    BY <2>1, <2>2 DEF TypeOK, TablesOfRowsExist
  <2>4. Tables'
    BY <2>1 DEF Tables, Creating, Seeding
  <2>5. ASSUME AllGood', rebuilt', ~cut' PROVE Seeding \subseteq rows'
    <3>1. AllGood /\ rebuilt /\ ~cut /\ pc \notin Seeding
      BY <2>1, <2>2, <2>5 DEF AllGood
    <3>2. pc \notin Creating
      <4> SUFFICES ASSUME pc \in Creating PROVE FALSE
        OBVIOUS
      <4>1. table["comments"] = "none"
        BY DEF Tables, Creating, Made, Table
      <4> QED BY <3>1, <4>1 DEF AllGood, Table
    <3>3. pc # "wipe"
      BY <3>1 DEF Tables
    <3>4. pc \in {"down", "check", "drop", "up"}
      BY <3>1, <3>2, <3>3 DEF TypeOK, Inits, Creating, Seeding
    <3> QED BY <2>1, <3>1, <3>4 DEF Seeds
  <2>6. Seeds'
    BY <2>1, <2>5 DEF Seeds, Seeding
  <2> QED BY <2>3, <2>4, <2>6
<1>10. CASE UNCHANGED vars
  BY <1>10 DEF vars, history, TypeOK, TablesOfRowsExist, Tables, Seeds, AllGood
<1> QED BY <1>1, <1>2, <1>3, <1>4, <1>5, <1>6, <1>7, <1>8, <1>9, <1>10 DEF Next, initPlugin

LEMMA Invariance == Spec => []IInv
BY InitEstablishes, StepKeeps, PTL DEF Spec

-----------------------------------------------------------------------------

\* The tables and rows of the file are those initPlugin makes, and wherever it is
\* killed no row is left of a table that is not there.
THEOREM TypeCorrect == Spec => []TypeOK
<1>1. IInv => TypeOK
  BY DEF IInv
<1> QED BY <1>1, Invariance, PTL

\* A server that is up has every table with the columns its statements use,
\* wherever earlier starts were killed.
THEOREM ServesCompleteFileCorrect == Spec => []ServesCompleteFile
<1>1. IInv => ServesCompleteFile
  BY DEF IInv, Tables, AllGood, ServesCompleteFile
<1> QED BY <1>1, Invariance, PTL

\* A rebuilt file has the rows of init.sql when the server is up, unless a kill
\* hit the INSERTs.
THEOREM SeededUnlessCutCorrect == Spec => []SeededUnlessCut
<1>1. IInv => SeededUnlessCut
  BY DEF IInv, Tables, Seeds, Seeding, SeededUnlessCut
<1> QED BY <1>1, Invariance, PTL

\* No start loses a row of a file whose tables are this server's.
THEOREM GoodFileKeptCorrect == Spec => GoodFileKept
<1>1. IInv /\ [Next]_vars => [~(rows \subseteq rows') => \E n \in Table : table[n] # "good"]_vars
  <2> SUFFICES ASSUME IInv, Next, ~(rows \subseteq rows')
               PROVE  ~AllGood
    BY DEF AllGood
  <2>1. Wipe
    BY DEF Next, initPlugin, Start, Check, Vacuum, Create, Insert, Drop, Serve, Kill
  <2> QED BY <2>1 DEF IInv, Tables, Wipe
<1> QED BY <1>1, Invariance, PTL DEF Spec, GoodFileKept
=============================================================================
