------------------------------ MODULE Startup ------------------------------
(***************************************************************************)
(* initPlugin of src/plugin.cpp: what the process does to main.db3 when it *)
(* starts, statement by statement, when it may be killed between any two.  *)
(* A file whose tables are not those of "structure" is rebuilt from        *)
(* src/init.sql.  Each statement is a transaction of its own.              *)
(***************************************************************************)
EXTENDS Integers, FiniteSets

VARIABLES
    table,         \* what the file has of each table
    rows,          \* what the file holds: rows of init.sql, rows of clients
    sessions,      \* the accounts that have a session in the file
    pc,            \* "down", what initPlugin does next, or "up"
    \* History, which initPlugin does not read:
    rebuilt,       \* the file was rebuilt from init.sql
    cut            \* ... but the process was killed between its INSERTs

history == <<rebuilt, cut>>
vars == <<table, rows, sessions, pc, history>>

Table == {"comments", "users", "resources", "sqlite_sequence"}

Row == {"admin", "test", "comment", "client"}

\* The steps of initPlugin, in the order of the code and of init.sql.
Inits == {"wipe", "vacuum", "users", "resources", "comments", "admin", "test", "comment"}

\* No row without its table, and no session without its account.
TablesOfRowsExist ==
    /\ rows \cap {"admin", "test", "client"} # {} => table["users"] # "none"
    /\ "comment" \in rows => table["comments"] # "none"
    /\ "test" \in sessions => "test" \in rows
    /\ "other" \in sessions => "client" \in rows

TypeOK ==
    /\ table \in [Table -> {"none", "good", "other"}]
    /\ rows \subseteq Row
    /\ sessions \subseteq {"test", "other"}
    /\ pc \in {"down", "check", "drop", "up"} \cup Inits
    /\ rebuilt \in BOOLEAN /\ cut \in BOOLEAN
    /\ TablesOfRowsExist

\* A new file, a file of this server, or one of a server with other tables.
\* SQLite makes sqlite_sequence with the first table that has an AUTOINCREMENT.
Init ==
    /\ table \in [Table -> {"none", "good", "other"}]
    /\ table["sqlite_sequence"] # "other"
    /\ (\E n \in Table : table[n] = "good") => table["sqlite_sequence"] = "good"
    /\ rows \in SUBSET Row
    /\ sessions \in SUBSET {"test", "other"}
    /\ TablesOfRowsExist
    /\ pc = "down"
    /\ rebuilt = FALSE
    /\ cut = FALSE

-----------------------------------------------------------------------------
(* initPlugin                                                              *)

Start ==
    /\ pc = "down"
    /\ pc' = "check"
    /\ UNCHANGED <<table, rows, sessions, history>>

\* A mutated form of StructureOK: the tables are not counted.
NoTableDiffers == \A n \in Table : table[n] # "other"

\* A mutated form of StructureOK: three tables will do.
ThreeTablesWillDo ==
    /\ \A n \in Table : table[n] # "other"
    /\ Cardinality({n \in Table : table[n] # "none"}) >= 3

\* A mutated form of StructureOK: sqlite_sequence is not counted.
FourthTableForgotten ==
    /\ \A n \in Table : table[n] # "other"
    /\ Cardinality({n \in Table : table[n] # "none"}) = 3

\* No table of the file differs from structure, and there are four.
StructureOK ==
    /\ \A n \in Table : table[n] # "other"
    /\ Cardinality({n \in Table : table[n] # "none"}) = 4

Check ==
    /\ pc = "check"
    /\ pc' = IF StructureOK THEN "drop" ELSE "wipe"
    /\ UNCHANGED <<table, rows, sessions, history>>

\* delete from sqlite_master: the tables are gone with their rows.  VACUUM then
\* makes the connection forget them too.
Wipe ==
    /\ pc = "wipe"
    /\ table' = [n \in Table |-> "none"]
    /\ rows' = {}
    /\ sessions' = {}
    /\ rebuilt' = TRUE
    /\ cut' = FALSE
    /\ pc' = "vacuum"

Vacuum ==
    /\ pc = "vacuum"
    /\ pc' = "users"
    /\ UNCHANGED <<table, rows, sessions, history>>

\* CREATE TABLE
Create(n, next) ==
    /\ pc = n
    /\ table' = [table EXCEPT ![n] = "good", !["sqlite_sequence"] = "good"]
    /\ pc' = next
    /\ UNCHANGED <<rows, sessions, history>>

\* INSERT INTO: init.sql gives its test account a session.
Insert(r, next) ==
    /\ pc = r
    /\ rows' = rows \cup {r}
    /\ sessions' = IF r = "test" THEN sessions \cup {"test"} ELSE sessions
    /\ pc' = next
    /\ UNCHANGED <<table, history>>

\* initPlugin drops the sessions where name not like 'test', and is done.
Drop ==
    /\ pc = "drop"
    /\ sessions' = sessions \cap {"test"}
    /\ pc' = "up"
    /\ UNCHANGED <<table, rows, history>>

\* A mutated form of initPlugin: init.sql inserts the comment too early.
CommentFirst ==
    \/ Start
    \/ Check
    \/ Wipe
    \/ Vacuum
    \/ Create("users", "resources")
    \/ Create("resources", "comment")
    \/ Insert("comment", "comments")
    \/ Create("comments", "admin")
    \/ Insert("admin", "test")
    \/ Insert("test", "drop")
    \/ Drop

initPlugin ==
    \/ Start
    \/ Check
    \/ Wipe
    \/ Vacuum
    \/ Create("users", "resources")
    \/ Create("resources", "comments")
    \/ Create("comments", "admin")
    \/ Insert("admin", "test")
    \/ Insert("test", "comment")
    \/ Insert("comment", "drop")
    \/ Drop

-----------------------------------------------------------------------------
(* The rest of the process's life.                                         *)

\* A client signs up, or signs in.
Serve ==
    /\ pc = "up"
    /\ \/ rows' = rows \cup {"client"} /\ UNCHANGED sessions
       \/ "client" \in rows /\ sessions' = sessions \cup {"other"} /\ UNCHANGED rows
       \/ "test" \in rows /\ sessions' = sessions \cup {"test"} /\ UNCHANGED rows
    /\ UNCHANGED <<table, pc, history>>

\* The process is stopped or killed.
Kill ==
    /\ pc # "down"
    /\ cut' = (cut \/ pc \in {"admin", "test", "comment"})
    /\ pc' = "down"
    /\ UNCHANGED <<table, rows, sessions, rebuilt>>

Next == initPlugin \/ Serve \/ Kill

Spec == Init /\ [][Next]_vars

-----------------------------------------------------------------------------
(* Properties.                                                             *)

\* A server that is up has all its tables with the columns its statements use,
\* wherever earlier starts were killed and whatever the file was before.
ServesCompleteFile == pc = "up" => \A n \in Table : table[n] = "good"

\* A row is lost only from a file whose tables are not this server's: no start
\* rebuilds a file that is good.
GoodFileKept == [][~(rows \subseteq rows') => \E n \in Table : table[n] # "good"]_vars

\* A file that was rebuilt has the rows of init.sql when the server is up,
\* unless the process was killed after the last CREATE and before the last
\* INSERT: then the next start takes the file for good.
SeededUnlessCut == pc = "up" /\ rebuilt /\ ~cut => {"admin", "test", "comment"} \subseteq rows
=============================================================================
