------------------------------ MODULE Console ------------------------------
(***************************************************************************)
(* The plugin "call as function" of src/server.cpp, from the url of the    *)
(* request to the answer: the script in the parameter "code" is compiled   *)
(* and run by the one AngelScript engine, prints to the one global buffer, *)
(* and may set the option "cors", which constructHttpResponse reads.       *)
(*                                                                         *)
(* A script is a sequence of words, each a statement: it prints itself,    *)
(* sets the option, or does neither.  With a passphrase, script and answer *)
(* are encrypted; that is left out.                                        *)
(***************************************************************************)
EXTENDS RequestText

CONSTANTS
    Thread,        \* the threads that serve requests
    Ask,           \* what clients ask for: a path and parameters
    ServerPath,    \* "/api/server"
    Code,          \* "code"
    Printed,       \* the statements that print
    Wrong          \* the statement that does not compile

VARIABLES
    buffer,        \* what the scripts have printed
    building,      \* isBuilding of the engine
    cors,          \* the option
    pc,            \* what each thread does
    code,          \* the statements each thread has yet to run
    result,        \* its copy of the buffer
    reply,         \* its answer
    \* History, which no action of the server reads:
    asked,         \* what the client asked for
    overlaps,      \* what was asked for by it and by those whose scripts overlap its own
    alone          \* the threads whose script overlaps no other

threads == <<pc, code, result, reply>>
history == <<asked, overlaps, alone>>
vars == <<buffer, building, cors, threads, history>>

Option == {"on", "off"}

ASSUME CodeAssumption ==
    /\ [path |-> ServerPath, parameters |-> <<>>] \in Ask /\ Ask \subseteq Asked
    /\ Printed \cup Option \cup {Wrong} \subseteq Word
    /\ Option \cap Printed = {} /\ Wrong \notin Printed \cup Option

Output == Seq(Printed \cup {"error"})

\* What an idle thread serves.
NoAsk == [path |-> ServerPath, parameters |-> <<>>]

NoReply == [cors |-> "off", data |-> <<>>]

TypeOK ==
    /\ buffer \in Output
    /\ building \in BOOLEAN
    /\ cors \in Option
    /\ pc \in [Thread -> {"idle", "clear", "build", "built", "run", "collect", "respond", "done"}]
    /\ code \in [Thread -> Seq(Token)]
    /\ result \in [Thread -> Output]
    /\ \A t \in Thread : reply[t].cors \in Option /\ reply[t].data \in Output
    /\ alone \subseteq Thread
    /\ \A t \in Thread : asked[t] \in Ask /\ overlaps[t] \subseteq Ask

Init ==
    /\ buffer = <<>>
    /\ building = FALSE
    /\ cors \in Option
    /\ pc = [t \in Thread |-> "idle"]
    /\ code = [t \in Thread |-> <<>>]
    /\ result = [t \in Thread |-> <<>>]
    /\ reply = [t \in Thread |-> NoReply]
    /\ asked = [t \in Thread |-> NoAsk]
    /\ overlaps = [t \in Thread |-> {}]
    /\ alone = {}

-----------------------------------------------------------------------------

At(t, label) == pc[t] = label

Goto(t, label) == pc' = [pc EXCEPT ![t] = label]

\* The other threads that run a script, or have yet to answer it.
Others(t) == {u \in Thread \ {t} : pc[u] \notin {"idle", "done"}}

\* A request arrives and is parsed, and handleClient finds this plugin.
Accept(t) ==
    /\ At(t, "idle")
    /\ \E a \in Ask :
        LET request == parseRequest(Text(a)) IN
        /\ IsPrefix(ServerPath, request.url)
        /\ code' = [code EXCEPT ![t] = Parameter(request, Code)]
        /\ asked' = [asked EXCEPT ![t] = a]
        /\ overlaps' = [u \in Thread |->
            IF u = t THEN {a} \cup {asked[v] : v \in Others(t)}
            ELSE IF u \in Others(t) THEN overlaps[u] \cup {a} ELSE overlaps[u]]
    /\ alone' = IF Others(t) = {} THEN alone \cup {t} ELSE alone \ Others(t)
    /\ Goto(t, "clear")
    /\ UNCHANGED <<buffer, building, cors, result, reply>>

\* A mutated form of Cleared: the buffer is not emptied.
Uncleared(t) == buffer

Cleared(t) == <<>>

\* buffer.str("")
Clear(t) ==
    /\ At(t, "clear")
    /\ buffer' = Cleared(t)
    /\ Goto(t, "build")
    /\ UNCHANGED <<building, cors, code, result, reply, history>>

\* CompileFunction begins: one thread may build at a time.  ExecuteString returns
\* the error, which the plugin does not look at: the script is not run.
RequestBuild(t) ==
    /\ At(t, "build")
    /\ \/ ~building /\ building' = TRUE /\ Goto(t, "built")
       \/ building /\ Goto(t, "collect") /\ UNCHANGED building
    /\ UNCHANGED <<buffer, cors, code, result, reply, history>>

\* The buffers a print may leave.  When another thread uses it at the same time,
\* the print may be lost.
Prints(t, word) == {Append(buffer, word)} \cup IF Others(t) = {} THEN {} ELSE {buffer}

Compiles(t) == ~Contains(code[t], Wrong)

\* A mutated form of BuildCompleted: after an error the engine goes on building.
BuildCompletedOrNot(t) ==
    /\ At(t, "built")
    /\ \/ Compiles(t) /\ building' = FALSE /\ Goto(t, "run") /\ UNCHANGED buffer
       \/ ~Compiles(t) /\ buffer' \in Prints(t, "error") /\ Goto(t, "collect") /\ UNCHANGED building
    /\ UNCHANGED <<cors, code, result, reply, history>>

\* CompileFunction ends; MessageCallback has printed the errors.
BuildCompleted(t) ==
    /\ At(t, "built")
    /\ building' = FALSE
    /\ \/ Compiles(t) /\ Goto(t, "run") /\ UNCHANGED buffer
       \/ ~Compiles(t) /\ buffer' \in Prints(t, "error") /\ Goto(t, "collect")
    /\ UNCHANGED <<cors, code, result, reply, history>>

\* The script's next statement.
Execute(t) ==
    /\ At(t, "run") /\ code[t] # <<>>
    /\ LET word == Head(code[t]) IN
        /\ buffer' \in IF word \in Printed THEN Prints(t, word) ELSE {buffer}
        /\ cors' = IF word \in Option THEN word ELSE cors
    /\ code' = [code EXCEPT ![t] = Tail(@)]
    /\ UNCHANGED <<building, pc, result, reply, history>>

\* ExecuteString returns, and the plugin copies the buffer.
Collect(t) ==
    /\ \/ At(t, "collect")
       \/ At(t, "run") /\ code[t] = <<>>
    /\ result' = [result EXCEPT ![t] = buffer]
    /\ code' = [code EXCEPT ![t] = <<>>]
    /\ Goto(t, "respond")
    /\ UNCHANGED <<buffer, building, cors, reply, history>>

\* constructHttpResponse reads the option and prints the answer.
Respond(t) ==
    /\ At(t, "respond")
    /\ reply' = [reply EXCEPT ![t] = [cors |-> cors, data |-> result[t]]]
    /\ result' = [result EXCEPT ![t] = <<>>]
    /\ Goto(t, "done")
    /\ UNCHANGED <<buffer, building, cors, code, history>>

\* The answer is sent.
Close(t) ==
    /\ At(t, "done")
    /\ reply' = [reply EXCEPT ![t] = NoReply]
    /\ asked' = [asked EXCEPT ![t] = NoAsk]
    /\ overlaps' = [overlaps EXCEPT ![t] = {}]
    /\ alone' = alone \ {t}
    /\ Goto(t, "idle")
    /\ UNCHANGED <<buffer, building, cors, code, result>>

Step(t) ==
    \/ Clear(t) \/ RequestBuild(t) \/ BuildCompleted(t) \/ Execute(t)
    \/ Collect(t) \/ Respond(t) \/ Close(t)

Next == \E t \in Thread : Accept(t) \/ Step(t)

Spec == Init /\ [][Next]_vars

-----------------------------------------------------------------------------
(* Properties.                                                             *)

\* What decoding before splitting leaves as it was: no "&" in names and values and
\* no "=" in names, although both are escaped, no broken escape and no name twice.
Robust(a) ==
    LET ps == a.parameters IN
    /\ \A i \in DOMAIN ps :
        /\ ToSet(ps[i].name) \subseteq Word
        /\ ToSet(ps[i].value) \subseteq Word \cup {"?", "="}
    /\ \A i, j \in DOMAIN ps : ps[i].name = ps[j].name => i = j

\* The script the client asked for.
Script(a) ==
    LET places == {i \in DOMAIN a.parameters : a.parameters[i].name = Code}
    IN IF places = {} THEN <<>> ELSE a.parameters[Min(places)].value

\* The words of a script that are of these.
Those(script, words) ==
    LET those[n \in 0 .. Len(script)] ==
            IF n = 0 THEN <<>>
            ELSE IF script[n] \in words THEN Append(those[n - 1], script[n]) ELSE those[n - 1]
    IN those[Len(script)]

OutputOf(script) == IF Contains(script, Wrong) THEN <<"error">> ELSE Those(script, Printed)

OptionsOf(script) == IF Contains(script, Wrong) THEN <<>> ELSE Those(script, Option)

\* What the plugin takes for the script.
ScriptRead(a) == Parameter(parseRequest(Text(a)), Code)

\* parseRequest finds the script the client asked for, where it can.
ScriptsFound == \A a \in Ask : Robust(a) => ScriptRead(a) = Script(a)

\* A client whose script overlaps no other is answered with what its script prints,
\* all of it and nothing else, under the option the script has set: whatever earlier
\* scripts, overlapping or broken, left in the buffer and the engine.
UndisturbedScriptAnswers ==
    \A t \in alone : At(t, "done") /\ Robust(asked[t]) =>
        LET script == Script(asked[t]) IN
        /\ reply[t].data = OutputOf(script)
        /\ OptionsOf(script) # <<>> => reply[t].cors = Last(OptionsOf(script))

\* Whatever overlaps, an answer holds only words of its own request or of one whose
\* script overlaps it: nothing of a client who was answered before it began.
OnlyOverlappingOutput ==
    \A t \in Thread : At(t, "done") =>
        ToSet(reply[t].data) \ {"error"} \subseteq UNION {ToSet(Text(a)) : a \in overlaps[t]}
=============================================================================
