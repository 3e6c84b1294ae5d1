------------------------------- MODULE Router -------------------------------
(***************************************************************************)
(* The plugin table of HttpServer (src/server.hpp): filled and sorted once *)
(* at the start, scanned by handleClient in the thread of every request    *)
(* and changed by setPluginActive, which scripts call through the plugin   *)
(* "call as function" of src/server.cpp.  The scans and the changes take   *)
(* no lock.                                                                *)
(*                                                                         *)
(* A url is the sequence of its pieces: "/api/comments" is                 *)
(* <<"/", "api/", "comments">>, so that a suburl is the start of a url     *)
(* exactly if its pieces are, and a suburl has as many segments as pieces. *)
(***************************************************************************)
EXTENDS Integers, FiniteSets, Sequences, SequencesExt

CONSTANTS
    Plugins,       \* the plugins in the order they are registered
    Thread,        \* the threads that serve requests
    Requests,      \* the requests clients send
    ScriptPlugin,  \* the name of the plugin that runs scripts
    ScriptName     \* the plugins scripts switch on and off

VARIABLES
    plugins,       \* the plugin table
    pc,            \* what each thread does
    req,           \* the request each thread serves
    pos,           \* the place of the table each thread is at
    answer,        \* the place of the plugin that serves the request, 0 for none
    \* History, which no action of the server reads:
    steady,        \* the places active since each thread's scan began
    alone,         \* the threads whose call overlaps none that switches its name on
    off            \* the names a call switched off before any call switches them on

\* Every plugin is registered as active.
ASSUME PluginsAssumption ==
    /\ Plugins \in Seq(ToSet(Plugins))
    /\ \A p \in ToSet(Plugins) :
        /\ p = [name |-> p.name, methods |-> p.methods, suburl |-> p.suburl, active |-> TRUE]
        /\ Len(p.suburl) \in Nat

\* There is a request, and scripts switch a plugin on or off.
ASSUME RequestsAssumption ==
    Requests # {} /\ \A r \in Requests : r.name \in ScriptName /\ r.active \in BOOLEAN

history == <<steady, alone, off>>
vars == <<plugins, pc, req, pos, answer, history>>

Places == 1 .. Len(Plugins)

TypeOK ==
    /\ DOMAIN plugins = Places
    /\ \A i \in Places : plugins[i].active \in BOOLEAN
    /\ {[p EXCEPT !.active = TRUE] : p \in ToSet(plugins)} = ToSet(Plugins)
    /\ pc \in [Thread -> {"idle", "scan", "script", "done"}]
    /\ req \in [Thread -> Requests]
    /\ pos \in [Thread -> 1 .. Len(Plugins) + 1]
    /\ answer \in [Thread -> 0 .. Len(Plugins)]
    /\ steady \in [Thread -> SUBSET Places]
    /\ alone \subseteq Thread
    /\ off \subseteq ScriptName

-----------------------------------------------------------------------------
(* The table.                                                              *)

\* A mutated form of Before: a suburl with more segments comes later.
FewerSegments(a, b) == Len(a.suburl) < Len(b.suburl)

\* The comparison of sortPlugins, as far as it matters which plugin matches
\* first: of two suburls with as many segments none is the start of the other.
Before(a, b) == Len(a.suburl) > Len(b.suburl)

\* The last place whose plugin p need not precede, 0 if there is none.
PlaceBefore(table, p) == Max({0} \cup {i \in DOMAIN table : ~Before(p, table[i])})

\* A mutated form of Insert: the plugins behind the place are not moved.
InsertInPlace(table, p) ==
    LET k == PlaceBefore(table, p)
    IN SubSeq(table, 1, k) \o <<p>> \o SubSeq(table, k + 2, Len(table))

\* std::sort moves each plugin before those it must precede, from the end on, as it
\* does for up to 16 elements.
Insert(table, p) ==
    LET k == PlaceBefore(table, p)
    IN SubSeq(table, 1, k) \o <<p>> \o SubSeq(table, k + 1, Len(table))

sortPlugins(table) ==
    LET sorted[n \in 0 .. Len(table)] == IF n = 0 THEN <<>> ELSE Insert(sorted[n - 1], table[n])
    IN sorted[Len(table)]

\* What sortPlugins is for: no plugin comes behind one it must precede.
Ordered(table) == \A i, j \in DOMAIN table : i < j => ~Before(table[j], table[i])

Init ==
    /\ plugins = sortPlugins(Plugins)
    /\ pc = [t \in Thread |-> "idle"]
    /\ req = [t \in Thread |-> CHOOSE r \in Requests : TRUE]
    /\ pos = [t \in Thread |-> 1]
    /\ answer = [t \in Thread |-> 0]
    /\ steady = [t \in Thread |-> {}]
    /\ alone = {}
    /\ off = {}

Matches(p, r) == r.method \in p.methods /\ IsPrefix(p.suburl, r.url)

-----------------------------------------------------------------------------
(* The threads.                                                            *)

\* A request arrives in a thread of its own.
Accept(t) ==
    /\ pc[t] = "idle"
    /\ \E r \in Requests : req' = [req EXCEPT ![t] = r]
    /\ pc' = [pc EXCEPT ![t] = "scan"]
    /\ pos' = [pos EXCEPT ![t] = 1]
    /\ steady' = [steady EXCEPT ![t] = {i \in Places : plugins[i].active}]
    /\ UNCHANGED <<plugins, answer, alone, off>>

\* Another thread is switching a plugin on.
SwitchingOn(n) == \E u \in Thread : pc[u] = "script" /\ req[u].name = n /\ req[u].active

\* The history of a call of setPluginActive that begins.
CallBegins(t) ==
    IF req[t].active
    THEN /\ off' = off \ {req[t].name}
         /\ alone' = {u \in alone : req[u].name # req[t].name}
    ELSE /\ alone' = IF SwitchingOn(req[t].name) THEN alone ELSE alone \cup {t}
         /\ UNCHANGED off

\* handleClient looks at the next plugin, and calls it if it is active and the
\* request is for it.  A script's first step is the call of setPluginActive.
Look(t) ==
    /\ pc[t] = "scan" /\ pos[t] \in Places
    /\ IF plugins[pos[t]].active /\ Matches(plugins[pos[t]], req[t])
       THEN /\ answer' = [answer EXCEPT ![t] = pos[t]]
            /\ \/ /\ plugins[pos[t]].name = ScriptPlugin
                  /\ pc' = [pc EXCEPT ![t] = "script"]
                  /\ pos' = [pos EXCEPT ![t] = 1]
                  /\ CallBegins(t)
               \/ /\ plugins[pos[t]].name # ScriptPlugin
                  /\ pc' = [pc EXCEPT ![t] = "done"]
                  /\ UNCHANGED <<pos, alone, off>>
       ELSE /\ pos' = [pos EXCEPT ![t] = @ + 1]
            /\ UNCHANGED <<pc, answer, alone, off>>
    /\ UNCHANGED <<plugins, req, steady>>

\* No plugin matches: the answer is 500.
NoPlugin(t) ==
    /\ pc[t] = "scan" /\ pos[t] \notin Places
    /\ pc' = [pc EXCEPT ![t] = "done"]
    /\ UNCHANGED <<plugins, req, pos, answer, history>>

\* A mutated form of NextPlace: setPluginActive stops at the first plugin it finds.
PastTheFirst(t) == IF plugins[pos[t]].name = req[t].name THEN Len(Plugins) + 1 ELSE pos[t] + 1

\* The place setPluginActive looks at next.
NextPlace(t) == pos[t] + 1

\* setPluginActive looks at the next plugin; several may have the name.
Switch(t) ==
    /\ pc[t] = "script" /\ pos[t] \in Places
    /\ IF plugins[pos[t]].name = req[t].name
       THEN /\ plugins' = [plugins EXCEPT ![pos[t]].active = req[t].active]
            /\ steady' = IF req[t].active THEN steady
                         ELSE [u \in Thread |-> steady[u] \ {pos[t]}]
       ELSE UNCHANGED <<plugins, steady>>
    /\ pos' = [pos EXCEPT ![t] = NextPlace(t)]
    /\ UNCHANGED <<pc, req, answer, alone, off>>

\* setPluginActive returns, and the script ends.
Return(t) ==
    /\ pc[t] = "script" /\ pos[t] \notin Places
    /\ pc' = [pc EXCEPT ![t] = "done"]
    /\ off' = IF t \in alone THEN off \cup {req[t].name} ELSE off
    /\ alone' = alone \ {t}
    /\ UNCHANGED <<plugins, req, pos, answer, steady>>

\* The answer is sent.
Close(t) ==
    /\ pc[t] = "done"
    /\ pc' = [pc EXCEPT ![t] = "idle"]
    /\ pos' = [pos EXCEPT ![t] = 1]
    /\ answer' = [answer EXCEPT ![t] = 0]
    /\ steady' = [steady EXCEPT ![t] = {}]
    /\ UNCHANGED <<plugins, req, alone, off>>

Step(t) == Look(t) \/ NoPlugin(t) \/ Switch(t) \/ Return(t) \/ Close(t)

Next == \E t \in Thread : Accept(t) \/ Step(t)

Spec == Init /\ [][Next]_vars

-----------------------------------------------------------------------------
(* Properties.                                                             *)

\* handleClient answers with the most specific plugin: whatever scripts switch
\* meanwhile, no matching plugin that was active all the time has a longer
\* suburl than the one that answers, and none is missed when none answers.
MostSpecificAnswers ==
    \A t \in Thread : pc[t] \in {"script", "done"} =>
        \A i \in steady[t] : Matches(plugins[i], req[t]) =>
            /\ answer[t] # 0
            /\ Len(plugins[i].suburl) <= Len(plugins[answer[t]].suburl)

\* Once setPluginActive has switched a name off, and while nobody switches it
\* on again, no scan is answered by a plugin of that name.
SwitchedOffNeverAnswers ==
    [][\A t \in Thread : answer'[t] # answer[t] /\ answer'[t] # 0 =>
        plugins[answer'[t]].name \notin off]_vars
=============================================================================
