-------------------------- MODULE ConnectionProofs --------------------------
(***************************************************************************)
(* Whose socket a descriptor leads to, and which sockets stay open, for    *)
(* every set of clients, threads and descriptors.  A descriptor that       *)
(* accept hands out is free, and only its thread closes it; a thread that  *)
(* refuses its request has read the line its client sent, or none in time. *)
(* Then, what a client of getFile is sent, and what a handler reads of the *)
(* payload its client sends: at each place of a thread, how its locals fit *)
(* together with what has been sent or is still to be read.  Last, the     *)
(* types of everything, which need all of that.                            *)
(***************************************************************************)
EXTENDS Connections, TLAPS, SequenceTheorems

\* The pieces of requests.
Part == {"good", "bad", "headers", "part1", "part2"}

\* Its cut may name nobody: SendFails alone does not exclude it.
Histories ==
    [punctual : SUBSET Client, stalled : SUBSET Client, cut : SUBSET (Client \cup {Nobody})]

\* What is known of a thread's locals.
Held(r) == "good" \in DOMAIN r /\ "length" \in DOMAIN r /\ r.length \in Int

\* As much of the types as the proofs need.
Types ==
    /\ pc \in [Thread -> Label]
    /\ handle \in [Thread -> Descriptor \cup {NoHandle}]
    /\ client \in [Thread -> Client \cup {Nobody}]
    /\ owner \in [Descriptor -> Client \cup {Nobody}]
    /\ backlog \in Seq(Client)
    /\ DOMAIN local = Thread /\ \A t \in Thread : Held(local[t])
    /\ DOMAIN link = Client
    /\ want \in [Client -> Wanted]
    /\ rest \in [Client -> Seq(Part)]
    /\ inbox \in [Client -> Seq(Part)]
    /\ history \in Histories

\* A thread has a descriptor when it has a client, and none when it is idle.
HandlesUsed ==
    \A t \in Thread : /\ pc[t] = "idle" => handle[t] = NoHandle
                      /\ handle[t] = NoHandle <=> client[t] = Nobody

\* No connection waits twice, and none that waits has a descriptor.
BacklogWaits ==
    /\ \A i \in DOMAIN backlog : link[backlog[i]] = "waiting"
    /\ \A i, j \in DOMAIN backlog : backlog[i] = backlog[j] => i = j

\* An open connection has one descriptor.
OwnersOpen ==
    /\ \A d \in Descriptor : owner[d] # Nobody => link[owner[d]] = "open"
    /\ \A d, e \in Descriptor : owner[d] = owner[e] /\ owner[d] # Nobody => d = e

SocketInv == Types /\ HandlesUsed /\ BacklogWaits /\ OwnersOpen /\ OwnSocket

\* The first piece of what client c has sent or will send is its line.
Begins(c) ==
    /\ inbox[c] # <<>> => inbox[c][1] = want[c].line
    /\ inbox[c] = <<>> /\ rest[c] # <<>> => rest[c][1] = want[c].line

\* Until a thread has read the line, it is the first piece there is.
LineFirst ==
    /\ \A c \in Client : link[c] = "new" => inbox[c] = <<>>
    /\ \A c \in Client : link[c] = "waiting" => Begins(c)
    /\ \A t \in Thread : pc[t] = "line" /\ client[t] # Nobody => Begins(client[t])

Refusable(c) == want[c].line = "bad" \/ c \in history.stalled

\* A thread that is to refuse its request is right.
RefusesRefusable ==
    \A t \in Thread :
        client[t] # Nobody /\ pc[t] # "line" /\ ~local[t].good => Refusable(client[t])

LeakInv == SocketInv /\ LineFirst /\ RefusesRefusable /\ LeaksOnlyRefused
-----------------------------------------------------------------------------
(* Types.                                                                  *)

LEMMA TextBegins ==
    ASSUME NEW w \in Wanted
    PROVE  Text(w) \in Seq(Part) /\ Len(Text(w)) >= 2 /\ Text(w)[1] = w.line
<1>1. Body(w) \in Seq(Part)
  <2>1. <<"part1", "part2">> \in Seq(Part) /\ <<>> \in Seq(Part)
    BY DEF Part
  <2> QED BY <2>1, Zenon DEF Body
<1>2. <<w.line, "headers">> \in Seq(Part) /\ Len(<<w.line, "headers">>) = 2
  BY DEF Wanted, Part
<1> QED BY <1>1, <1>2 DEF Text

\* The clients of Close have nothing left, and the others keep what they had.
LEMMA CloseTypes ==
    ASSUME Types, NEW S, Close(S)
    PROVE  /\ DOMAIN link' = Client
           /\ want' \in [Client -> Wanted]
           /\ rest' \in [Client -> Seq(Part)]
           /\ inbox' \in [Client -> Seq(Part)]
           /\ history' \in Histories
           /\ history'.stalled = history.stalled \ S
           /\ \A c \in Client : IF c \in S THEN link'[c] = "closed" /\ inbox'[c] = <<>> /\ rest'[c] = <<>>
                                ELSE /\ link'[c] = link[c] /\ inbox'[c] = inbox[c]
                                     /\ rest'[c] = rest[c] /\ want'[c] = want[c]
<1>1. NoWant \in Wanted
  BY DEF NoWant, Wanted
<1>2. history' \in Histories /\ history'.stalled = history.stalled \ S
  BY DEF Types, Close, Histories
<1> QED BY <1>1, <1>2 DEF Types, Close

\* What a thread takes from its inbox leaves pieces.
LEMMA TakeType ==
    ASSUME Types, NEW t \in Thread, NEW n \in Nat, Take(t, n)
    PROVE  inbox' \in [Client -> Seq(Part)]
<1>1. CASE Peer(t) \in Client
  <2>1. inbox[Peer(t)] \in Seq(Part)
    BY <1>1 DEF Types
  <2>2. SubSeq(inbox[Peer(t)], n + 1, Len(inbox[Peer(t)])) \in Seq(Part)
    BY <2>1
  <2> QED BY <1>1, <2>2 DEF Take, Types
<1>2. CASE Peer(t) \notin Client
  BY <1>2 DEF Take, Types
<1> QED BY <1>1, <1>2

LEMMA PeerType ==
    ASSUME Types, NEW t \in Thread
    PROVE  Peer(t) \in Client \cup {Nobody}
BY DEF Peer, Types

LEMMA DisconnectTypes ==
    ASSUME Types, NEW t \in Thread, DeleteClient(t)
    PROVE  Types'
<1>1. Finish(t) /\ UNCHANGED server
  BY DEF DeleteClient
<1>2. /\ pc' \in [Thread -> Label] /\ handle' \in [Thread -> Descriptor \cup {NoHandle}]
      /\ client' \in [Thread -> Client \cup {Nobody}]
      /\ DOMAIN local' = Thread /\ \A u \in Thread : Held(local'[u])
  BY <1>1 DEF Finish, Types, Label, Fresh, Held
<1>3. CASE handle[t] = NoHandle
  BY <1>1, <1>2, <1>3 DEF DeleteClient, Disconnect, Types, server, peers
<1>4. CASE handle[t] # NoHandle
  <2>1. owner' = [owner EXCEPT ![handle[t]] = Nobody] /\ Close({Peer(t)})
    BY <1>4 DEF DeleteClient, Disconnect
  <2>2. owner' \in [Descriptor -> Client \cup {Nobody}]
    BY <2>1 DEF Types
  <2>3. PICK S : S = {Peer(t)}
    OBVIOUS
  <2>4. Close(S)
    BY <2>1, <2>3
  <2> QED BY <1>1, <1>2, <2>2, <2>4, CloseTypes DEF Types, server
<1> QED BY <1>3, <1>4

\* What a step that neither refuses the request nor ends the thread leaves as it was.
Stays(t) ==
    /\ UNCHANGED <<owner, handle, client, backlog, link, want, rest>>
    /\ pc' \in [Thread -> Label] /\ pc'[t] \notin {"idle", "line"}
    /\ DOMAIN local' = Thread /\ Held(local'[t])
    /\ \A u \in Thread \ {t} : pc'[u] = pc[u] /\ local'[u] = local[u]
    /\ inbox' \in [Client -> Seq(Part)] /\ \A c \in Client \ {Peer(t)} : inbox'[c] = inbox[c]
    /\ history' \in Histories /\ history.stalled \subseteq history'.stalled

\* The line was read before, and what was found of it is not changed.
Remembers(t) == pc[t] # "line" /\ local'[t].good = local[t].good

LEMMA ReadStays ==
    ASSUME Types, NEW t \in Thread, ReadLine(t) \/ NoLine(t)
    PROVE  Stays(t)
<1>1. Peer(t) \in Client \cup {Nobody}
  BY PeerType
<1>2. CASE ReadLine(t)
  <2>1. inbox' \in [Client -> Seq(Part)]
    BY <1>2, TakeType DEF ReadLine
  <2>2. \A c \in Client \ {Peer(t)} : inbox'[c] = inbox[c]
    BY <1>2 DEF ReadLine, Take, Types
  <2> QED BY <1>2, <2>1, <2>2 DEF ReadLine, Stays, Held, Types, Goto, Label, server, peers
<1>3. CASE NoLine(t)
  <2>1. history' \in Histories /\ history.stalled \subseteq history'.stalled
    BY <1>1, <1>3 DEF NoLine, Types, Histories
  <2> QED BY <1>3, <2>1 DEF NoLine, Stays, Held, Types, Goto, Label, server, peers
<1> QED BY <1>2, <1>3

\* What SetPayload changes is no more than the payload and what is read of it.
PayloadSet(t) ==
    /\ DOMAIN local' = Thread /\ Held(local'[t]) /\ local'[t].good = local[t].good
    /\ \A u \in Thread \ {t} : local'[u] = local[u]

LEMMA PayloadKeeps ==
    ASSUME Types, NEW t \in Thread, NEW payload, SetPayload(t, payload)
    PROVE  PayloadSet(t)
<1>1. PICK read : local' = [local EXCEPT ![t].payload = payload, ![t].read = read]
  BY DEF SetPayload
<1> QED BY <1>1 DEF PayloadSet, Types, Held

LEMMA HeadersStay ==
    ASSUME Types, NEW t \in Thread, ReadHeaders(t) \/ ReadPayload(t)
    PROVE  Stays(t) /\ Remembers(t)
<1>1. CASE ReadHeaders(t)
  <2>1. Take(t, 1)
    BY <1>1 DEF ReadHeaders, HeadersRead
  <2>2. inbox' \in [Client -> Seq(Part)] /\ \A c \in Client \ {Peer(t)} : inbox'[c] = inbox[c]
    BY <2>1, TakeType DEF Take, Types
  <2>3. /\ pc' \in [Thread -> Label] /\ pc'[t] \notin {"idle", "line"}
        /\ \A u \in Thread \ {t} : pc'[u] = pc[u]
    BY <1>1 DEF ReadHeaders, At, Goto, Types, Label
  <2>4. /\ DOMAIN local' = Thread /\ Held(local'[t])
        /\ \A u \in Thread \ {t} : local'[u] = local[u]
        /\ local'[t].good = local[t].good
    <3>1. CASE First(t) = "headers"
      <4>1. Peer(t) \in Client
        BY <1>1, PeerType DEF ReadHeaders, Arrived
      <4>2. want[Peer(t)].length \in Int
        BY <4>1 DEF Types, Wanted
      <4> QED BY <1>1, <3>1, <4>2 DEF ReadHeaders, Types, Held
    <3>2. CASE First(t) # "headers"
      BY <1>1, <3>2 DEF ReadHeaders, Types
    <3> QED BY <3>1, <3>2
  <2> QED BY <1>1, <2>2, <2>3, <2>4 DEF ReadHeaders, Stays, Remembers, At, Types, server, peers
<1>2. CASE ReadPayload(t)
  <2>1. PICK n \in Nat : Take(t, n)
    <3>1. Take(t, Ready(t))
      BY <1>2 DEF ReadPayload
    <3>2. Peer(t) \in Client /\ local[t].length \in Nat
      BY <1>2, PeerType DEF ReadPayload, Arrived, Types, Held
    <3>3. Len(inbox[Peer(t)]) \in Nat
      BY <3>2 DEF Types
    <3>4. Ready(t) \in Nat
      BY <3>2, <3>3 DEF Ready
    <3> QED BY <3>1, <3>4
  <2>2. inbox' \in [Client -> Seq(Part)] /\ \A c \in Client \ {Peer(t)} : inbox'[c] = inbox[c]
    BY <2>1, TakeType DEF Take, Types
  <2>3. PayloadSet(t)
    BY <1>2, PayloadKeeps DEF ReadPayload
  <2> QED BY <1>2, <2>2, <2>3 DEF ReadPayload, PayloadSet, Stays, Remembers, At, Goto, Types, Label, server, peers
<1> QED BY <1>1, <1>2

\* SendFails cuts the stream; no send touches the rest of the history.
LEMMA SendHistory ==
    ASSUME Types, NEW t \in Thread, UNCHANGED history \/ SendFails(t)
    PROVE  history' \in Histories /\ history'.stalled = history.stalled
<1>1. Peer(t) \in Client \cup {Nobody}
  BY PeerType
<1>2. CASE SendFails(t)
  <2>1. history' = [history EXCEPT !.cut = @ \cup {Peer(t)}] /\ history \in Histories
    BY <1>2 DEF SendFails, Types
  <2> QED BY <1>1, <2>1 DEF Histories
<1> QED BY <1>2 DEF Types

LEMMA SendStays ==
    ASSUME Types, NEW t \in Thread, SendHead(t) \/ PushChunk(t) \/ SendAnswer(t)
    PROVE  Stays(t) /\ Remembers(t)
<1>1. history' \in Histories /\ history'.stalled = history.stalled
  <2>1. UNCHANGED history \/ SendFails(t)
    BY Zenon DEF SendHead, PushChunk, PushSome, PushFails, SendAnswer
  <2> QED BY <2>1, SendHistory
<1>2. CASE SendHead(t) \/ SendAnswer(t)
  BY <1>1, <1>2 DEF SendHead, SendAnswer, Stays, Held, Remembers, At, Goto, Types, Label, server, peers
<1>3. CASE PushChunk(t)
  <2>1. /\ pc' \in [Thread -> Label] /\ pc'[t] \notin {"idle", "line"}
        /\ \A u \in Thread \ {t} : pc'[u] = pc[u]
    BY <1>3 DEF PushChunk, PushSome, PushFails, At, Goto, Types, Label
  <2>2. /\ DOMAIN local' = Thread /\ Held(local'[t])
        /\ \A u \in Thread \ {t} : local'[u] = local[u]
        /\ local'[t].good = local[t].good
    BY <1>3 DEF PushChunk, PushSome, PushFails, Types, Held
  <2> QED BY <1>1, <1>3, <2>1, <2>2 DEF PushChunk, Stays, Remembers, At, Types, server, peers
<1> QED BY <1>2, <1>3

LEMMA QuietStays ==
    ASSUME Types, NEW t \in Thread,
           Route(t) \/ BadLength(t) \/ NoPayload(t) \/ NoHeaders(t) \/ ReadChunk(t) \/ EndFile(t)
    PROVE  Stays(t) /\ Remembers(t)
<1>1. CASE Route(t)
  BY <1>1 DEF Route, Stays, Held, Remembers, At, Goto, Types, Label, peers
<1>2. CASE NoHeaders(t) \/ EndFile(t)
  BY <1>2 DEF NoHeaders, EndFile, Stays, Held, Remembers, At, Goto, Types, Label, server, peers
<1>3. CASE BadLength(t) \/ NoPayload(t)
  <2>1. PayloadSet(t)
    <3>1. UNCHANGED local => PayloadSet(t)
      BY DEF PayloadSet, Types
    <3> QED BY <1>3, <3>1, PayloadKeeps, Zenon DEF BadLength, NoPayload
  <2> QED BY <1>3, <2>1 DEF BadLength, NoPayload, PayloadSet, Stays, Remembers, At, Goto, Types,
     Label, server, peers
<1>4. CASE ReadChunk(t)
  BY <1>4 DEF ReadChunk, Stays, Held, Remembers, At, Goto, Types, Label, server, peers
<1> QED BY <1>1, <1>2, <1>3, <1>4


LEMMA ClientTypes ==
    ASSUME Types, NEW c \in Client, Connect(c) \/ Send(c) \/ Receive(c) \/ Leave(c)
    PROVE  Types'
<1>1. CASE Connect(c)
  <2>1. PICK w \in Want : rest' = [rest EXCEPT ![c] = Text(w)] /\ want' = [want EXCEPT ![c] = w]
    BY <1>1 DEF Connect
  <2>2. w \in Wanted /\ Text(w) \in Seq(Part)
    BY WantAssumption, TextBegins
  <2> QED BY <1>1, <2>1, <2>2 DEF Connect, Types, threads
<1>2. CASE Send(c)
  <2>1. PICK n \in 1 .. Len(rest[c]) :
        /\ inbox' = [inbox EXCEPT ![c] = @ \o SubSeq(rest[c], 1, n)]
        /\ rest' = [rest EXCEPT ![c] = SubSeq(@, n + 1, Len(@))]
    BY <1>2 DEF Send
  <2>2. rest[c] \in Seq(Part) /\ inbox[c] \in Seq(Part)
    BY DEF Types
  <2>3. SubSeq(rest[c], 1, n) \in Seq(Part) /\ SubSeq(rest[c], n + 1, Len(rest[c])) \in Seq(Part)
    BY <2>2
  <2>4. inbox[c] \o SubSeq(rest[c], 1, n) \in Seq(Part)
    BY <2>2, <2>3
  <2> QED BY <1>2, <2>1, <2>3, <2>4 DEF Send, Types, server, threads
<1>3. CASE Receive(c)
  BY <1>3 DEF Receive, Types, server, threads, peers
<1>4. CASE Leave(c)
  <2>1. history' \in Histories
    BY <1>4 DEF Leave, Types, Histories
  <2>2. <<>> \in Seq(Part)
    OBVIOUS
  <2>3. rest' \in [Client -> Seq(Part)]
    BY <1>4, <2>2 DEF Leave, Types
  <2>4. inbox' \in [Client -> Seq(Part)]
    BY <1>4, <2>2 DEF Leave, Types
  <2> QED BY <1>4, <2>1, <2>3, <2>4 DEF Leave, Types, server, threads
<1> QED BY <1>1, <1>2, <1>3, <1>4

LEMMA DieTypes ==
    ASSUME Types, NEW S, Die(S), backlog' \in Seq(Client)
    PROVE  Types'
BY CloseTypes, NobodyAssumption DEF Die, Types, Label, Fresh, Held

LEMMA LoopTypes ==
    ASSUME Types, Loop
    PROVE  Types'
<1> USE NobodyAssumption
<1>1. CASE LoopTest
  <2>1. CASE UNCHANGED <<backlog, peers, inbox, history>>
    BY <1>1, <2>1 DEF LoopTest, Types, threads, peers
  <2>2. CASE backlog' = <<>> /\ Close(ToSet(backlog))
    BY <1>1, <2>2, CloseTypes DEF LoopTest, Types, threads
  <2> QED BY <1>1, <2>1, <2>2 DEF LoopTest
<1>2. CASE AcceptClient
  <2>1. IdleThread \in Thread /\ FreeDescriptor \in Descriptor
    BY <1>2 DEF AcceptClient, Start, IdleThread, FreeDescriptor, Free
  <2>2. Head(backlog) \in Client /\ Tail(backlog) \in Seq(Client)
    BY <1>2 DEF AcceptClient, Types
  <2>3. history' \in Histories
    BY <1>2, <2>2 DEF AcceptClient, Types, Histories
  <2> QED BY <1>2, <2>1, <2>2, <2>3 DEF AcceptClient, Start, Types, Label
<1>3. CASE AcceptNothing
  <2>1. IdleThread \in Thread
    BY <1>3 DEF AcceptNothing, Start, IdleThread
  <2> QED BY <1>3, <2>1 DEF AcceptNothing, Start, Types, peers, Label
<1>4. CASE AcceptTimesOut
  BY <1>4 DEF AcceptTimesOut, Types, peers, threads
<1>5. CASE Exit
  <2>1. PICK S : S = {c \in Client : link[c] = "open"}
    OBVIOUS
  <2>2. Die(S)
    BY <1>5, <2>1 DEF Exit
  <2> QED BY <1>5, <2>2, DieTypes DEF Exit, Types
<1> QED BY <1>1, <1>2, <1>3, <1>4, <1>5 DEF Loop

-----------------------------------------------------------------------------
(* The invariant.                                                          *)

LEMMA InitInv ==
    ASSUME Init
    PROVE  LeakInv
<1>1. NoWant \in Wanted /\ <<>> \in Seq(Part) /\ <<>> \in Seq(Client)
  BY DEF NoWant, Wanted
<1>2. Types
  BY <1>1 DEF Init, Types, Held, Fresh, Label, Histories
<1> QED
  BY <1>2, NobodyAssumption
     DEF Init, LeakInv, SocketInv, HandlesUsed, BacklogWaits, OwnersOpen, OwnSocket,
         LineFirst, RefusesRefusable, LeaksOnlyRefused

\* A thread's descriptor leads to its client, which no other thread serves and whose
\* connection is open.
LEMMA PeerIsClient ==
    ASSUME SocketInv, NEW t \in Thread
    PROVE  /\ Peer(t) = client[t]
           /\ client[t] # Nobody => link[client[t]] = "open"
           /\ \A u \in Thread : client[u] = client[t] /\ client[t] # Nobody => u = t
<1> USE DEF SocketInv, Types, HandlesUsed, OwnersOpen, OwnSocket
<1>1. Peer(t) = client[t]
  BY DEF Peer
<1>2. client[t] # Nobody => handle[t] \in Descriptor /\ owner[handle[t]] = client[t]
  OBVIOUS
<1>3. \A u \in Thread : client[u] = client[t] /\ client[t] # Nobody => handle[u] = handle[t]
  OBVIOUS
<1> QED BY <1>1, <1>2, <1>3

LEMMA StaysInv ==
    ASSUME LeakInv, NEW t \in Thread, Stays(t), pc[t] # "idle",
           client[t] # Nobody /\ ~local'[t].good => Refusable(client[t])'
    PROVE  LeakInv'
<1> USE DEF LeakInv
<1>1. Types'
  BY DEF SocketInv, Types, Stays
<1>2. HandlesUsed' /\ BacklogWaits' /\ OwnersOpen' /\ OwnSocket'
  BY DEF SocketInv, Types, Stays, HandlesUsed, BacklogWaits, OwnersOpen, OwnSocket
<1>3. LineFirst'
  <2>1. \A c \in Client : c # client[t] => inbox'[c] = inbox[c]
    BY PeerIsClient DEF Stays
  <2>2. \A c \in Client : link[c] \in {"new", "waiting"} => c # client[t]
    BY PeerIsClient, NobodyAssumption
  <2>3. \A u \in Thread : pc'[u] = "line" /\ client[u] # Nobody =>
            pc[u] = "line" /\ client[u] # client[t] /\ client[u] \in Client
    BY PeerIsClient DEF Stays, SocketInv, Types
  <2> QED BY <2>1, <2>2, <2>3 DEF LineFirst, Begins, Stays
<1>4. RefusesRefusable'
  BY DEF RefusesRefusable, Stays, Refusable
<1>5. LeaksOnlyRefused'
  BY DEF LeaksOnlyRefused, Served, Stays
<1> QED BY <1>1, <1>2, <1>3, <1>4, <1>5 DEF SocketInv

\* The line a thread has read is its client's; of one that did not come it is known.
LEMMA ReadInv ==
    ASSUME LeakInv, NEW t \in Thread, ReadLine(t) \/ NoLine(t)
    PROVE  LeakInv'
<1>1. Stays(t) /\ pc[t] = "line"
  BY ReadStays DEF LeakInv, SocketInv, ReadLine, NoLine, At
<1>2. Peer(t) = client[t] /\ client[t] \in Client \cup {Nobody}
  BY PeerIsClient DEF LeakInv, SocketInv, Types
<1>3. ASSUME client[t] # Nobody, ~local'[t].good PROVE Refusable(client[t])'
  <2>1. CASE ReadLine(t)
    <3>1. inbox[client[t]][1] = want[client[t]].line
      BY <1>1, <1>2, <1>3, <2>1 DEF ReadLine, Arrived, LeakInv, LineFirst, Begins
    <3>2. local'[t].good = (want[client[t]].line = "good")
      BY <1>2, <2>1, <3>1 DEF ReadLine, First, LeakInv, SocketInv, Types, Held
    <3>3. want[client[t]].line = "bad"
      BY <1>2, <1>3, <3>2 DEF LeakInv, SocketInv, Types, Wanted
    <3> QED BY <1>1, <3>3 DEF Refusable, Stays
  <2>2. CASE NoLine(t)
    <3>1. history' = [history EXCEPT !.stalled = @ \cup {client[t]}] /\ history \in Histories
      BY <1>2, <1>3, <2>2 DEF NoLine, LeakInv, SocketInv, Types
    <3> QED BY <1>1, <3>1 DEF Refusable, Histories, Stays
  <2> QED BY <2>1, <2>2
<1> QED BY <1>1, <1>3, StaysInv

LEMMA GoOnInv ==
    ASSUME LeakInv, NEW t \in Thread, Stays(t), Remembers(t), pc[t] # "idle"
    PROVE  LeakInv'
<1>1. ASSUME client[t] # Nobody, ~local'[t].good PROVE Refusable(client[t])'
  <2>1. Refusable(client[t])
    BY <1>1 DEF LeakInv, RefusesRefusable, Remembers
  <2> QED BY <2>1 DEF Refusable, Stays
<1> QED BY <1>1, StaysInv

\* The descriptor of a request that is refused stays open, rightly.
LEMMA RefuseInv ==
    ASSUME LeakInv, NEW t \in Thread, Refuse(t)
    PROVE  LeakInv'
<1> USE DEF LeakInv
<1>1. Types /\ Finish(t) /\ UNCHANGED <<owner, backlog, link, want, rest, inbox, history>>
  BY DEF Refuse, SocketInv, server, peers
<1>2. Types'
  BY <1>1 DEF Finish, Types, Label, Fresh, Held
<1>3. /\ pc' = [pc EXCEPT ![t] = "idle"]
      /\ handle' = [handle EXCEPT ![t] = NoHandle]
      /\ client' = [client EXCEPT ![t] = Nobody]
      /\ \A u \in Thread \ {t} : local'[u] = local[u]
  BY <1>1 DEF Finish, Types
<1>4. HandlesUsed' /\ BacklogWaits' /\ OwnersOpen' /\ OwnSocket'
  BY <1>1, <1>3 DEF SocketInv, Types, HandlesUsed, BacklogWaits, OwnersOpen, OwnSocket
<1>5. LineFirst' /\ RefusesRefusable'
  BY <1>1, <1>3 DEF LineFirst, Begins, RefusesRefusable, Refusable, Types
<1>6. LeaksOnlyRefused'
  <2>1. client[t] # Nobody => Refusable(client[t])
    BY DEF Refuse, At, RefusesRefusable
  <2>2. ASSUME NEW d \in Descriptor, owner[d] # Nobody, ~Served(d)'
        PROVE  Refusable(owner[d])
    <3>1. CASE handle[t] = d
      BY <2>1, <2>2, <3>1, NobodyAssumption DEF SocketInv, OwnSocket
    <3>2. CASE handle[t] # d
      <4>1. ~Served(d)
        BY <1>1, <1>3, <2>2, <3>2 DEF Served, Types
      <4> QED BY <2>2, <4>1 DEF LeaksOnlyRefused, Refusable
    <3> QED BY <3>1, <3>2
  <2> QED BY <1>1, <2>2 DEF LeaksOnlyRefused, Refusable
<1> QED BY <1>2, <1>4, <1>5, <1>6 DEF SocketInv

\* "delete client" closes the thread's own socket, which nobody else has.
LEMMA DeleteInv ==
    ASSUME LeakInv, NEW t \in Thread, DeleteClient(t)
    PROVE  LeakInv'
<1> USE DEF LeakInv
<1>1. Types /\ Types' /\ backlog' = backlog
  BY DisconnectTypes DEF SocketInv, DeleteClient, server
<1>2. /\ pc' = [pc EXCEPT ![t] = "idle"]
      /\ handle' = [handle EXCEPT ![t] = NoHandle]
      /\ client' = [client EXCEPT ![t] = Nobody]
      /\ \A u \in Thread \ {t} : local'[u] = local[u]
  BY <1>1 DEF DeleteClient, Finish, Types
<1>3. CASE handle[t] = NoHandle
  <2>1. UNCHANGED <<owner, backlog, link, want, rest, inbox, history>>
    BY <1>3 DEF DeleteClient, Disconnect, server, peers
  <2>2. HandlesUsed' /\ BacklogWaits' /\ OwnersOpen' /\ OwnSocket'
    BY <1>1, <1>2, <2>1 DEF SocketInv, Types, HandlesUsed, BacklogWaits, OwnersOpen, OwnSocket
  <2>3. LineFirst' /\ RefusesRefusable'
    BY <1>1, <1>2, <2>1 DEF LineFirst, Begins, RefusesRefusable, Refusable, Types
  <2>4. LeaksOnlyRefused'
    BY <1>1, <1>2, <1>3, <2>1, NobodyAssumption DEF LeaksOnlyRefused, Served, Types
  <2> QED BY <1>1, <2>2, <2>3, <2>4 DEF SocketInv
<1>4. CASE handle[t] # NoHandle
  <2>1. PICK c : c = client[t]
    OBVIOUS
  <2>2. /\ c \in Client /\ link[c] = "open" /\ handle[t] \in Descriptor
        /\ owner[handle[t]] = c /\ Peer(t) = c
        /\ \A u \in Thread \ {t} : client[u] # c
    BY <1>1, <1>4, <2>1, PeerIsClient DEF SocketInv, OwnSocket, Types
  <2>3. PICK S : S = {c}
    OBVIOUS
  <2>4. owner' = [owner EXCEPT ![handle[t]] = Nobody] /\ Close(S)
    BY <1>4, <2>2, <2>3 DEF DeleteClient, Disconnect
  <2>5. /\ history'.stalled = history.stalled \ S
        /\ \A b \in Client : IF b \in S THEN link'[b] = "closed" /\ inbox'[b] = <<>> /\ rest'[b] = <<>>
                             ELSE /\ link'[b] = link[b] /\ inbox'[b] = inbox[b]
                                  /\ rest'[b] = rest[b] /\ want'[b] = want[b]
    BY <1>1, <2>4, CloseTypes
  <2>6. HandlesUsed' /\ OwnSocket'
    BY <1>1, <1>2, <2>2, <2>4 DEF SocketInv, Types, HandlesUsed, OwnSocket
  <2>7. BacklogWaits' /\ OwnersOpen'
    BY <1>1, <2>2, <2>3, <2>4, <2>5 DEF SocketInv, Types, BacklogWaits, OwnersOpen
  <2>8. LineFirst' /\ RefusesRefusable'
    BY <1>1, <1>2, <2>2, <2>3, <2>5 DEF LineFirst, Begins, RefusesRefusable, Refusable, Types
  <2>9. LeaksOnlyRefused'
    <3>1. ASSUME NEW d \in Descriptor, owner'[d] # Nobody, ~Served(d)'
          PROVE  want'[owner'[d]].line = "bad" \/ owner'[d] \in history'.stalled
      <4>1. owner'[d] = owner[d] /\ d # handle[t]
        BY <1>1, <2>4, <3>1 DEF Types
      <4>2. owner[d] # c /\ owner[d] \in Client
        BY <1>1, <2>2, <3>1, <4>1 DEF SocketInv, OwnersOpen, Types
      <4>3. ~Served(d)
        BY <1>1, <1>2, <3>1, <4>1 DEF Served, Types
      <4>4. Refusable(owner[d])
        BY <3>1, <4>1, <4>3 DEF LeaksOnlyRefused, Refusable
      <4> QED BY <2>3, <2>5, <4>1, <4>2, <4>4 DEF Refusable
    <3> QED BY <3>1 DEF LeaksOnlyRefused, Refusable
  <2> QED BY <1>1, <2>6, <2>7, <2>8, <2>9 DEF SocketInv
<1> QED BY <1>3, <1>4

\* The backlog when a client joins it, and when the loop takes the first.
LEMMA JoinsBacklog ==
    ASSUME NEW S, NEW queue \in Seq(S), NEW e \in S, NEW longer, longer = Append(queue, e)
    PROVE  /\ DOMAIN longer = DOMAIN queue \cup {Len(queue) + 1}
           /\ \A i \in DOMAIN queue : longer[i] = queue[i]
           /\ longer[Len(queue) + 1] = e
OBVIOUS

LEMMA LeavesBacklog ==
    ASSUME NEW S, NEW queue \in Seq(S), queue # <<>>, NEW shorter, shorter = Tail(queue)
    PROVE  \A i \in DOMAIN shorter :
               i + 1 \in DOMAIN queue /\ shorter[i] = queue[i + 1] /\ i \in Nat \ {0}
OBVIOUS

\* What clients do changes nothing a thread has read, and no line once it was sent.
LEMMA ClientInv ==
    ASSUME LeakInv, NEW c \in Client, Connect(c) \/ Send(c) \/ Receive(c) \/ Leave(c)
    PROVE  LeakInv'
<1> USE DEF LeakInv
<1>1. Types /\ Types'
  BY ClientTypes DEF SocketInv
<1>2. UNCHANGED <<owner, pc, handle, client, local>> /\ history'.stalled = history.stalled
  BY <1>1 DEF Connect, Send, Receive, Leave, threads, Types, Histories
<1>3. CASE Connect(c)
  <2>1. PICK w \in Want : rest' = [rest EXCEPT ![c] = Text(w)] /\ want' = [want EXCEPT ![c] = w]
    BY <1>3 DEF Connect
  <2>2. Text(w)[1] = w.line
    BY WantAssumption, TextBegins
  <2>3. /\ link[c] = "new" /\ link' = [link EXCEPT ![c] = "waiting"] /\ inbox' = inbox
        /\ backlog' = Append(backlog, c)
    BY <1>3 DEF Connect
  <2>4. \A t \in Thread : client[t] # c
    BY <2>3, PeerIsClient, NobodyAssumption
  <2>5. \A d \in Descriptor : owner[d] # c
    BY <2>3, NobodyAssumption DEF SocketInv, OwnersOpen
  <2>6. HandlesUsed' /\ OwnSocket'
    BY <1>2 DEF SocketInv, HandlesUsed, OwnSocket
  <2>7. BacklogWaits'
    <3>1. \A i \in DOMAIN backlog : backlog[i] # c /\ backlog[i] \in Client
      BY <1>1, <2>3 DEF SocketInv, BacklogWaits, Types
    <3>2. /\ DOMAIN backlog' = DOMAIN backlog \cup {Len(backlog) + 1}
          /\ \A i \in DOMAIN backlog : backlog'[i] = backlog[i]
          /\ backlog'[Len(backlog) + 1] = c
      <4>1. backlog \in Seq(Client)
        BY <1>1 DEF Types
      <4> QED BY <2>3, <4>1, JoinsBacklog
    <3>3. \A i \in DOMAIN backlog : link'[backlog'[i]] = "waiting"
      BY <1>1, <2>3, <3>1, <3>2 DEF SocketInv, BacklogWaits, Types
    <3>4. link'[c] = "waiting"
      BY <1>1, <2>3 DEF Types
    <3> QED BY <3>1, <3>2, <3>3, <3>4 DEF SocketInv, BacklogWaits
  <2>8. OwnersOpen'
    BY <1>1, <1>2, <2>3, <2>5 DEF SocketInv, OwnersOpen, Types
  <2>9. LineFirst'
    BY <1>1, <1>2, <2>1, <2>2, <2>3, <2>4 DEF LineFirst, Begins, Types
  <2>10. RefusesRefusable'
    BY <1>1, <1>2, <2>1, <2>4 DEF RefusesRefusable, Refusable, Types
  <2>11. LeaksOnlyRefused'
    BY <1>1, <1>2, <2>1, <2>5 DEF LeaksOnlyRefused, Served, Types
  <2> QED BY <1>1, <2>6, <2>7, <2>8, <2>9, <2>10, <2>11 DEF SocketInv
<1>4. CASE Send(c) \/ Receive(c) \/ Leave(c)
  <2>1. UNCHANGED <<link, want, backlog>>
    BY <1>4 DEF Send, Receive, Leave, server, peers
  <2>2. HandlesUsed' /\ BacklogWaits' /\ OwnersOpen' /\ OwnSocket'
    BY <1>2, <2>1 DEF SocketInv, HandlesUsed, BacklogWaits, OwnersOpen, OwnSocket
  <2>3. RefusesRefusable' /\ LeaksOnlyRefused'
    BY <1>2, <2>1 DEF RefusesRefusable, LeaksOnlyRefused, Served, Refusable
  <2>4. /\ \A b \in Client \ {c} : inbox'[b] = inbox[b] /\ rest'[b] = rest[b]
        /\ link[c] = "new" => inbox'[c] = inbox[c]
        /\ Begins(c) => Begins(c)'
    <3>1. CASE Receive(c)
      BY <1>2, <2>1, <3>1 DEF Receive, peers, Begins
    <3>2. CASE Leave(c)
      BY <1>1, <2>1, <3>2 DEF Leave, Connected, Begins, Types
    <3>3. CASE Send(c)
      <4>1. PICK n \in 1 .. Len(rest[c]) :
            /\ inbox' = [inbox EXCEPT ![c] = @ \o SubSeq(rest[c], 1, n)]
            /\ rest' = [rest EXCEPT ![c] = SubSeq(@, n + 1, Len(@))]
        BY <3>3 DEF Send
      <4>2. /\ rest[c] \in Seq(Part) /\ inbox[c] \in Seq(Part)
            /\ inbox'[c] = inbox[c] \o SubSeq(rest[c], 1, n)
        BY <1>1, <4>1 DEF Types
      <4>3. /\ inbox'[c] # <<>>
            /\ inbox'[c][1] = IF inbox[c] = <<>> THEN rest[c][1] ELSE inbox[c][1]
            /\ rest[c] # <<>>
        <5>1. SubSeq(rest[c], 1, n) \in Seq(Part) /\ Len(SubSeq(rest[c], 1, n)) = n
              /\ SubSeq(rest[c], 1, n)[1] = rest[c][1]
          BY <4>2
        <5>2. PICK part : part = SubSeq(rest[c], 1, n)
          OBVIOUS
        <5>3. part \in Seq(Part) /\ Len(part) = n /\ n \in Nat \ {0} /\ part[1] = rest[c][1]
          BY <5>1, <5>2, <4>2
        <5>4. Len(inbox'[c]) = Len(inbox[c]) + n
              /\ inbox'[c][1] = IF Len(inbox[c]) = 0 THEN part[1] ELSE inbox[c][1]
          BY <4>2, <5>2, <5>3
        <5>5. inbox[c] = <<>> <=> Len(inbox[c]) = 0
          BY <4>2
        <5>6. Len(inbox'[c]) # 0 /\ Len(rest[c]) # 0 /\ Len(<<>>) = 0
          BY <4>2, <5>3, <5>4
        <5>7. inbox'[c] # <<>> /\ rest[c] # <<>>
          BY <5>6, Zenon
        <5> QED BY <5>3, <5>4, <5>5, <5>7
      <4> QED BY <1>1, <2>1, <3>3, <4>1, <4>3 DEF Send, Connected, Begins, Types
    <3> QED BY <1>4, <3>1, <3>2, <3>3
  <2>5. LineFirst'
    <3>1. \A b \in Client : Begins(b) => Begins(b)'
      BY <2>1, <2>4 DEF Begins
    <3>2. \A b \in Client : link[b] = "new" => inbox'[b] = inbox[b]
      BY <2>4
    <3> QED BY <1>1, <1>2, <2>1, <3>1, <3>2 DEF LineFirst, Types
  <2> QED BY <1>1, <2>2, <2>3, <2>5 DEF SocketInv
<1> QED BY <1>3, <1>4

\* A client that accept takes gets a descriptor nobody has.
LEMMA AcceptInv ==
    ASSUME LeakInv, AcceptClient
    PROVE  LeakInv'
<1> USE DEF LeakInv
<1>1. Types /\ Types'
  BY LoopTypes DEF SocketInv, Loop
<1>2. PICK t, d, c : t = IdleThread /\ d = FreeDescriptor /\ c = Head(backlog)
  OBVIOUS
<1>3. t \in Thread /\ pc[t] = "idle" /\ d \in Descriptor /\ owner[d] = Nobody
  BY <1>2 DEF AcceptClient, Start, IdleThread, FreeDescriptor, Free
<1>4. /\ pc' = [pc EXCEPT ![t] = "line"] /\ handle' = [handle EXCEPT ![t] = d]
      /\ client' = [client EXCEPT ![t] = c] /\ local' = local
      /\ owner' = [owner EXCEPT ![d] = c] /\ link' = [link EXCEPT ![c] = "open"]
      /\ backlog' = Tail(backlog)
      /\ UNCHANGED <<want, rest, inbox>>
  BY <1>2 DEF AcceptClient, Start
<1>5. history'.stalled = history.stalled
  BY <1>1 DEF AcceptClient, Types, Histories
<1>6. /\ c = backlog[1] /\ c \in Client /\ link[c] = "waiting" /\ c # Nobody
      /\ Len(backlog) \in Nat \ {0}
  <2>1. backlog \in Seq(Client) /\ backlog # <<>>
    BY <1>1 DEF AcceptClient, Types
  <2>2. c = backlog[1] /\ c \in Client /\ 1 \in DOMAIN backlog
    BY <1>2, <2>1
  <2> QED BY <2>1, <2>2, NobodyAssumption DEF SocketInv, BacklogWaits
<1>7. /\ handle[t] = NoHandle /\ client[t] = Nobody
      /\ \A u \in Thread : handle[u] # d /\ client[u] # c
      /\ \A e \in Descriptor : owner[e] # c
  <2>1. \A e \in Descriptor : owner[e] # c
    BY <1>6 DEF SocketInv, OwnersOpen
  <2>2. \A u \in Thread : handle[u] # d
    BY <1>3, NobodyAssumption DEF SocketInv, OwnSocket
  <2>3. \A u \in Thread : client[u] # c
    BY <1>6, PeerIsClient
  <2> QED BY <1>3, <2>1, <2>2, <2>3 DEF SocketInv, HandlesUsed
<1>8. HandlesUsed' /\ OwnSocket'
  BY <1>1, <1>3, <1>4, <1>6, <1>7, NobodyAssumption DEF SocketInv, HandlesUsed, OwnSocket, Types
<1>9. BacklogWaits'
  <2>1. \A i \in DOMAIN backlog' : i + 1 \in DOMAIN backlog /\ backlog'[i] = backlog[i + 1] /\ i \in Nat \ {0}
    <3>1. backlog \in Seq(Client) /\ backlog # <<>>
      BY <1>1 DEF AcceptClient, Types
    <3> QED BY <1>4, <3>1, LeavesBacklog
  <2>2. \A i \in DOMAIN backlog' : backlog'[i] # c /\ link[backlog'[i]] = "waiting" /\ backlog'[i] \in Client
    <3>1. \A i \in DOMAIN backlog' : backlog[i + 1] # backlog[1]
      <4>1. 1 \in DOMAIN backlog
        BY <1>1, <1>6 DEF Types
      <4>2. \A i \in DOMAIN backlog' : i + 1 # 1
        BY <2>1
      <4> QED BY <2>1, <4>1, <4>2 DEF SocketInv, BacklogWaits
    <3>2. \A i \in DOMAIN backlog : link[backlog[i]] = "waiting" /\ backlog[i] \in Client
      BY <1>1 DEF SocketInv, BacklogWaits, Types
    <3> QED BY <1>6, <2>1, <3>1, <3>2
  <2>3. \A i, j \in DOMAIN backlog' : backlog'[i] = backlog'[j] => i = j
    BY <2>1 DEF SocketInv, BacklogWaits
  <2> QED BY <1>1, <1>4, <2>2, <2>3 DEF BacklogWaits, Types
<1>10. OwnersOpen'
  BY <1>1, <1>3, <1>4, <1>6, <1>7 DEF SocketInv, OwnersOpen, Types
<1>11. LineFirst'
  BY <1>1, <1>3, <1>4, <1>6, <1>7 DEF LineFirst, Begins, Types
<1>12. RefusesRefusable'
  BY <1>1, <1>3, <1>4, <1>5 DEF RefusesRefusable, Refusable, Types
<1>13. LeaksOnlyRefused'
  <2>1. Served(d)'
    BY <1>1, <1>3, <1>4 DEF Served, Types
  <2>2. \A e \in Descriptor \ {d} : ~Served(e)' => ~Served(e)
    BY <1>1, <1>3, <1>4, <1>7, NobodyAssumption DEF Served, Types
  <2> QED BY <1>1, <1>3, <1>4, <1>5, <2>1, <2>2 DEF LeaksOnlyRefused, Types
<1> QED BY <1>1, <1>8, <1>9, <1>10, <1>11, <1>12, <1>13 DEF SocketInv

\* When the process ends, nothing is left of its threads and their sockets.
LEMMA DieInv ==
    ASSUME LeakInv, NEW S, Die(S), backlog' \in Seq(Client),
           backlog' = <<>> \/ (backlog' = backlog /\ \A i \in DOMAIN backlog : backlog[i] \notin S)
    PROVE  LeakInv'
<1> USE DEF LeakInv
<1>1. Types /\ Types'
  BY DieTypes DEF SocketInv
<1>2. /\ \A t \in Thread : pc'[t] = "idle" /\ handle'[t] = NoHandle /\ client'[t] = Nobody
      /\ \A d \in Descriptor : owner'[d] = Nobody
  BY DEF Die
<1>3. \A c \in Client : IF c \in S THEN link'[c] = "closed" /\ inbox'[c] = <<>> /\ rest'[c] = <<>>
                        ELSE /\ link'[c] = link[c] /\ inbox'[c] = inbox[c]
                             /\ rest'[c] = rest[c] /\ want'[c] = want[c]
  BY <1>1, CloseTypes DEF Die
<1>4. HandlesUsed' /\ OwnersOpen' /\ OwnSocket'
  BY <1>2 DEF HandlesUsed, OwnersOpen, OwnSocket
<1>5. BacklogWaits'
  <2>1. CASE backlog' = <<>>
    BY <2>1 DEF BacklogWaits
  <2>2. CASE backlog' = backlog /\ \A i \in DOMAIN backlog : backlog[i] \notin S
    BY <1>1, <1>3, <2>2 DEF SocketInv, BacklogWaits, Types
  <2> QED BY <2>1, <2>2
<1>6. LineFirst'
  BY <1>1, <1>2, <1>3 DEF LineFirst, Begins
<1>7. RefusesRefusable' /\ LeaksOnlyRefused'
  BY <1>2 DEF RefusesRefusable, LeaksOnlyRefused
<1> QED BY <1>1, <1>4, <1>5, <1>6, <1>7 DEF SocketInv

LEMMA CrashInv ==
    ASSUME LeakInv, NEW t \in Thread, Crash(t)
    PROVE  LeakInv'
<1>1. PICK S : Die(S)
  BY DEF Crash
<1>2. backlog' = <<>> /\ backlog' \in Seq(Client)
  BY DEF Crash
<1> QED BY <1>1, <1>2, DieInv

\* The other steps of the loop: a thread without a client, nothing, and the end.
LEMMA LoopInv ==
    ASSUME LeakInv, Loop
    PROVE  LeakInv'
<1> USE DEF LeakInv
<1>1. Types /\ Types'
  BY LoopTypes DEF SocketInv
<1>2. CASE AcceptClient
  BY <1>2, AcceptInv
<1>3. CASE AcceptNothing
  <2>1. PICK t : t = IdleThread
    OBVIOUS
  <2>2. t \in Thread /\ pc[t] = "idle" /\ handle[t] = NoHandle /\ client[t] = Nobody
    BY <1>3, <2>1 DEF AcceptNothing, Start, IdleThread, SocketInv, HandlesUsed
  <2>3. /\ pc' = [pc EXCEPT ![t] = "line"] /\ handle' = [handle EXCEPT ![t] = NoHandle]
        /\ client' = [client EXCEPT ![t] = Nobody]
        /\ UNCHANGED <<local, owner, backlog, link, want, rest, inbox, history>>
    BY <1>3, <2>1 DEF AcceptNothing, Start, peers
  <2>4. handle' = handle /\ client' = client
    BY <1>1, <2>2, <2>3 DEF Types
  <2>5. HandlesUsed' /\ BacklogWaits' /\ OwnersOpen' /\ OwnSocket'
    BY <1>1, <2>2, <2>3, <2>4 DEF SocketInv, HandlesUsed, BacklogWaits, OwnersOpen, OwnSocket, Types
  <2>6. LineFirst' /\ RefusesRefusable' /\ LeaksOnlyRefused'
    BY <1>1, <2>2, <2>3, <2>4
       DEF LineFirst, Begins, RefusesRefusable, Refusable, LeaksOnlyRefused, Served, Types
  <2> QED BY <1>1, <2>5, <2>6 DEF SocketInv
<1>4. ASSUME AcceptTimesOut \/ LoopTest, UNCHANGED <<backlog, peers, inbox, history>>
      PROVE  LeakInv'
  <2>1. UNCHANGED <<owner, pc, handle, client, local, backlog, link, want, rest, inbox, history>>
    BY <1>4 DEF AcceptTimesOut, LoopTest, threads, peers
  <2>2. HandlesUsed' /\ BacklogWaits' /\ OwnersOpen' /\ OwnSocket'
    BY <2>1 DEF SocketInv, HandlesUsed, BacklogWaits, OwnersOpen, OwnSocket
  <2>3. LineFirst' /\ RefusesRefusable' /\ LeaksOnlyRefused'
    BY <2>1 DEF LineFirst, Begins, RefusesRefusable, Refusable, LeaksOnlyRefused, Served
  <2> QED BY <1>1, <2>2, <2>3 DEF SocketInv
<1>5. ASSUME LoopTest, backlog' = <<>>, Close(ToSet(backlog))
      PROVE  LeakInv'
  <2>1. PICK S : S = ToSet(backlog)
    OBVIOUS
  <2>2. \A c \in S : link[c] = "waiting"
    BY <2>1 DEF ToSet, SocketInv, BacklogWaits
  <2>3. UNCHANGED <<owner, pc, handle, client, local>> /\ Close(S) /\ backlog' = <<>>
    BY <1>5, <2>1 DEF LoopTest, threads
  <2>4. /\ history'.stalled = history.stalled \ S
        /\ \A c \in Client : IF c \in S THEN link'[c] = "closed" /\ inbox'[c] = <<>> /\ rest'[c] = <<>>
                             ELSE /\ link'[c] = link[c] /\ inbox'[c] = inbox[c]
                                  /\ rest'[c] = rest[c] /\ want'[c] = want[c]
    BY <1>1, <2>3, CloseTypes
  <2>5. /\ \A t \in Thread : client[t] # Nobody => client[t] \in Client \ S
        /\ \A d \in Descriptor : owner[d] # Nobody => owner[d] \in Client \ S
    <3>1. \A t \in Thread : client[t] # Nobody => link[client[t]] = "open"
      BY PeerIsClient
    <3> QED BY <1>1, <2>2, <3>1 DEF SocketInv, OwnersOpen, Types
  <2>6. HandlesUsed' /\ BacklogWaits' /\ OwnersOpen' /\ OwnSocket'
    BY <1>1, <2>3, <2>4, <2>5 DEF SocketInv, HandlesUsed, BacklogWaits, OwnersOpen, OwnSocket
  <2>7. LineFirst'
    BY <1>1, <2>3, <2>4, <2>5 DEF LineFirst, Begins
  <2>8. RefusesRefusable' /\ LeaksOnlyRefused'
    BY <1>1, <2>3, <2>4, <2>5 DEF RefusesRefusable, LeaksOnlyRefused, Served, Refusable
  <2> QED BY <1>1, <2>6, <2>7, <2>8 DEF SocketInv
<1>6. CASE Exit
  <2>1. PICK S : S = {c \in Client : link[c] = "open"}
    OBVIOUS
  <2>2. Die(S) /\ backlog' = backlog
    BY <1>6, <2>1 DEF Exit
  <2>3. \A i \in DOMAIN backlog : backlog[i] \notin S
    BY <2>1 DEF SocketInv, BacklogWaits
  <2> QED BY <1>1, <2>2, <2>3, DieInv DEF Types
<1>7. CASE LoopTest
  <2>1. \/ UNCHANGED <<backlog, peers, inbox, history>>
        \/ backlog' = <<>> /\ Close(ToSet(backlog))
    BY <1>7 DEF LoopTest
  <2> QED BY <1>4, <1>5, <1>7, <2>1
<1>8. CASE AcceptTimesOut
  <2>1. UNCHANGED <<backlog, peers, inbox, history>>
    BY <1>8 DEF AcceptTimesOut
  <2> QED BY <1>4, <1>8, <2>1
<1> QED BY <1>2, <1>3, <1>6, <1>7, <1>8 DEF Loop

LEMMA StepInv ==
    ASSUME LeakInv, [Next]_vars
    PROVE  LeakInv'
<1>1. CASE UNCHANGED vars
  BY <1>1 DEF vars, server, threads, peers, LeakInv, SocketInv, Types, HandlesUsed, BacklogWaits,
     OwnersOpen, OwnSocket, LineFirst, Begins, RefusesRefusable, Refusable, LeaksOnlyRefused, Served
<1>2. CASE \E c \in Client : Connect(c) \/ Send(c) \/ Receive(c) \/ Leave(c)
  BY <1>2, ClientInv
<1>3. CASE Loop
  BY <1>3, LoopInv
<1>4. ASSUME NEW t \in Thread, Step(t) PROVE LeakInv'
  <2>1. pc[t] # "idle"
    BY <1>4 DEF Step, At, ReadLine, NoLine, ReadHeaders, NoHeaders, Refuse, Route, ReadPayload,
       Crash, NoPayload, BadLength, SendHead, ReadChunk, PushChunk, EndFile, SendAnswer, DeleteClient
  <2>2. Types
    BY DEF LeakInv, SocketInv
  <2>3. CASE ReadLine(t) \/ NoLine(t)
    BY <2>3, ReadInv
  <2>4. CASE ReadHeaders(t) \/ ReadPayload(t)
    BY <2>1, <2>2, <2>4, HeadersStay, GoOnInv
  <2>5. CASE SendHead(t) \/ PushChunk(t) \/ SendAnswer(t)
    BY <2>1, <2>2, <2>5, SendStays, GoOnInv
  <2>6. CASE Route(t) \/ BadLength(t) \/ NoPayload(t) \/ NoHeaders(t) \/ ReadChunk(t) \/ EndFile(t)
    BY <2>1, <2>2, <2>6, QuietStays, GoOnInv
  <2>7. CASE Refuse(t)
    BY <2>7, RefuseInv
  <2>8. CASE DeleteClient(t)
    BY <2>8, DeleteInv
  <2>9. CASE Crash(t)
    BY <2>9, CrashInv
  <2> QED BY <1>4, <2>3, <2>4, <2>5, <2>6, <2>7, <2>8, <2>9, Zenon DEF Step
<1> QED BY <1>1, <1>2, <1>3, <1>4, Zenon DEF Next, Ended

THEOREM InvCorrect == Safety => []LeakInv
<1>1. Init => LeakInv
  BY InitInv
<1>2. LeakInv /\ [Next]_vars => LeakInv'
  BY StepInv
<1> QED BY <1>1, <1>2, PTL DEF Safety

\* The socket a thread of run reads from, answers on and closes is its own client's:
\* for any number of clients and threads, also when accept is out of descriptors.
THEOREM OwnSocketCorrect == Safety => []OwnSocket
<1>1. LeakInv => OwnSocket
  BY DEF LeakInv, SocketInv
<1> QED BY <1>1, InvCorrect, PTL

\* Of all the ways a connection of run can go, only the early return for what is not
\* HTTP/1.1, or has sent no line in time, leaves a descriptor open.
THEOREM LeaksOnlyRefusedCorrect == Safety => []LeaksOnlyRefused
<1>1. LeakInv => LeaksOnlyRefused
  BY DEF LeakInv
<1> QED BY <1>1, InvCorrect, PTL

-----------------------------------------------------------------------------
(* What a client of getFile is sent.                                       *)

\* Before any of these is left, nothing is sent.
Early == {"line", "headers", "route", "head"}

\* What is known of the locals of getFile.
Sending(r) ==
    /\ "sent" \in DOMAIN r /\ "off" \in DOMAIN r /\ "buffer" \in DOMAIN r
    /\ r.sent \in Nat /\ r.off \in 0 .. Chunk /\ r.buffer \in [1 .. Chunk -> Int]

StreamTypes ==
    /\ stream \in [Client -> Seq(Int)]
    /\ unread \in [Client -> Int]
    /\ \A t \in Thread : Sending(local[t])

\* Nothing was sent to a client whose thread does not answer yet, or who has none.
Unstarted ==
    \A c \in Client : (\A t \in Thread : client[t] = c => pc[t] \in Early) => stream[c] = <<>>

NothingSent == \A t \in Thread : pc[t] \in Early \cup {"idle"} => local[t].sent = 0

InOrder(c) ==
    \A i \in 1 .. Len(stream[c]) : i <= Size + 1 => stream[c][i] = IF i = 1 THEN FileHead ELSE i - 1

\* How the stream of a file and the locals of its thread fit together.
FileSent(t, c) ==
    /\ InOrder(c)
    /\ pc[t] = "read" => Len(stream[c]) = 1 + local[t].sent
    /\ pc[t] = "push" =>
        /\ local[t].sent < Size
        /\ Len(stream[c]) = 1 + local[t].sent + local[t].off
        /\ \A i \in 1 .. Chunk : local[t].sent + i <= Size => local[t].buffer[i] = local[t].sent + i
    /\ pc[t] = "delete" => Len(stream[c]) >= Size + 1

\* Unless a send gave up.
Transfer(t) ==
    client[t] # Nobody /\ want[client[t]].op = "file" =>
        pc[t] \notin {"recv", "answer"} /\ (client[t] \notin history.cut => FileSent(t, client[t]))

StreamInv == StreamTypes /\ Unstarted /\ NothingSent /\ \A t \in Thread : Transfer(t)

LEMMA InitStream ==
    ASSUME Init
    PROVE  StreamInv
<1>1. StreamTypes
  <2>1. <<>> \in Seq(Int) /\ [i \in 1 .. Chunk |-> 0] \in [1 .. Chunk -> Int] /\ 0 \in 0 .. Chunk
    BY SizeAssumption
  <2>2. Sending(Fresh)
    BY <2>1 DEF Sending, Fresh
  <2> QED BY <2>1, <2>2 DEF Init, StreamTypes
<1>2. Unstarted /\ NothingSent /\ \A t \in Thread : Transfer(t)
  BY DEF Init, Unstarted, NothingSent, Transfer, Fresh
<1> QED BY <1>1, <1>2 DEF StreamInv

\* A step of a thread that is not refused nor ends: the rest of the threads and their
\* clients' streams are as they were.
LEMMA StaysStream ==
    ASSUME LeakInv, StreamInv, NEW t \in Thread, Stays(t),
           stream' \in [Client -> Seq(Int)], unread' \in [Client -> Int], Sending(local'[t]),
           \A c \in Client \ {client[t]} : stream'[c] = stream[c],
           history.cut \subseteq history'.cut,
           pc'[t] \in Early =>
               pc[t] \in Early /\ stream' = stream /\ local'[t].sent = local[t].sent,
           Transfer(t)'
    PROVE  StreamInv'
<1> USE DEF StreamInv
<1>1. /\ UNCHANGED <<client, want>>
      /\ \A u \in Thread \ {t} : pc'[u] = pc[u] /\ local'[u] = local[u]
      /\ pc'[t] # "idle"
  BY DEF Stays
<1>2. \A u \in Thread : client[u] = client[t] /\ client[t] # Nobody => u = t
  BY PeerIsClient DEF LeakInv
<1>3. StreamTypes'
  BY <1>1 DEF StreamTypes
<1>4. ASSUME NEW c \in Client, \A u \in Thread : client'[u] = c => pc'[u] \in Early
      PROVE  stream'[c] = <<>>
  <2>1. \A u \in Thread : client[u] = c => pc[u] \in Early
    BY <1>1, <1>4
  <2>2. stream[c] = <<>>
    BY <2>1 DEF Unstarted
  <2> QED BY <1>1, <1>4, <2>2
<1>5. NothingSent'
  BY <1>1 DEF NothingSent
<1>6. ASSUME NEW u \in Thread \ {t} PROVE Transfer(u)'
  <2>1. SUFFICES ASSUME client[u] # Nobody, want[client[u]].op = "file"
                 PROVE  /\ pc'[u] \notin {"recv", "answer"}
                        /\ client[u] \notin history'.cut => FileSent(u, client[u])'
    BY <1>1 DEF Transfer
  <2>2. PICK c : c = client[u]
    OBVIOUS
  <2>3. c \in Client \ {client[t]}
    BY <1>2, <2>1, <2>2 DEF LeakInv, SocketInv, Types
  <2>4. Transfer(u)
    OBVIOUS
  <2>5. stream'[c] = stream[c] /\ pc'[u] = pc[u] /\ local'[u] = local[u]
    BY <1>1, <2>3
  <2>6. FileSent(u, c) => FileSent(u, c)'
    BY <2>5 DEF FileSent, InOrder
  <2> QED BY <1>1, <2>1, <2>2, <2>4, <2>5, <2>6 DEF Transfer
<1> QED BY <1>3, <1>4, <1>5, <1>6 DEF Unstarted

\* The steps of a thread before its answer.
LEMMA QuietStream ==
    ASSUME LeakInv, StreamInv, NEW t \in Thread, Stays(t), UNCHANGED <<stream, unread>>,
           history'.cut = history.cut, Sending(local'[t]), local'[t].sent = local[t].sent,
           \/ pc[t] \in {"line", "headers"} /\ pc'[t] \in {"headers", "route"}
           \/ pc[t] = "route" /\ pc'[t] = "head"
           \/ pc[t] = "route" /\ pc'[t] \in {"recv", "answer"} /\ want[Peer(t)].op # "file"
           \/ pc[t] = "recv" /\ pc'[t] = "answer"
    PROVE  StreamInv'
<1>1. Transfer(t)'
  <2>1. SUFFICES ASSUME client[t] # Nobody, want[client[t]].op = "file"
                 PROVE  /\ pc'[t] \notin {"recv", "answer"}
                        /\ client[t] \notin history'.cut => FileSent(t, client[t])'
    BY DEF Transfer, Stays
  <2>2. PICK c : c = client[t]
    OBVIOUS
  <2>3. c \in Client /\ Peer(t) = c /\ \A u \in Thread : client[u] = c => u = t
    BY <2>1, <2>2, PeerIsClient DEF LeakInv, SocketInv, Types
  <2>4. pc[t] # "recv"
    BY <2>1 DEF StreamInv, Transfer
  <2>5. pc[t] \in Early /\ pc'[t] \in Early
    BY <2>1, <2>2, <2>3, <2>4 DEF Early
  <2>6. stream[c] = <<>>
    BY <2>2, <2>3, <2>5 DEF StreamInv, Unstarted
  <2>7. Len(<<>>) = 0
    OBVIOUS
  <2>8. FileSent(t, c)'
    BY <2>5, <2>6, <2>7 DEF FileSent, InOrder, Early
  <2> QED BY <2>2, <2>5, <2>8 DEF Early, Stays
<1>2. pc'[t] \in Early => pc[t] \in Early
  BY DEF Early
<1>3. stream' \in [Client -> Seq(Int)] /\ unread' \in [Client -> Int]
  BY DEF StreamInv, StreamTypes
<1> QED BY <1>1, <1>2, <1>3, StaysStream

\* They leave the locals of getFile alone.
LEMMA PayloadSending ==
    ASSUME Types, NEW t \in Thread, Sending(local[t]), NEW payload, SetPayload(t, payload)
    PROVE  Sending(local'[t]) /\ local'[t].sent = local[t].sent
<1>1. PICK read : local' = [local EXCEPT ![t].payload = payload, ![t].read = read]
  BY DEF SetPayload
<1> QED BY <1>1 DEF Types, Sending

LEMMA BeforeAnswerStream ==
    ASSUME LeakInv, StreamInv, NEW t \in Thread,
           \/ ReadLine(t) \/ NoLine(t) \/ ReadHeaders(t) \/ NoHeaders(t) \/ Route(t)
           \/ ReadPayload(t) \/ NoPayload(t) \/ BadLength(t)
    PROVE  StreamInv'
<1>1. Types /\ Sending(local[t])
  BY DEF LeakInv, SocketInv, StreamInv, StreamTypes
<1>2. Stays(t)
  BY <1>1, ReadStays, HeadersStay, QuietStays
<1>3. UNCHANGED <<stream, unread>>
  BY Zenon DEF ReadLine, NoLine, ReadHeaders, NoHeaders, Route, ReadPayload, NoPayload, BadLength
<1>4. history'.cut = history.cut
  <2>1. CASE NoLine(t)
    BY <1>1, <2>1 DEF NoLine, Types, Histories
  <2>2. CASE ~NoLine(t)
    <3>1. UNCHANGED history
      BY <2>2, Zenon DEF ReadLine, ReadHeaders, NoHeaders, Route, ReadPayload, NoPayload, BadLength
    <3> QED BY <3>1
  <2> QED BY <2>1, <2>2
<1>5. Sending(local'[t]) /\ local'[t].sent = local[t].sent
  <2>1. CASE UNCHANGED local
    BY <1>1, <2>1
  <2>2. CASE ReadLine(t)
    BY <1>1, <2>2 DEF ReadLine, Types, Sending
  <2>3. CASE ReadHeaders(t)
    <3>1. UNCHANGED local \/ local' = [local EXCEPT ![t].length = want[Peer(t)].length]
      BY <2>3 DEF ReadHeaders
    <3> QED BY <1>1, <2>1, <3>1 DEF Types, Sending
  <2>4. CASE ReadPayload(t) \/ NoPayload(t) \/ BadLength(t)
    <3>1. ASSUME NEW payload, SetPayload(t, payload)
          PROVE  Sending(local'[t]) /\ local'[t].sent = local[t].sent
      BY <1>1, <3>1, PayloadSending
    <3> QED BY <2>1, <2>4, <3>1, Zenon DEF ReadPayload, NoPayload, BadLength
  <2> QED BY <2>1, <2>2, <2>3, <2>4, Zenon DEF NoLine, NoHeaders, Route
<1>6. \/ pc[t] \in {"line", "headers"} /\ pc'[t] \in {"headers", "route"}
      \/ pc[t] = "route" /\ pc'[t] = "head"
      \/ pc[t] = "route" /\ pc'[t] \in {"recv", "answer"} /\ want[Peer(t)].op # "file"
      \/ pc[t] = "recv" /\ pc'[t] = "answer"
  BY <1>1 DEF Types, At, Goto, ReadLine, NoLine, ReadHeaders, NoHeaders, Route, ReadPayload,
     NoPayload, BadLength
<1> QED BY <1>2, <1>3, <1>4, <1>5, <1>6, QuietStream

\* A part of a sequence.
LEMMA PartOf ==
    ASSUME NEW s \in Seq(Int), NEW m \in 0 .. Len(s), NEW n \in 0 .. Len(s), m <= n
    PROVE  /\ SubSeq(s, m + 1, n) \in Seq(Int)
           /\ Len(SubSeq(s, m + 1, n)) = n - m
           /\ \A i \in 1 .. n - m : SubSeq(s, m + 1, n)[i] = s[m + i]
OBVIOUS

LEMMA PrefixOf ==
    ASSUME NEW s \in Seq(Int), NEW n \in 0 .. Len(s)
    PROVE  /\ SubSeq(s, 1, n) \in Seq(Int) /\ Len(SubSeq(s, 1, n)) = n
           /\ \A i \in 1 .. n : SubSeq(s, 1, n)[i] = s[i]
OBVIOUS

\* And one behind another.
LEMMA Continued ==
    ASSUME NEW s \in Seq(Int), NEW r \in Seq(Int)
    PROVE  /\ s \o r \in Seq(Int) /\ Len(s \o r) = Len(s) + Len(r)
           /\ \A i \in 1 .. Len(s) : (s \o r)[i] = s[i]
           /\ \A i \in 1 .. Len(r) : (s \o r)[Len(s) + i] = r[i]
OBVIOUS

\* What SendPieces does to the stream of a client whose connection is whole.
LEMMA PiecesSent ==
    ASSUME LeakInv, StreamInv, NEW t \in Thread, NEW pieces \in Seq(Int),
           SendPieces(t, pieces), RoomFor(t) > 0
    PROVE  /\ client[t] \in Client
           /\ stream' \in [Client -> Seq(Int)] /\ unread' \in [Client -> Int]
           /\ \A c \in Client \ {client[t]} : stream'[c] = stream[c]
           /\ client[t] \notin history.cut => stream'[client[t]] = stream[client[t]] \o pieces
<1>1. Peer(t) = client[t] /\ client[t] \in Client \cup {Nobody}
  BY PeerIsClient DEF LeakInv, SocketInv, Types
<1>2. client[t] \in Client
  BY <1>1 DEF RoomFor
<1>3. PICK c : c = client[t]
  OBVIOUS
<1>4. stream \in [Client -> Seq(Int)] /\ unread \in [Client -> Int] /\ Len(pieces) \in Int
  BY DEF StreamInv, StreamTypes
<1>5. /\ stream' = IF c \in history.cut THEN stream ELSE [stream EXCEPT ![c] = @ \o pieces]
      /\ unread' = IF c \in gone THEN unread ELSE [unread EXCEPT ![c] = @ + Len(pieces)]
  BY <1>1, <1>3 DEF SendPieces
<1>6. stream[c] \o pieces \in Seq(Int)
  BY <1>2, <1>3, <1>4
<1> QED BY <1>2, <1>3, <1>4, <1>5, <1>6

\* A send that gives up cuts the stream.
LEMMA StreamCut ==
    ASSUME LeakInv, StreamInv, NEW t \in Thread, SendFails(t)
    PROVE  /\ stream' \in [Client -> Seq(Int)] /\ unread' \in [Client -> Int]
           /\ \A c \in Client \ {client[t]} : stream'[c] = stream[c]
           /\ history.cut \subseteq history'.cut /\ client[t] \in history'.cut
<1>1. Peer(t) = client[t]
  BY PeerIsClient DEF LeakInv
<1>2. PICK c : c = client[t]
  OBVIOUS
<1>3. stream' = [stream EXCEPT ![c] = <<>>] /\ unread' = unread
      /\ history' = [history EXCEPT !.cut = @ \cup {c}]
  BY <1>1, <1>2 DEF SendFails
<1>4. history.cut \subseteq history'.cut /\ c \in history'.cut
  BY <1>3 DEF LeakInv, SocketInv, Types, Histories
<1>5. stream' \in [Client -> Seq(Int)] /\ \A b \in Client \ {c} : stream'[b] = stream[b]
  <2>1. <<>> \in Seq(Int)
    OBVIOUS
  <2> QED BY <1>3, <2>1 DEF StreamInv, StreamTypes
<1> QED BY <1>2, <1>3, <1>4, <1>5 DEF StreamInv, StreamTypes

\* Whatever else a thread does when its send gives up, it goes on with what is cut.
LEMMA CutStream ==
    ASSUME LeakInv, StreamInv, NEW t \in Thread, Stays(t), SendFails(t), Sending(local'[t]),
           pc'[t] \notin Early \cup {"recv", "answer"}
    PROVE  StreamInv'
<1>1. UNCHANGED <<client, want>>
  BY DEF Stays
<1>2. Transfer(t)'
  BY <1>1, StreamCut DEF Transfer
<1> QED BY <1>2, StreamCut, StaysStream

LEMMA HeadStream ==
    ASSUME LeakInv, StreamInv, NEW t \in Thread, SendHead(t)
    PROVE  StreamInv'
<1>1. Types /\ Sending(local[t])
  BY DEF LeakInv, SocketInv, StreamInv, StreamTypes
<1>2. Stays(t) /\ UNCHANGED <<client, want, local>>
  BY <1>1, SendStays DEF SendHead, peers
<1>3. pc[t] = "head" /\ pc'[t] = "read"
  BY <1>1 DEF SendHead, At, Goto, Types
<1>4. CASE SendFails(t)
  BY <1>1, <1>2, <1>3, <1>4, CutStream DEF Early
<1>5. CASE RoomFor(t) > 0 /\ SendPieces(t, <<FileHead>>) /\ UNCHANGED history
  <2>1. PICK c, pieces : c = client[t] /\ pieces = <<FileHead>>
    OBVIOUS
  <2>2. pieces \in Seq(Int) /\ Len(pieces) = 1 /\ pieces[1] = FileHead
    BY <2>1 DEF FileHead
  <2>3. /\ c \in Client
        /\ stream' \in [Client -> Seq(Int)] /\ unread' \in [Client -> Int]
        /\ \A b \in Client \ {c} : stream'[b] = stream[b]
        /\ c \notin history.cut => stream'[c] = stream[c] \o pieces
    BY <1>5, <2>1, <2>2, PiecesSent
  <2>4. stream[c] = <<>>
    <3>1. \A u \in Thread : client[u] = c => u = t
      BY <2>1, <2>3, NobodyAssumption, PeerIsClient DEF LeakInv
    <3> QED BY <1>3, <2>3, <3>1 DEF StreamInv, Unstarted, Early
  <2>5. c \notin history.cut => Len(stream'[c]) = 1 /\ stream'[c][1] = FileHead
    BY <2>2, <2>3, <2>4
  <2>6. local[t].sent = 0
    BY <1>3 DEF StreamInv, NothingSent, Early
  <2>7. c \notin history.cut => FileSent(t, c)'
    BY <1>2, <1>3, <2>5, <2>6 DEF FileSent, InOrder
  <2>8. Transfer(t)'
    BY <1>2, <1>3, <1>5, <2>1, <2>7 DEF Transfer
  <2>9. pc'[t] \notin Early /\ history'.cut = history.cut /\ Sending(local'[t])
    BY <1>1, <1>2, <1>3, <1>5 DEF Early
  <2> QED BY <1>2, <2>1, <2>3, <2>8, <2>9, StaysStream
<1> QED BY <1>4, <1>5 DEF SendHead

LEMMA AnswerStream ==
    ASSUME LeakInv, StreamInv, NEW t \in Thread, SendAnswer(t)
    PROVE  StreamInv'
<1>1. Types /\ Sending(local[t])
  BY DEF LeakInv, SocketInv, StreamInv, StreamTypes
<1>2. Stays(t) /\ UNCHANGED <<client, want, local>>
  BY <1>1, SendStays DEF SendAnswer, peers
<1>3. pc[t] = "answer" /\ pc'[t] = "delete"
  BY <1>1 DEF SendAnswer, At, Goto, Types
<1>4. CASE SendFails(t)
  BY <1>1, <1>2, <1>3, <1>4, CutStream DEF Early
<1>5. CASE RoomFor(t) > 0 /\ SendPieces(t, <<Reply>>) /\ UNCHANGED history
  <2>1. PICK pieces : pieces = <<Reply>>
    OBVIOUS
  <2>2. pieces \in Seq(Int)
    BY <2>1 DEF Reply
  <2>3. /\ stream' \in [Client -> Seq(Int)] /\ unread' \in [Client -> Int]
        /\ \A b \in Client \ {client[t]} : stream'[b] = stream[b]
    BY <1>5, <2>1, <2>2, PiecesSent
  <2>4. Transfer(t)'
    BY <1>2, <1>3 DEF StreamInv, Transfer
  <2>5. pc'[t] \notin Early /\ history'.cut = history.cut /\ Sending(local'[t])
    BY <1>1, <1>2, <1>3, <1>5 DEF Early
  <2> QED BY <1>2, <2>3, <2>4, <2>5, StaysStream
<1> QED BY <1>4, <1>5 DEF SendAnswer

\* What is read of the file is its next units; behind them all of it was sent.
LEMMA ChunkStream ==
    ASSUME LeakInv, StreamInv, NEW t \in Thread, ReadChunk(t) \/ EndFile(t)
    PROVE  StreamInv'
<1>1. Types /\ Sending(local[t]) /\ Transfer(t)
  BY DEF LeakInv, SocketInv, StreamInv, StreamTypes
<1>2. Stays(t)
  BY <1>1, QuietStays
<1>3. pc[t] = "read" /\ UNCHANGED <<client, want, stream, unread, history>>
  BY DEF ReadChunk, EndFile, At, peers
<1>4. stream' \in [Client -> Seq(Int)] /\ unread' \in [Client -> Int]
  BY <1>3 DEF StreamInv, StreamTypes
<1>5. CASE ReadChunk(t)
  <2>1. PICK buffer : buffer = ChunkOf(t)
    OBVIOUS
  <2>2. local' = [local EXCEPT ![t].buffer = buffer, ![t].off = 0]
    BY <1>1, <1>5, <2>1 DEF ReadChunk
  <2>3. /\ local'[t].buffer = buffer /\ local'[t].off = 0 /\ local'[t].sent = local[t].sent
        /\ "sent" \in DOMAIN local'[t] /\ "off" \in DOMAIN local'[t] /\ "buffer" \in DOMAIN local'[t]
    BY <1>1, <2>2 DEF Types, Sending
  <2>4. /\ buffer \in [1 .. Chunk -> Int]
        /\ \A i \in 1 .. Chunk : local[t].sent + i <= Size => buffer[i] = local[t].sent + i
    BY <1>1, <2>1, SizeAssumption DEF ChunkOf, Sending
  <2>5. Sending(local'[t])
    BY <1>1, <2>3, <2>4, SizeAssumption DEF Sending
  <2>6. pc'[t] = "push" /\ local[t].sent < Size /\ local[t].sent \in Int
    BY <1>1, <1>5 DEF ReadChunk, Goto, Types, Sending
  <2>7. PICK c : c = client[t]
    OBVIOUS
  <2>8. ASSUME FileSent(t, c) PROVE FileSent(t, c)'
    <3>1. Len(stream[c]) = 1 + local[t].sent /\ stream' = stream
      BY <1>3, <2>8 DEF FileSent
    <3>2. Len(stream'[c]) = 1 + local'[t].sent + local'[t].off
      BY <2>3, <2>6, <3>1
    <3>3. InOrder(c)'
      BY <2>8, <3>1 DEF FileSent, InOrder
    <3> QED BY <2>3, <2>4, <2>6, <3>2, <3>3 DEF FileSent
  <2>9. Transfer(t)'
    BY <1>1, <1>3, <2>6, <2>7, <2>8 DEF Transfer
  <2>10. pc'[t] \notin Early /\ history'.cut = history.cut
    BY <1>3, <2>6 DEF Early
  <2> QED BY <1>2, <1>3, <1>4, <2>5, <2>9, <2>10, StaysStream
<1>6. CASE EndFile(t)
  <2>1. local' = local /\ local[t].sent >= Size /\ pc'[t] = "delete"
    BY <1>1, <1>6 DEF EndFile, Goto, Types
  <2>2. PICK c : c = client[t]
    OBVIOUS
  <2>3. ASSUME FileSent(t, c) PROVE FileSent(t, c)'
    <3>1. InOrder(c)' /\ Len(stream'[c]) = 1 + local[t].sent
      BY <1>3, <2>3 DEF FileSent, InOrder
    <3>2. Len(stream'[c]) >= Size + 1
      BY <1>1, <2>1, <3>1, SizeAssumption DEF Sending
    <3> QED BY <2>1, <3>1, <3>2 DEF FileSent
  <2>4. Transfer(t)'
    BY <1>1, <1>3, <2>1, <2>2, <2>3 DEF Transfer
  <2>5. pc'[t] \notin Early /\ history'.cut = history.cut
    BY <1>3, <2>1 DEF Early
  <2> QED BY <1>1, <1>2, <1>3, <1>4, <2>1, <2>4, <2>5, StaysStream
<1> QED BY <1>5, <1>6

LEMMA PushStream ==
    ASSUME LeakInv, StreamInv, NEW t \in Thread, PushChunk(t)
    PROVE  StreamInv'
<1>1. Types /\ Sending(local[t]) /\ Transfer(t) /\ NothingSent
  BY DEF LeakInv, SocketInv, StreamInv, StreamTypes
<1>2. Stays(t) /\ UNCHANGED <<client, want>> /\ pc[t] = "push"
  BY <1>1, SendStays DEF PushChunk, peers, At
<1>3. CASE PushFails(t)
  <2>1. local' = [local EXCEPT ![t].sent = @ + Chunk, ![t].off = 0] /\ pc'[t] = "read"
        /\ SendFails(t)
    BY <1>1, <1>3 DEF PushFails, Goto, Types
  <2>2. Sending(local'[t])
    BY <1>1, <2>1, SizeAssumption DEF Types, Sending
  <2> QED BY <1>2, <2>1, <2>2, CutStream DEF Early
<1>4. CASE PushSome(t)
  <2>1. PICK sent, off, buffer, left :
            /\ sent = local[t].sent /\ off = local[t].off /\ buffer = local[t].buffer
            /\ left = SubSeq(buffer, off + 1, Chunk)
    OBVIOUS
  <2>2. PICK n : n = IF Len(left) < RoomFor(t) THEN Len(left) ELSE RoomFor(t)
    OBVIOUS
  <2>3. PICK pieces : pieces = SubSeq(left, 1, n)
    OBVIOUS
  <2>4. /\ RoomFor(t) > 0 /\ SendPieces(t, pieces) /\ UNCHANGED history
        /\ IF n = Len(left)
           THEN local' = [local EXCEPT ![t].sent = @ + Chunk, ![t].off = 0] /\ pc'[t] = "read"
           ELSE local' = [local EXCEPT ![t].off = @ + n] /\ pc'[t] = "push"
    BY <1>1, <1>2, <1>4, <2>1, <2>2, <2>3 DEF PushSome, Goto, Types
  <2>5. RoomFor(t) \in Nat
    <3>1. Peer(t) \in Client \cup {Nobody}
      BY <1>1, PeerType
    <3>2. RoomFor(t) \in Int
      BY <3>1, SizeAssumption DEF RoomFor, StreamInv, StreamTypes
    <3> QED BY <2>4, <3>2
  <2>6. sent \in Nat /\ off \in 0 .. Chunk /\ buffer \in [1 .. Chunk -> Int]
    BY <1>1, <2>1 DEF Sending
  <2>7. /\ Len(left) = Chunk - off /\ n \in 0 .. Chunk - off
        /\ pieces \in Seq(Int) /\ Len(pieces) = n
        /\ \A i \in 1 .. n : pieces[i] = buffer[off + i]
    <3>1. buffer \in Seq(Int) /\ Len(buffer) = Chunk /\ Chunk \in Nat
      BY <2>6, SizeAssumption
    <3>2. off \in 0 .. Len(buffer) /\ Chunk \in 0 .. Len(buffer) /\ off <= Chunk
      BY <2>6, <3>1
    <3>3. /\ SubSeq(buffer, off + 1, Chunk) \in Seq(Int)
          /\ Len(SubSeq(buffer, off + 1, Chunk)) = Chunk - off
          /\ \A i \in 1 .. Chunk - off : SubSeq(buffer, off + 1, Chunk)[i] = buffer[off + i]
      BY <3>1, <3>2, PartOf
    <3>4. left \in Seq(Int) /\ Len(left) = Chunk - off
          /\ \A i \in 1 .. Chunk - off : left[i] = buffer[off + i]
      BY <2>1, <3>3, Zenon
    <3>5. n \in 0 .. Chunk - off
      <4>1. Chunk - off \in Nat
        BY <3>1, <3>2
      <4> QED BY <2>2, <2>5, <3>4, <4>1
    <3>6. n \in 0 .. Len(left)
      BY <3>4, <3>5
    <3>7. /\ SubSeq(left, 1, n) \in Seq(Int) /\ Len(SubSeq(left, 1, n)) = n
          /\ \A i \in 1 .. n : SubSeq(left, 1, n)[i] = left[i]
      BY <3>4, <3>6, PrefixOf, Zenon
    <3>8. pieces \in Seq(Int) /\ Len(pieces) = n /\ \A i \in 1 .. n : pieces[i] = left[i]
      BY <2>3, <3>7, Zenon
    <3>9. \A i \in 1 .. n : i \in 1 .. Chunk - off
      BY <3>1, <3>2, <3>5
    <3> QED BY <3>4, <3>5, <3>8, <3>9
  <2>8. /\ local'[t].buffer = buffer
        /\ "sent" \in DOMAIN local'[t] /\ "off" \in DOMAIN local'[t] /\ "buffer" \in DOMAIN local'[t]
        /\ \/ pc'[t] = "read" /\ local'[t].off = 0 /\ local'[t].sent = sent + Chunk /\ n = Len(left)
           \/ pc'[t] = "push" /\ local'[t].off = off + n /\ local'[t].sent = sent
    <3>1. CASE n = Len(left)
      <4>1. local' = [local EXCEPT ![t].sent = @ + Chunk, ![t].off = 0] /\ pc'[t] = "read"
        BY <2>4, <3>1
      <4> QED BY <1>1, <2>1, <3>1, <4>1 DEF Types, Sending
    <3>2. CASE n # Len(left)
      <4>1. local' = [local EXCEPT ![t].off = @ + n] /\ pc'[t] = "push"
        BY <2>4, <3>2
      <4> QED BY <1>1, <2>1, <4>1 DEF Types, Sending
    <3> QED BY <3>1, <3>2
  <2>9. Sending(local'[t])
    <3>1. Chunk \in Nat /\ 0 \in 0 .. Chunk /\ off + n \in 0 .. Chunk /\ sent + Chunk \in Nat
      BY <2>6, <2>7, SizeAssumption
    <3> QED BY <2>6, <2>8, <3>1 DEF Sending
  <2>10. PICK c : c = client[t]
    OBVIOUS
  <2>11. /\ c \in Client
         /\ stream' \in [Client -> Seq(Int)] /\ unread' \in [Client -> Int]
         /\ \A b \in Client \ {c} : stream'[b] = stream[b]
         /\ c \notin history.cut => stream'[c] = stream[c] \o pieces
    BY <2>4, <2>7, <2>10, PiecesSent
  <2>12. ASSUME c \notin history.cut, FileSent(t, c)
         PROVE  FileSent(t, c)'
    <3>1. PICK old, new : old = stream[c] /\ new = stream'[c]
      OBVIOUS
    <3>2. /\ old \in Seq(Int) /\ sent < Size /\ Len(old) = 1 + sent + off
          /\ \A i \in 1 .. Chunk : sent + i <= Size => buffer[i] = sent + i
          /\ \A i \in 1 .. Len(old) : i <= Size + 1 => old[i] = IF i = 1 THEN FileHead ELSE i - 1
      BY <1>2, <2>1, <2>11, <2>12, <3>1 DEF FileSent, InOrder, StreamInv, StreamTypes
    <3>3. new = old \o pieces
      BY <2>11, <2>12, <3>1
    <3>4. Len(old) >= 1
      <4>1. sent \in Nat /\ off \in Nat
        BY <2>6
      <4> QED BY <3>2, <4>1
    <3>5. /\ Len(new) = 1 + sent + off + n
          /\ \A i \in 1 .. Len(new) : i <= Size + 1 => new[i] = IF i = 1 THEN FileHead ELSE i - 1
      <4>1. /\ old \o pieces \in Seq(Int) /\ Len(old \o pieces) = Len(old) + Len(pieces)
            /\ \A i \in 1 .. Len(old) : (old \o pieces)[i] = old[i]
            /\ \A i \in 1 .. Len(pieces) : (old \o pieces)[Len(old) + i] = pieces[i]
        BY <2>7, <3>2, Continued, Zenon
      <4>2. /\ Len(new) = Len(old) + n
            /\ \A i \in 1 .. Len(old) : new[i] = old[i]
            /\ \A i \in 1 .. n : new[Len(old) + i] = pieces[i]
        BY <2>7, <3>3, <4>1, Zenon
      <4>3. ASSUME NEW i \in 1 .. Len(new), i <= Size + 1
            PROVE  new[i] = IF i = 1 THEN FileHead ELSE i - 1
        <5>1. CASE i <= Len(old)
          <6>1. i \in 1 .. Len(old)
            BY <3>2, <4>2, <5>1
          <6> QED BY <3>2, <4>2, <4>3, <6>1
        <5>2. CASE ~(i <= Len(old))
          <6>1. PICK j : j = i - Len(old)
            OBVIOUS
          <6>2. j \in 1 .. n /\ i = Len(old) + j /\ j \in Nat
            BY <2>7, <3>2, <4>2, <5>2, <6>1
          <6>3. off + j \in 1 .. Chunk
            BY <2>6, <2>7, <6>2, SizeAssumption
          <6>4. sent + (off + j) = i - 1 /\ i # 1 /\ sent + (off + j) <= Size
            BY <2>6, <3>2, <3>4, <4>3, <6>2, SizeAssumption
          <6>5. new[i] = buffer[off + j]
            BY <2>7, <4>2, <6>2
          <6> QED BY <3>2, <6>3, <6>4, <6>5
        <5> QED BY <5>1, <5>2
      <4>4. Len(new) = 1 + sent + off + n
        BY <2>6, <2>7, <3>2, <4>2
      <4> QED BY <4>3, <4>4
    <3>6. InOrder(c)'
      BY <3>1, <3>5 DEF InOrder
    <3>7. CASE pc'[t] = "read"
      <4>1. local'[t].sent = sent + Chunk /\ n = Chunk - off
        BY <2>7, <2>8, <3>7
      <4>2. Len(new) = 1 + local'[t].sent
        BY <2>6, <3>5, <4>1, SizeAssumption
      <4> QED BY <3>1, <3>6, <3>7, <4>2 DEF FileSent
    <3>8. CASE pc'[t] = "push"
      <4>1. local'[t].off = off + n /\ local'[t].sent = sent
        BY <2>8, <3>8
      <4>2. Len(new) = 1 + sent + (off + n)
        BY <2>6, <2>7, <3>5, SizeAssumption
      <4> QED BY <2>8, <3>1, <3>2, <3>6, <3>8, <4>1, <4>2 DEF FileSent
    <3> QED BY <2>8, <3>7, <3>8
  <2>13. Transfer(t)'
    BY <1>1, <1>2, <2>4, <2>8, <2>10, <2>12 DEF Transfer
  <2>14. pc'[t] \notin Early /\ history'.cut = history.cut
    BY <2>4, <2>8 DEF Early
  <2> QED BY <1>2, <2>9, <2>10, <2>11, <2>13, <2>14, StaysStream
<1> QED BY <1>3, <1>4 DEF PushChunk

-----------------------------------------------------------------------------
(* The steps of clients and of the loop, and the ends of threads.          *)

\* Close forgets the streams of its clients, and that they were cut.
LEMMA CloseStreams ==
    ASSUME LeakInv, StreamInv, NEW S, Close(S)
    PROVE  /\ stream' \in [Client -> Seq(Int)] /\ unread' \in [Client -> Int]
           /\ history'.cut = history.cut \ S
           /\ \A c \in Client : IF c \in S THEN stream'[c] = <<>>
                                ELSE stream'[c] = stream[c] /\ want'[c] = want[c]
<1>1. stream \in [Client -> Seq(Int)] /\ unread \in [Client -> Int] /\ <<>> \in Seq(Int)
  BY DEF StreamInv, StreamTypes
<1>2. history'.cut = history.cut \ S
  BY DEF LeakInv, SocketInv, Types, Histories, Close
<1> QED BY <1>1, <1>2 DEF Close, LeakInv, SocketInv, Types

\* A step after which thread u works for the same client as before, and the client's
\* stream is as it was unless it is cut.
LEMMA TransferStays ==
    ASSUME StreamInv, NEW u \in Thread, client'[u] = client[u], pc'[u] = pc[u], local'[u] = local[u],
           client[u] # Nobody => want'[client[u]] = want[client[u]],
           client[u] # Nobody /\ client[u] \notin history'.cut =>
               client[u] \notin history.cut /\ stream'[client[u]] = stream[client[u]]
    PROVE  Transfer(u)'
<1>1. PICK c : c = client[u]
  OBVIOUS
<1>2. Transfer(u)
  BY DEF StreamInv
<1>3. ASSUME stream'[c] = stream[c], FileSent(u, c)
      PROVE  FileSent(u, c)'
  BY <1>3 DEF FileSent, InOrder
<1> QED BY <1>1, <1>2, <1>3 DEF Transfer

\* A client whose connection is not open has no thread, and was sent nothing.
LEMMA NotOpen ==
    ASSUME LeakInv, StreamInv, NEW c \in Client, link[c] # "open"
    PROVE  stream[c] = <<>> /\ \A t \in Thread : client[t] # c
<1>1. \A t \in Thread : client[t] # c
  BY PeerIsClient, NobodyAssumption DEF LeakInv
<1> QED BY <1>1 DEF StreamInv, Unstarted

LEMMA ClientStream ==
    ASSUME LeakInv, StreamInv, NEW c \in Client, Connect(c) \/ Send(c) \/ Receive(c) \/ Leave(c)
    PROVE  StreamInv'
<1>1. /\ UNCHANGED <<pc, local, client>>
      /\ \A t \in Thread : client[t] # Nobody => client[t] \in Client
  BY DEF Connect, Send, Receive, Leave, threads, LeakInv, SocketInv, Types
<1>2. stream \in [Client -> Seq(Int)] /\ unread \in [Client -> Int] /\ <<>> \in Seq(Int)
  BY DEF StreamInv, StreamTypes
<1>3. /\ stream' \in [Client -> Seq(Int)] /\ unread' \in [Client -> Int]
      /\ \A b \in Client : stream'[b] = stream[b] \/ stream'[b] = <<>>
  <2>1. stream' = stream \/ stream' = [stream EXCEPT ![c] = <<>>]
    BY DEF Connect, Send, Receive, Leave
  <2>2. unread' = unread \/ unread' = [unread EXCEPT ![c] = 0]
    BY DEF Connect, Send, Receive, Leave
  <2>3. unread' \in [Client -> Int]
    BY <1>2, <2>2
  <2>4. CASE stream' = stream
    BY <1>2, <2>3, <2>4
  <2>5. CASE stream' = [stream EXCEPT ![c] = <<>>]
    <3>1. stream' \in [Client -> Seq(Int)]
      BY <1>2, <2>5
    <3>2. \A b \in Client : stream'[b] = IF b = c THEN <<>> ELSE stream[b]
      BY <1>2, <2>5
    <3> QED BY <2>3, <3>1, <3>2
  <2> QED BY <2>1, <2>4, <2>5
<1>4. StreamTypes' /\ NothingSent'
  BY <1>1, <1>3 DEF StreamInv, StreamTypes, NothingSent
<1>5. Unstarted'
  BY <1>1, <1>3 DEF StreamInv, Unstarted
<1>6. ASSUME NEW u \in Thread PROVE Transfer(u)'
  <2>1. client[u] # Nobody => want'[client[u]] = want[client[u]]
    <3>1. CASE Connect(c)
      <4>1. client[u] # c
        BY <3>1, NotOpen DEF Connect
      <4>2. PICK w : want' = [want EXCEPT ![c] = w]
        BY <3>1 DEF Connect
      <4> QED BY <1>1, <4>1, <4>2 DEF LeakInv, SocketInv, Types
    <3>2. CASE Send(c) \/ Receive(c) \/ Leave(c)
      BY <3>2 DEF Send, Receive, Leave, peers
    <3> QED BY <3>1, <3>2
  <2>2. client[u] # Nobody /\ client[u] \notin history'.cut =>
            client[u] \notin history.cut /\ stream'[client[u]] = stream[client[u]]
    <3>1. CASE Leave(c)
      <4>1. /\ history' = [history EXCEPT !.cut = @ \cup {c}] /\ history \in Histories
            /\ stream' = [stream EXCEPT ![c] = <<>>]
        BY <3>1 DEF Leave, LeakInv, SocketInv, Types
      <4>2. history'.cut = history.cut \cup {c}
        BY <4>1 DEF Histories
      <4>3. \A b \in Client \ {c} : stream'[b] = stream[b]
        BY <1>2, <4>1
      <4> QED BY <1>1, <4>2, <4>3
    <3>2. CASE Connect(c) \/ Send(c) \/ Receive(c)
      BY <3>2 DEF Connect, Send, Receive
    <3> QED BY <3>1, <3>2
  <2> QED BY <1>1, <2>1, <2>2, TransferStays
<1> QED BY <1>4, <1>5, <1>6 DEF StreamInv

\* Thread t ends, and what it was started for is over: nothing of it is left.
LEMMA FinishStream ==
    ASSUME LeakInv, StreamInv, NEW t \in Thread, Finish(t),
           stream' \in [Client -> Seq(Int)], unread' \in [Client -> Int],
           client[t] # Nobody => stream'[client[t]] = <<>>,
           \A c \in Client \ {client[t]} : /\ stream'[c] = stream[c] /\ want'[c] = want[c]
                                           /\ c \notin history'.cut => c \notin history.cut
    PROVE  StreamInv'
<1>1. /\ pc' = [pc EXCEPT ![t] = "idle"] /\ client' = [client EXCEPT ![t] = Nobody]
      /\ local'[t] = Fresh /\ DOMAIN local' = Thread
      /\ \A u \in Thread \ {t} : pc'[u] = pc[u] /\ client'[u] = client[u] /\ local'[u] = local[u]
      /\ pc'[t] = "idle" /\ client'[t] = Nobody
  BY DEF Finish, LeakInv, SocketInv, Types
<1>2. Sending(Fresh) /\ Fresh.sent = 0
  BY SizeAssumption DEF Sending, Fresh
<1>3. StreamTypes' /\ NothingSent'
  BY <1>1, <1>2 DEF StreamInv, StreamTypes, NothingSent
<1>4. ASSUME NEW c \in Client, \A u \in Thread : client'[u] = c => pc'[u] \in Early
      PROVE  stream'[c] = <<>>
  <2>1. CASE client[t] = c
    BY <2>1, NobodyAssumption
  <2>2. CASE client[t] # c
    <3>1. \A u \in Thread : client[u] = c => pc[u] \in Early
      BY <1>1, <1>4, <2>2
    <3> QED BY <2>2, <3>1 DEF StreamInv, Unstarted
  <2> QED BY <2>1, <2>2
<1>5. ASSUME NEW u \in Thread PROVE Transfer(u)'
  <2>1. CASE u = t
    BY <1>1, <2>1 DEF Transfer
  <2>2. CASE u # t
    <3>1. client[u] # Nobody => client[u] \in Client \ {client[t]}
      BY <2>2, PeerIsClient DEF LeakInv, SocketInv, Types
    <3> QED BY <1>1, <2>2, <3>1, TransferStays
  <2> QED BY <2>1, <2>2
<1> QED BY <1>3, <1>4, <1>5 DEF StreamInv, Unstarted

LEMMA EndStream ==
    ASSUME LeakInv, StreamInv, NEW t \in Thread, Refuse(t) \/ DeleteClient(t)
    PROVE  StreamInv'
<1>1. /\ Finish(t) /\ Peer(t) = client[t] /\ client[t] \in Client \cup {Nobody}
      /\ stream \in [Client -> Seq(Int)] /\ unread \in [Client -> Int]
  BY PeerIsClient DEF Refuse, DeleteClient, LeakInv, SocketInv, Types, StreamInv, StreamTypes
<1>2. CASE Refuse(t)
  <2>1. UNCHANGED <<stream, unread, want, history>> /\ pc[t] = "route"
    BY <1>2 DEF Refuse, At, peers
  <2>2. client[t] # Nobody => stream[client[t]] = <<>>
    <3>1. client[t] # Nobody => \A u \in Thread : client[u] = client[t] => pc[u] \in Early
      BY <2>1, PeerIsClient DEF LeakInv, Early
    <3> QED BY <1>1, <3>1 DEF StreamInv, Unstarted
  <2> QED BY <1>1, <2>1, <2>2, FinishStream
<1>3. CASE DeleteClient(t) /\ handle[t] = NoHandle
  <2>1. UNCHANGED <<stream, unread, want, history>> /\ client[t] = Nobody
    BY <1>3 DEF DeleteClient, Disconnect, peers, LeakInv, SocketInv, HandlesUsed
  <2> QED BY <1>1, <2>1, FinishStream
<1>4. CASE DeleteClient(t) /\ handle[t] # NoHandle
  <2>1. PICK S : S = {client[t]}
    OBVIOUS
  <2>2. Close(S)
    BY <1>1, <1>4, <2>1 DEF DeleteClient, Disconnect
  <2>3. /\ stream' \in [Client -> Seq(Int)] /\ unread' \in [Client -> Int]
        /\ history'.cut = history.cut \ S
        /\ \A c \in Client : IF c \in S THEN stream'[c] = <<>>
                             ELSE stream'[c] = stream[c] /\ want'[c] = want[c]
    BY <2>2, CloseStreams
  <2> QED BY <1>1, <2>1, <2>3, FinishStream
<1> QED BY <1>2, <1>3, <1>4

\* When the process ends, so do all connections that were sent anything.
LEMMA DieStream ==
    ASSUME LeakInv, StreamInv, NEW S, Die(S), \A c \in Client : link[c] = "open" => c \in S
    PROVE  StreamInv'
<1>1. \A t \in Thread : pc'[t] = "idle" /\ client'[t] = Nobody /\ local'[t] = Fresh
  BY DEF Die
<1>2. /\ stream' \in [Client -> Seq(Int)] /\ unread' \in [Client -> Int]
      /\ \A c \in Client : c \in S => stream'[c] = <<>>
      /\ \A c \in Client : c \notin S => stream'[c] = stream[c]
  BY CloseStreams DEF Die
<1>3. Sending(Fresh) /\ Fresh.sent = 0
  BY SizeAssumption DEF Sending, Fresh
<1>4. StreamTypes' /\ NothingSent'
  BY <1>1, <1>2, <1>3 DEF StreamTypes, NothingSent
<1>5. Unstarted'
  BY <1>2, NotOpen DEF Unstarted
<1>6. ASSUME NEW u \in Thread PROVE Transfer(u)'
  BY <1>1 DEF Transfer
<1> QED BY <1>4, <1>5, <1>6 DEF StreamInv

\* A client that accept takes was sent nothing, and its thread has sent nothing.
LEMMA AcceptStream ==
    ASSUME LeakInv, StreamInv, AcceptClient
    PROVE  StreamInv'
<1>1. PICK t, c : t = IdleThread /\ c = Head(backlog)
  OBVIOUS
<1>2. t \in Thread /\ pc[t] = "idle" /\ backlog # <<>>
  BY <1>1 DEF AcceptClient, Start, IdleThread
<1>3. /\ pc' = [pc EXCEPT ![t] = "line"] /\ client' = [client EXCEPT ![t] = c] /\ local' = local
      /\ UNCHANGED <<want, stream, unread>>
  BY <1>1 DEF AcceptClient, Start
<1>4. history'.cut = history.cut
  BY DEF AcceptClient, LeakInv, SocketInv, Types, Histories
<1>5. c \in Client /\ link[c] = "waiting"
  <2>1. backlog \in Seq(Client)
    BY DEF LeakInv, SocketInv, Types
  <2>2. 1 \in DOMAIN backlog /\ c = backlog[1] /\ c \in Client
    BY <1>1, <1>2, <2>1
  <2> QED BY <2>2 DEF LeakInv, SocketInv, BacklogWaits
<1>6. stream[c] = <<>> /\ \A u \in Thread : client[u] # c
  BY <1>5, NotOpen
<1>7. /\ pc'[t] = "line" /\ client'[t] = c
      /\ \A u \in Thread \ {t} : pc'[u] = pc[u] /\ client'[u] = client[u]
  BY <1>2, <1>3 DEF LeakInv, SocketInv, Types
<1>8. StreamTypes'
  BY <1>3 DEF StreamInv, StreamTypes
<1>9. NothingSent'
  BY <1>2, <1>3, <1>7 DEF StreamInv, NothingSent, Early
<1>10. ASSUME NEW b \in Client, \A u \in Thread : client'[u] = b => pc'[u] \in Early
       PROVE  stream'[b] = <<>>
  <2>1. CASE b = c
    BY <1>3, <1>6, <2>1
  <2>2. CASE b # c
    <3>1. client[t] = Nobody
      BY <1>2 DEF LeakInv, SocketInv, HandlesUsed
    <3>2. \A u \in Thread : client[u] = b => pc[u] \in Early
      BY <1>7, <1>10, <3>1, NobodyAssumption
    <3> QED BY <1>3, <3>2 DEF StreamInv, Unstarted
  <2> QED BY <2>1, <2>2
<1>11. ASSUME NEW u \in Thread PROVE Transfer(u)'
  <2>1. CASE u = t
    <3>1. stream'[c] = <<>> /\ Len(<<>>) = 0
      BY <1>3, <1>6
    <3>2. FileSent(t, c)'
      BY <1>7, <3>1 DEF FileSent, InOrder
    <3> QED BY <1>7, <2>1, <3>2 DEF Transfer
  <2>2. CASE u # t
    BY <1>3, <1>4, <1>7, <2>2, TransferStays
  <2> QED BY <2>1, <2>2
<1> QED BY <1>8, <1>9, <1>10, <1>11 DEF StreamInv, Unstarted

\* The other steps of the loop.
LEMMA LoopStream ==
    ASSUME LeakInv, StreamInv, Loop
    PROVE  StreamInv'
<1>1. CASE AcceptClient
  BY <1>1, AcceptStream
<1>2. CASE AcceptNothing
  <2>1. PICK t : t = IdleThread
    OBVIOUS
  <2>2. t \in Thread /\ pc[t] = "idle" /\ client[t] = Nobody
    BY <1>2, <2>1 DEF AcceptNothing, Start, IdleThread, LeakInv, SocketInv, HandlesUsed
  <2>3. /\ pc' = [pc EXCEPT ![t] = "line"] /\ client' = [client EXCEPT ![t] = Nobody]
        /\ UNCHANGED <<local, want, stream, unread, history>>
    BY <1>2, <2>1 DEF AcceptNothing, Start, peers
  <2>4. /\ client' = client /\ pc'[t] = "line"
        /\ \A u \in Thread \ {t} : pc'[u] = pc[u]
    BY <2>2, <2>3 DEF LeakInv, SocketInv, Types
  <2>5. StreamTypes' /\ NothingSent'
    BY <2>2, <2>3, <2>4 DEF StreamInv, StreamTypes, NothingSent, Early
  <2>6. Unstarted'
    BY <2>2, <2>3, <2>4, NobodyAssumption DEF StreamInv, Unstarted
  <2>7. ASSUME NEW u \in Thread PROVE Transfer(u)'
    <3>1. CASE u = t
      BY <2>2, <2>4, <3>1 DEF Transfer
    <3>2. CASE u # t
      BY <2>3, <2>4, <3>2, TransferStays
    <3> QED BY <3>1, <3>2
  <2> QED BY <2>5, <2>6, <2>7 DEF StreamInv
<1>3. ASSUME UNCHANGED <<pc, local, client, want, stream, unread, history>>
      PROVE  StreamInv'
  BY <1>3 DEF StreamInv, StreamTypes, Unstarted, NothingSent, Transfer, FileSent, InOrder
<1>4. CASE AcceptTimesOut
  BY <1>3, <1>4 DEF AcceptTimesOut, threads, peers
<1>5. CASE LoopTest
  <2>1. CASE UNCHANGED <<peers, stream, unread, history>>
    BY <1>3, <1>5, <2>1 DEF LoopTest, threads, peers
  <2>2. CASE Close(ToSet(backlog))
    <3>1. PICK S : S = ToSet(backlog)
      OBVIOUS
    <3>2. \A c \in S : link[c] = "waiting"
      BY <3>1 DEF ToSet, LeakInv, SocketInv, BacklogWaits
    <3>3. UNCHANGED <<pc, local, client>> /\ Close(S)
      BY <1>5, <2>2, <3>1 DEF LoopTest, threads
    <3>4. /\ stream' \in [Client -> Seq(Int)] /\ unread' \in [Client -> Int]
          /\ history'.cut = history.cut \ S
          /\ \A c \in Client : IF c \in S THEN stream'[c] = <<>>
                               ELSE stream'[c] = stream[c] /\ want'[c] = want[c]
      BY <3>3, CloseStreams
    <3>5. StreamTypes' /\ NothingSent' /\ Unstarted'
      BY <3>3, <3>4 DEF StreamInv, StreamTypes, NothingSent, Unstarted
    <3>6. ASSUME NEW u \in Thread PROVE Transfer(u)'
      <4>1. client[u] # Nobody => client[u] \in Client \ S
        BY <3>2, PeerIsClient DEF LeakInv, SocketInv, Types
      <4> QED BY <3>3, <3>4, <4>1, TransferStays
    <3> QED BY <3>5, <3>6 DEF StreamInv
  <2> QED BY <1>5, <2>1, <2>2 DEF LoopTest
<1>6. CASE Exit
  <2>1. PICK S : S = {c \in Client : link[c] = "open"}
    OBVIOUS
  <2>2. Die(S)
    BY <1>6, <2>1 DEF Exit
  <2> QED BY <2>1, <2>2, DieStream
<1> QED BY <1>1, <1>2, <1>4, <1>5, <1>6 DEF Loop

LEMMA CrashStream ==
    ASSUME LeakInv, StreamInv, NEW t \in Thread, Crash(t)
    PROVE  StreamInv'
<1>1. PICK S : S = {c \in Client : link[c] \in {"waiting", "open"}}
  OBVIOUS
<1>2. Die(S)
  BY <1>1 DEF Crash
<1> QED BY <1>1, <1>2, DieStream

LEMMA StepStream ==
    ASSUME LeakInv, StreamInv, [Next]_vars
    PROVE  StreamInv'
<1>1. CASE UNCHANGED vars
  BY <1>1 DEF vars, server, threads, peers, StreamInv, StreamTypes, Unstarted, NothingSent,
     Transfer, FileSent, InOrder
<1>2. CASE \E c \in Client : Connect(c) \/ Send(c) \/ Receive(c) \/ Leave(c)
  BY <1>2, ClientStream
<1>3. CASE Loop
  BY <1>3, LoopStream
<1>4. ASSUME NEW t \in Thread, Step(t) PROVE StreamInv'
  <2>1. CASE \/ ReadLine(t) \/ NoLine(t) \/ ReadHeaders(t) \/ NoHeaders(t) \/ Route(t)
             \/ ReadPayload(t) \/ NoPayload(t) \/ BadLength(t)
    BY <2>1, BeforeAnswerStream
  <2>2. CASE SendHead(t)
    BY <2>2, HeadStream
  <2>3. CASE SendAnswer(t)
    BY <2>3, AnswerStream
  <2>4. CASE ReadChunk(t) \/ EndFile(t)
    BY <2>4, ChunkStream
  <2>5. CASE PushChunk(t)
    BY <2>5, PushStream
  <2>6. CASE Refuse(t) \/ DeleteClient(t)
    BY <2>6, EndStream
  <2>7. CASE Crash(t)
    BY <2>7, CrashStream
  <2> QED BY <1>4, <2>1, <2>2, <2>3, <2>4, <2>5, <2>6, <2>7, Zenon DEF Step
<1> QED BY <1>1, <1>2, <1>3, <1>4, Zenon DEF Next, Ended

THEOREM StreamCorrect == Safety => [](LeakInv /\ StreamInv)
<1>1. Init => LeakInv /\ StreamInv
  BY InitInv, InitStream
<1>2. LeakInv /\ StreamInv /\ [Next]_vars => LeakInv' /\ StreamInv'
  BY StepInv, StepStream
<1> QED BY <1>1, <1>2, PTL DEF Safety

\* A client of getFile is sent the head and the units of the file in order, and all of
\* them before its thread closes the connection, however many other clients there are,
\* and however many units the kernel takes at a time: unless a send gave up.
THEOREM TransferInOrderCorrect == Safety => []TransferInOrder
<1>1. LeakInv /\ StreamInv => TransferInOrder
  <2>1. SUFFICES ASSUME LeakInv, StreamInv, NEW c \in Client, want[c].op = "file",
                        c \notin history.cut, stream[c] # <<>>
                 PROVE  /\ InOrder(c)
                        /\ \A t \in Thread : pc[t] = "delete" /\ client[t] = c =>
                               Len(stream[c]) >= Size + 1
    BY DEF TransferInOrder, InOrder
  <2>2. PICK t \in Thread : client[t] = c
    BY <2>1 DEF StreamInv, Unstarted
  <2>3. \A u \in Thread : client[u] = c => FileSent(u, c)
    BY <2>1, NobodyAssumption DEF StreamInv, Transfer
  <2> QED BY <2>2, <2>3 DEF FileSent
<1> QED BY <1>1, StreamCorrect, PTL

-----------------------------------------------------------------------------
(* What a handler reads of its payload.                                    *)

\* What comes behind the first piece of a sequence with more behind it.
LEMMA NextPiece ==
    ASSUME NEW s \in Seq(Part), s # <<>>, NEW later \in Seq(Part)
    PROVE  /\ (s \o later)[1] = s[1]
           /\ Tail(s) \in Seq(Part)
           /\ Tail(s) \o later = Tail(s \o later)
<1>1. PICK r, x, y, z : r = Tail(s) /\ x = s \o later /\ y = r \o later /\ z = Tail(x)
  OBVIOUS
<1>2. /\ x \in Seq(Part) /\ Len(x) = Len(s) + Len(later)
      /\ \A i \in 1 .. Len(s) + Len(later) : x[i] = IF i <= Len(s) THEN s[i] ELSE later[i - Len(s)]
  <2>1. /\ s \o later \in Seq(Part) /\ Len(s \o later) = Len(s) + Len(later)
        /\ \A i \in 1 .. Len(s) + Len(later) :
               (s \o later)[i] = IF i <= Len(s) THEN s[i] ELSE later[i - Len(s)]
    BY ConcatProperties
  <2> QED BY <1>1, <2>1, Zenon
<1>3. r \in Seq(Part) /\ Len(r) = Len(s) - 1 /\ \A i \in 1 .. Len(r) : r[i] = s[i + 1]
  BY <1>1, HeadTailProperties, Zenon
<1>4. /\ y \in Seq(Part) /\ Len(y) = Len(r) + Len(later)
      /\ \A i \in 1 .. Len(r) + Len(later) : y[i] = IF i <= Len(r) THEN r[i] ELSE later[i - Len(r)]
  <2>1. /\ r \o later \in Seq(Part) /\ Len(r \o later) = Len(r) + Len(later)
        /\ \A i \in 1 .. Len(r) + Len(later) :
               (r \o later)[i] = IF i <= Len(r) THEN r[i] ELSE later[i - Len(r)]
    BY <1>3, ConcatProperties
  <2> QED BY <1>1, <2>1, Zenon
<1>5. Len(s) \in Nat \ {0} /\ Len(later) \in Nat
  OBVIOUS
<1>6. x # <<>>
  BY <1>2, <1>5
<1>7. z \in Seq(Part) /\ Len(z) = Len(x) - 1 /\ \A i \in 1 .. Len(z) : z[i] = x[i + 1]
  BY <1>1, <1>2, <1>6, HeadTailProperties, Zenon
<1>8. Len(y) = Len(z) /\ \A i \in 1 .. Len(y) : y[i] = z[i]
  <2>1. Len(y) = Len(z) /\ Len(r) = Len(s) - 1
    BY <1>2, <1>3, <1>4, <1>5, <1>7
  <2>2. ASSUME NEW i \in 1 .. Len(y) PROVE y[i] = z[i]
    <3>1. i \in 1 .. Len(r) + Len(later) /\ i \in 1 .. Len(z) /\ i + 1 \in 1 .. Len(s) + Len(later)
      BY <1>2, <1>4, <1>5, <1>7, <2>1
    <3>2. y[i] = (IF i <= Len(r) THEN r[i] ELSE later[i - Len(r)]) /\ z[i] = x[i + 1]
      BY <1>4, <1>7, <3>1
    <3>3. x[i + 1] = IF i + 1 <= Len(s) THEN s[i + 1] ELSE later[(i + 1) - Len(s)]
      BY <1>2, <3>1
    <3>4. CASE i <= Len(r)
      <4>1. i \in 1 .. Len(r) /\ i + 1 <= Len(s)
        BY <1>5, <2>1, <3>1, <3>4
      <4> QED BY <1>3, <3>2, <3>3, <3>4, <4>1
    <3>5. CASE ~(i <= Len(r))
      <4>1. ~(i + 1 <= Len(s)) /\ (i + 1) - Len(s) = i - Len(r)
        BY <1>5, <2>1, <3>1, <3>5
      <4> QED BY <3>2, <3>3, <3>5, <4>1
    <3> QED BY <3>4, <3>5
  <2> QED BY <2>1, <2>2
<1>9. y = z
  BY <1>4, <1>7, <1>8, SeqEqual
<1>10. x[1] = s[1]
  BY <1>2, <1>5
<1> QED BY <1>1, <1>3, <1>9, <1>10

LEMMA Associates ==
    ASSUME NEW s \in Seq(Part), NEW a \in Seq(Part), NEW b \in Seq(Part)
    PROVE  (s \o a) \o b = s \o (a \o b)
BY ConcatAssociative

\* Pieces that move from one sequence to the other.
LEMMA MovedOver ==
    ASSUME NEW s \in Seq(Part), NEW r \in Seq(Part), NEW n \in 1 .. Len(r)
    PROVE  (s \o SubSeq(r, 1, n)) \o SubSeq(r, n + 1, Len(r)) = s \o r
<1>1. PICK a, b : a = SubSeq(r, 1, n) /\ b = SubSeq(r, n + 1, Len(r))
  OBVIOUS
<1>2. a \in Seq(Part) /\ b \in Seq(Part)
  BY <1>1
<1>3. a \o b = SubSeq(r, 1, Len(r))
  <2>1. 1 \in 1 .. Len(r) + 1 /\ n \in 1 - 1 .. Len(r) /\ Len(r) \in n .. Len(r)
    OBVIOUS
  <2>2. SubSeq(r, 1, n) \o SubSeq(r, n + 1, Len(r)) = SubSeq(r, 1, Len(r))
    BY <2>1, ConcatAdjacentSubSeq
  <2> QED BY <1>1, <2>2
<1>4. SubSeq(r, 1, Len(r)) = r
  BY SubSeqFull
<1>5. (s \o a) \o b = s \o (a \o b)
  BY <1>2, Associates, Zenon
<1> QED BY <1>1, <1>3, <1>4, <1>5, Zenon

\* The text of a request, piece by piece.
LEMMA TextParts ==
    ASSUME NEW w \in Wanted
    PROVE  /\ Text(w) \in Seq(Part) /\ Tail(Text(w)) \in Seq(Part)
           /\ Text(w) # <<>> /\ Tail(Text(w)) # <<>> /\ Tail(Text(w))[1] = "headers"
           /\ Tail(Tail(Text(w))) = Body(w) /\ Body(w) \in Seq(Part)
<1>1. Body(w) \in Seq(Part)
  <2>1. <<"part1", "part2">> \in Seq(Part) /\ <<>> \in Seq(Part)
    BY DEF Part
  <2> QED BY <2>1, Zenon DEF Body
<1>2. PICK b : b = Body(w)
  OBVIOUS
<1>3. PICK h, k : h = <<w.line, "headers">> /\ k = <<"headers">>
  OBVIOUS
<1>4. /\ h \in Seq(Part) /\ h # <<>> /\ Tail(h) = k
      /\ k \in Seq(Part) /\ k # <<>> /\ k[1] = "headers" /\ Tail(k) = <<>>
  <2>1. w.line \in Part /\ "headers" \in Part
    BY DEF Wanted, Part
  <2> QED BY <1>3, <2>1
<1>5. b \in Seq(Part) /\ Text(w) = h \o b
  BY <1>1, <1>2, <1>3 DEF Text
<1>6. /\ Tail(h) \o b = Tail(h \o b)
      /\ (k \o b)[1] = k[1] /\ Tail(k) \o b = Tail(k \o b)
  BY <1>4, <1>5, NextPiece
<1>7. h \o b \in Seq(Part) /\ k \o b \in Seq(Part) /\ Len(h \o b) = Len(h) + Len(b)
      /\ Len(k \o b) = Len(k) + Len(b)
  BY <1>4, <1>5, ConcatProperties
<1>8. h \o b # <<>> /\ k \o b # <<>>
  BY <1>4, <1>5, ConcatEqualIffEmpty
<1>9. <<>> \o b = b
  BY <1>5, ConcatEmptySeq
<1> QED BY <1>1, <1>2, <1>4, <1>5, <1>6, <1>7, <1>8, <1>9, Zenon

\* What recv can return of a payload that arrives.
LEMMA PayloadParts ==
    ASSUME NEW s \in Seq(Part), NEW later \in Seq(Part), s \o later = <<"part1", "part2">>,
           NEW n \in 1 .. Len(s)
    PROVE  SubSeq(s, 1, n) \in {<<"part1">>, <<"part1", "part2">>}
<1>1. Len(s) + Len(later) = 2 /\ Len(s) \in Nat /\ Len(later) \in Nat
  <2>1. Len(s \o later) = Len(s) + Len(later)
    BY ConcatProperties, Zenon
  <2>2. Len(<<"part1", "part2">>) = 2
    OBVIOUS
  <2>3. Len(s) \in Nat /\ Len(later) \in Nat
    BY LenProperties
  <2> QED BY <2>1, <2>2, <2>3
<1>2. s[1] = "part1" /\ (n = 2 => s[2] = "part2")
  <2>1. PICK x : x = s \o later
    OBVIOUS
  <2>2. \A i \in 1 .. Len(s) + Len(later) : x[i] = IF i <= Len(s) THEN s[i] ELSE later[i - Len(s)]
    BY <2>1, ConcatProperties
  <2>3. x[1] = "part1" /\ x[2] = "part2"
    BY <2>1
  <2> QED BY <1>1, <2>2, <2>3
<1>3. PICK p : p = SubSeq(s, 1, n)
  OBVIOUS
<1>4. p \in Seq(Part) /\ Len(p) = n /\ \A i \in 1 .. n : p[i] = s[i]
  <2>1. \A i \in 1 .. n : s[i] \in Part
    OBVIOUS
  <2> QED BY <1>3, <2>1, SubSeqProperties
<1>5. CASE n = 1
  <2>1. <<"part1">> \in Seq(Part) /\ Len(<<"part1">>) = 1 /\ <<"part1">>[1] = "part1"
    BY DEF Part
  <2>2. Len(p) = Len(<<"part1">>) /\ \A i \in 1 .. Len(p) : p[i] = <<"part1">>[i]
    BY <1>2, <1>4, <1>5, <2>1
  <2>3. p = <<"part1">>
    BY <1>4, <2>1, <2>2, SeqEqual
  <2> QED BY <1>3, <2>3
<1>6. CASE n = 2
  <2>1. PICK b : b = <<"part1", "part2">>
    OBVIOUS
  <2>2. b \in Seq(Part) /\ Len(b) = 2 /\ b[1] = "part1" /\ b[2] = "part2"
    BY <2>1 DEF Part
  <2>3. Len(p) = Len(b) /\ \A i \in 1 .. Len(p) : p[i] = b[i]
    BY <1>2, <1>4, <1>6, <2>2
  <2>4. p = b
    BY <1>4, <2>2, <2>3, SeqEqual
  <2> QED BY <1>3, <2>1, <2>4
<1> QED BY <1>1, <1>5, <1>6

\* What client c sends from here on is this text: some of it has arrived, and the
\* rest comes later, unless the client left.
Coming(c, text) ==
    \E later \in Seq(Part) : inbox[c] \o later = text /\ (c \notin gone => later = rest[c])

\* Its payload had arrived when its thread was started.
Punctual(c) == c \in history.punctual \ gone

\* What thread t finds of the request w of its client c, and has read of it.
Input(t, c, w) ==
    /\ pc[t] = "line" => Coming(c, Text(w))
    /\ pc[t] = "headers" /\ local[t].good => Coming(c, Tail(Text(w)))
    /\ pc[t] \in {"route", "recv"} /\ local[t].good /\ local[t].length # 0 => Coming(c, Body(w))
    /\ pc[t] \in {"route", "recv"} /\ local[t].good /\ Punctual(c) => local[t].length = w.length
    /\ pc[t] = "recv" => w.op = "payload"
    /\ pc[t] = "answer" /\ w.op = "payload" =>
        /\ local[t].payload # <<>> =>
            /\ local[t].payload \in {<<"nul">>, <<"part1">>, Body(w)}
            /\ local[t].read \in Readings(w, local[t].payload)
        /\ Punctual(c) /\ w.length = Len(Body(w)) => local[t].payload = Body(w)

\* The locals that have not been set yet; only a request that is good goes on, and only
\* a client has one.
Fits(t) ==
    /\ "payload" \in DOMAIN local[t] /\ "read" \in DOMAIN local[t]
    /\ pc[t] \in {"idle", "line", "headers"} => local[t].length = 0
    /\ pc[t] \in {"idle", "line"} => ~local[t].good
    /\ pc[t] \in {"idle", "line", "headers", "route", "recv"} => local[t].payload = <<>>
    /\ pc[t] \notin {"idle", "line", "headers", "route"} => local[t].good
    /\ local[t].good => client[t] # Nobody

InputInv ==
    /\ want \in [Client -> Want \cup {NoWant}]
    /\ \A c \in Client : link[c] = "waiting" => Coming(c, Text(want[c]))
    /\ \A c \in history.punctual : link[c] = "open" /\ rest[c] = <<>>
    /\ \A t \in Thread : Fits(t)
    /\ \A t \in Thread : client[t] # Nobody => Input(t, client[t], want[client[t]])

LEMMA InitInput ==
    ASSUME Init
    PROVE  InputInv
BY DEF Init, InputInv, Fits, Fresh

LEMMA ComingKept ==
    ASSUME NEW c, NEW text, Coming(c, text), inbox'[c] = inbox[c], rest'[c] = rest[c],
           c \notin gone' => c \notin gone
    PROVE  Coming(c, text)'
BY DEF Coming

LEMMA InputKept ==
    ASSUME NEW t \in Thread, NEW c \in Client, NEW w, Input(t, c, w),
           pc'[t] = pc[t], local'[t] = local[t],
           \A text : Coming(c, text) => Coming(c, text)',
           Punctual(c)' => Punctual(c)
    PROVE  Input(t, c, w)'
BY DEF Input

\* A step of a thread that goes on.
LEMMA StaysInput ==
    ASSUME LeakInv, InputInv, NEW t \in Thread, Stays(t), gone' = gone,
           history'.punctual = history.punctual, Fits(t)',
           NEW c, c = client[t], NEW w, w = want[c], c # Nobody => Input(t, c, w)'
    PROVE  InputInv'
<1> USE DEF InputInv
<1>1. /\ UNCHANGED <<client, want, link, rest, gone>>
      /\ \A u \in Thread \ {t} : pc'[u] = pc[u] /\ local'[u] = local[u]
      /\ \A b \in Client \ {c} : inbox'[b] = inbox[b]
  BY PeerIsClient DEF Stays, LeakInv
<1>2. ASSUME NEW b \in Client, link'[b] = "waiting" PROVE Coming(b, Text(want[b]))'
  <2>1. b # c
    BY <1>1, <1>2, PeerIsClient, NobodyAssumption DEF LeakInv
  <2>2. PICK text : text = Text(want[b])
    OBVIOUS
  <2>3. Coming(b, text)'
    BY <1>1, <1>2, <2>1, <2>2, ComingKept
  <2> QED BY <1>1, <2>2, <2>3
<1>3. ASSUME NEW u \in Thread PROVE Fits(u)'
  <2>1. CASE u # t
    BY <1>1, <2>1 DEF Fits
  <2> QED BY <2>1
<1>4. ASSUME NEW u \in Thread, client'[u] # Nobody PROVE Input(u, client[u], want[client[u]])'
  <2>1. CASE u = t
    BY <1>1, <1>4, <2>1
  <2>2. CASE u # t
    <3>1. PICK b, v : b = client[u] /\ v = want[b]
      OBVIOUS
    <3>2. b \in Client \ {c}
      BY <1>1, <1>4, <2>2, <3>1, PeerIsClient DEF LeakInv, SocketInv, Types
    <3>3. \A text : Coming(b, text) => Coming(b, text)'
      BY <1>1, <3>2, ComingKept
    <3>4. Input(u, b, v)
      BY <1>1, <1>4, <3>1
    <3>5. Input(u, b, v)'
      BY <1>1, <2>2, <3>2, <3>3, <3>4, InputKept DEF Punctual
    <3> QED BY <1>1, <3>1, <3>5
  <2> QED BY <2>1, <2>2
<1> QED BY <1>1, <1>2, <1>3, <1>4

\* The first piece is taken.
LEMMA ComingTaken ==
    ASSUME Types, NEW t \in Thread, NEW c \in Client, Peer(t) = c, inbox[c] # <<>>, Take(t, 1),
           UNCHANGED <<rest, gone>>, NEW text, Coming(c, text)
    PROVE  inbox[c][1] = text[1] /\ Coming(c, Tail(text))'
<1>1. PICK later \in Seq(Part) : inbox[c] \o later = text /\ (c \notin gone => later = rest[c])
  BY DEF Coming
<1>2. inbox[c] \in Seq(Part)
  BY DEF Types
<1>3. inbox'[c] = Tail(inbox[c])
  <2>1. inbox'[c] = SubSeq(inbox[c], 1 + 1, Len(inbox[c]))
    BY DEF Take, Types
  <2>2. Tail(inbox[c]) = SubSeq(inbox[c], 2, Len(inbox[c]))
    BY <1>2, TailIsSubSeq
  <2> QED BY <2>1, <2>2
<1>4. (inbox[c] \o later)[1] = inbox[c][1] /\ Tail(inbox[c]) \o later = Tail(inbox[c] \o later)
  BY <1>2, NextPiece
<1>5. PICK text2 : text2 = Tail(text)
  OBVIOUS
<1>6. inbox'[c] \o later = text2
  BY <1>1, <1>3, <1>4, <1>5
<1>7. Coming(c, text2)'
  BY <1>1, <1>6 DEF Coming
<1> QED BY <1>1, <1>4, <1>5, <1>7

\* Of a punctual client all has arrived.
LEMMA PunctualArrived ==
    ASSUME LeakInv, InputInv, NEW c \in Client, Punctual(c), NEW text, Coming(c, text)
    PROVE  inbox[c] = text
<1>1. rest[c] = <<>> /\ c \notin gone
  BY DEF InputInv, Punctual
<1>2. inbox[c] \o <<>> = text
  BY <1>1 DEF Coming
<1>3. inbox[c] \in Seq(Part)
  BY DEF LeakInv, SocketInv, Types
<1>4. inbox[c] \o <<>> = inbox[c]
  BY <1>3, ConcatEmptySeq
<1> QED BY <1>2, <1>4

\* A thread that reads from its client reads what the client sent.
LEMMA WantOfClient ==
    ASSUME LeakInv, InputInv, NEW t \in Thread
    PROVE  /\ Peer(t) = client[t] /\ client[t] \in Client \cup {Nobody} /\ Fits(t)
           /\ client[t] # Nobody =>
                  /\ want[client[t]] \in Wanted /\ want[client[t]] \in Want \cup {NoWant}
                  /\ Input(t, client[t], want[client[t]])
BY PeerIsClient DEF LeakInv, SocketInv, Types, InputInv

LEMMA LineInput ==
    ASSUME LeakInv, InputInv, NEW t \in Thread, ReadLine(t) \/ NoLine(t)
    PROVE  InputInv'
<1>1. Types /\ Stays(t)
  BY ReadStays DEF LeakInv, SocketInv
<1>2. PICK c : c = client[t]
  OBVIOUS
<1>3. PICK w : w = want[c]
  OBVIOUS
<1>4. /\ Peer(t) = c /\ c \in Client \cup {Nobody} /\ Fits(t)
      /\ c # Nobody => w \in Wanted /\ Input(t, c, w)
  BY <1>2, <1>3, WantOfClient
<1>5. /\ pc[t] = "line" /\ pc'[t] = "headers" /\ UNCHANGED <<client, rest, gone>>
  BY <1>1 DEF ReadLine, NoLine, At, Goto, Types, peers
<1>6. history'.punctual = history.punctual
  BY <1>1 DEF ReadLine, NoLine, Types, Histories
<1>7. CASE NoLine(t)
  <2>1. local' = local
    BY <1>7 DEF NoLine
  <2>2. Fits(t)'
    BY <1>4, <1>5, <2>1 DEF Fits
  <2>3. Input(t, c, w)'
    BY <1>4, <1>5, <2>1 DEF Input, Fits
  <2> QED BY <1>1, <1>2, <1>3, <1>5, <1>6, <2>2, <2>3, StaysInput
<1>8. CASE ReadLine(t)
  <2>1. c \in Client /\ inbox[c] # <<>> /\ Take(t, 1)
        /\ local' = [local EXCEPT ![t].good = (First(t) = "good")]
    BY <1>4, <1>8 DEF ReadLine, Arrived
  <2>2. /\ "payload" \in DOMAIN local'[t] /\ "read" \in DOMAIN local'[t]
        /\ local'[t].length = local[t].length /\ local'[t].payload = local[t].payload
    BY <1>1, <1>4, <2>1 DEF Types, Fits
  <2>3. Fits(t)'
    BY <1>2, <1>4, <1>5, <2>1, <2>2, NobodyAssumption DEF Fits
  <2>4. PICK text, text2 : text = Text(w) /\ text2 = Tail(text)
    OBVIOUS
  <2>5. Coming(c, text)
    BY <1>4, <1>5, <2>1, <2>4, NobodyAssumption DEF Input
  <2>6. Coming(c, text2)'
    BY <1>1, <1>4, <1>5, <2>1, <2>4, <2>5, ComingTaken
  <2>7. Input(t, c, w)'
    BY <1>5, <2>4, <2>6 DEF Input
  <2> QED BY <1>1, <1>2, <1>3, <1>5, <1>6, <2>3, <2>7, StaysInput
<1> QED BY <1>7, <1>8

LEMMA HeadersInput ==
    ASSUME LeakInv, InputInv, NEW t \in Thread, ReadHeaders(t)
    PROVE  InputInv'
<1>1. Types /\ Stays(t)
  BY HeadersStay DEF LeakInv, SocketInv
<1>2. PICK c : c = client[t]
  OBVIOUS
<1>3. PICK w : w = want[c]
  OBVIOUS
<1>4. /\ Peer(t) = c /\ c \in Client /\ inbox[c] # <<>> /\ Fits(t)
      /\ w \in Wanted /\ Input(t, c, w)
  <2>1. Peer(t) # Nobody /\ inbox[Peer(t)] # <<>>
    BY DEF ReadHeaders, Arrived
  <2> QED BY <1>2, <1>3, <2>1, WantOfClient
<1>5. /\ pc[t] = "headers" /\ UNCHANGED <<client, rest, gone, history>> /\ Take(t, 1)
  BY DEF ReadHeaders, At, peers, HeadersRead
<1>6. PICK text, text2 : text = Tail(Text(w)) /\ text2 = Tail(text)
  OBVIOUS
<1>7. text[1] = "headers" /\ text2 = Body(w)
  BY <1>4, <1>6, TextParts
<1>8. local[t].good => inbox[c][1] = "headers" /\ Coming(c, text2)'
  <2>1. local[t].good => Coming(c, text)
    BY <1>4, <1>5, <1>6 DEF Input
  <2> QED BY <1>1, <1>4, <1>5, <1>6, <1>7, <2>1, ComingTaken
<1>9. CASE First(t) = "headers"
  <2>1. local' = [local EXCEPT ![t].length = w.length] /\ pc'[t] = "route"
    BY <1>1, <1>3, <1>4, <1>9 DEF ReadHeaders, Goto, Types
  <2>2. /\ "payload" \in DOMAIN local'[t] /\ "read" \in DOMAIN local'[t]
        /\ local'[t].good = local[t].good /\ local'[t].payload = local[t].payload
        /\ local'[t].length = w.length
    BY <1>1, <1>4, <2>1 DEF Types, Fits, Held
  <2>3. Fits(t)'
    BY <1>2, <1>4, <1>5, <2>1, <2>2 DEF Fits
  <2>4. Input(t, c, w)'
    BY <1>7, <1>8, <2>1, <2>2 DEF Input
  <2> QED BY <1>1, <1>2, <1>3, <1>5, <2>3, <2>4, StaysInput
<1>10. CASE First(t) # "headers"
  <2>1. local' = local /\ pc'[t] = "headers"
    BY <1>5, <1>10 DEF ReadHeaders
  <2>2. ~local[t].good
    BY <1>4, <1>8, <1>10 DEF First
  <2>3. Fits(t)'
    BY <1>4, <1>5, <2>1 DEF Fits
  <2>4. Input(t, c, w)'
    BY <2>1, <2>2 DEF Input
  <2> QED BY <1>1, <1>2, <1>3, <1>5, <2>3, <2>4, StaysInput
<1> QED BY <1>9, <1>10

\* Of a punctual client, headers and payload are there to be read.
LEMMA NoHeadersInput ==
    ASSUME LeakInv, InputInv, NEW t \in Thread, NoHeaders(t) \/ Route(t)
    PROVE  InputInv'
<1>1. Types /\ Stays(t)
  BY QuietStays DEF LeakInv, SocketInv
<1>2. PICK c : c = client[t]
  OBVIOUS
<1>3. PICK w : w = want[c]
  OBVIOUS
<1>4. /\ Peer(t) = c /\ c \in Client \cup {Nobody} /\ Fits(t)
      /\ c # Nobody => w \in Wanted /\ Input(t, c, w)
  BY <1>2, <1>3, WantOfClient
<1>5. UNCHANGED <<client, rest, gone, history, inbox, local>>
  BY DEF NoHeaders, Route, peers
<1>6. CASE NoHeaders(t)
  <2>1. pc[t] = "headers" /\ pc'[t] = "route"
    BY <1>1, <1>6 DEF NoHeaders, At, Goto, Types
  <2>2. Fits(t)'
    BY <1>4, <1>5, <2>1 DEF Fits
  <2>3. ASSUME c # Nobody, local[t].good, Punctual(c) PROVE FALSE
    <3>1. PICK text : text = Tail(Text(w))
      OBVIOUS
    <3>2. Coming(c, text)
      BY <1>4, <2>1, <2>3, <3>1 DEF Input
    <3>3. inbox[c] = text /\ text # <<>>
      BY <1>4, <2>3, <3>1, <3>2, PunctualArrived, TextParts
    <3> QED BY <1>4, <1>6, <2>3, <3>3 DEF NoHeaders, Arrived
  <2>4. c # Nobody => Input(t, c, w)'
    BY <1>4, <1>5, <2>1, <2>3 DEF Input, Fits, Punctual
  <2> QED BY <1>1, <1>2, <1>3, <1>5, <2>2, <2>4, StaysInput
<1>7. CASE Route(t)
  <2>1. /\ pc[t] = "route" /\ local[t].good
        /\ \/ w.op = "payload" /\ pc'[t] = "recv"
           \/ w.op = "file" /\ pc'[t] = "head"
           \/ w.op \in {"stop", "other"} /\ pc'[t] = "answer"
    BY <1>1, <1>3, <1>4, <1>7 DEF Route, At, Goto, Types
  <2>2. Fits(t)'
    BY <1>4, <1>5, <2>1 DEF Fits
  <2>3. ASSUME c # Nobody PROVE Input(t, c, w)'
    <3>1. \A text : Coming(c, text) => Coming(c, text)'
      BY <1>5, ComingKept
    <3>2. Punctual(c)' => Punctual(c)
      BY <1>5 DEF Punctual
    <3> QED BY <1>4, <1>5, <2>1, <2>3, <3>1, <3>2 DEF Input
  <2> QED BY <1>1, <1>2, <1>3, <1>5, <2>2, <2>3, StaysInput
<1> QED BY <1>6, <1>7

\* What SetPayload leaves in the locals.
LEMMA PayloadRead ==
    ASSUME Types, NEW t \in Thread, Fits(t), NEW payload, SetPayload(t, payload)
    PROVE  /\ "payload" \in DOMAIN local'[t] /\ "read" \in DOMAIN local'[t]
           /\ local'[t].payload = payload /\ local'[t].read \in Readings(want[Peer(t)], payload)
           /\ local'[t].good = local[t].good
<1>1. PICK read \in Readings(want[Peer(t)], payload) :
          local' = [local EXCEPT ![t].payload = payload, ![t].read = read]
  BY DEF SetPayload
<1> QED BY <1>1 DEF Types, Held, Fits

\* What recv returns of what has arrived.
LEMMA PayloadReceived ==
    ASSUME LeakInv, InputInv, NEW t \in Thread, ReadPayload(t),
           NEW c \in Client, Peer(t) = c, NEW w, w.op = "payload", Coming(c, Body(w))
    PROVE  /\ SubSeq(inbox[c], 1, Ready(t)) \in {<<"part1">>, Body(w)}
           /\ Punctual(c) /\ local[t].length = Len(Body(w)) => SubSeq(inbox[c], 1, Ready(t)) = Body(w)
<1>1. /\ Body(w) = <<"part1", "part2">> /\ inbox[c] \in Seq(Part) /\ inbox[c] # <<>>
      /\ local[t].length \in Nat \ {0}
  BY DEF Body, LeakInv, SocketInv, Types, Held, ReadPayload, Arrived
<1>2. PICK n : n = Ready(t)
  OBVIOUS
<1>3. n = IF local[t].length < Len(inbox[c]) THEN local[t].length ELSE Len(inbox[c])
  BY <1>2 DEF Ready
<1>4. Len(inbox[c]) \in Nat \ {0}
  BY <1>1
<1>5. n \in 1 .. Len(inbox[c])
  BY <1>1, <1>3, <1>4
<1>6. PICK later \in Seq(Part) : inbox[c] \o later = <<"part1", "part2">>
  BY <1>1 DEF Coming
<1>7. SubSeq(inbox[c], 1, n) \in {<<"part1">>, <<"part1", "part2">>}
  BY <1>1, <1>5, <1>6, PayloadParts, Zenon
<1>8. ASSUME Punctual(c), local[t].length = Len(Body(w)) PROVE SubSeq(inbox[c], 1, n) = Body(w)
  <2>1. inbox[c] = Body(w)
    BY <1>8, PunctualArrived
  <2>2. n = Len(inbox[c])
    BY <1>3, <1>4, <1>8, <2>1
  <2>3. SubSeq(inbox[c], 1, Len(inbox[c])) = inbox[c]
    BY <1>1, SubSeqFull
  <2> QED BY <2>1, <2>2, <2>3
<1> QED BY <1>1, <1>2, <1>7, <1>8

LEMMA PayloadInput ==
    ASSUME LeakInv, InputInv, NEW t \in Thread, ReadPayload(t) \/ NoPayload(t) \/ BadLength(t)
    PROVE  InputInv'
<1>1. Types /\ Stays(t)
  BY HeadersStay, QuietStays DEF LeakInv, SocketInv
<1>2. PICK c : c = client[t]
  OBVIOUS
<1>3. PICK w : w = want[c]
  OBVIOUS
<1>4. pc[t] = "recv" /\ pc'[t] = "answer" /\ UNCHANGED <<client, rest, gone, history>>
  BY <1>1 DEF ReadPayload, NoPayload, BadLength, At, Goto, Types, peers
<1>5. /\ Peer(t) = c /\ c \in Client /\ Fits(t) /\ w \in Wanted /\ Input(t, c, w)
      /\ local[t].good /\ local[t].payload = <<>> /\ w.op = "payload"
  BY <1>2, <1>3, <1>4, WantOfClient DEF Fits, Input
<1>6. Body(w) = <<"part1", "part2">> /\ Body(w) # <<>> /\ Len(Body(w)) = 2
  BY <1>5 DEF Body
<1>7. Punctual(c) => local[t].length = w.length
  BY <1>4, <1>5 DEF Input
<1>8. local[t].length # 0 => Coming(c, Body(w))
  BY <1>4, <1>5 DEF Input
<1>9. Punctual(c)' <=> Punctual(c)
  BY <1>4 DEF Punctual
<1>10. ASSUME NEW payload, SetPayload(t, payload),
              payload \in {<<>>, <<"nul">>, <<"part1">>, Body(w)},
              Punctual(c) /\ w.length = Len(Body(w)) => payload = Body(w)
       PROVE  InputInv'
  <2>1. /\ "payload" \in DOMAIN local'[t] /\ "read" \in DOMAIN local'[t]
        /\ local'[t].payload = payload /\ local'[t].read \in Readings(w, payload) /\ local'[t].good
    BY <1>1, <1>3, <1>5, <1>10, PayloadRead
  <2>2. Fits(t)'
    BY <1>2, <1>4, <1>5, <2>1, NobodyAssumption DEF Fits
  <2>3. Input(t, c, w)'
    BY <1>4, <1>9, <1>10, <2>1 DEF Input
  <2> QED BY <1>1, <1>2, <1>3, <1>4, <2>2, <2>3, StaysInput
<1>11. CASE ReadPayload(t)
  <2>1. PICK payload : payload = SubSeq(inbox[c], 1, Ready(t))
    OBVIOUS
  <2>2. SetPayload(t, payload) /\ local[t].length # 0
    BY <1>1, <1>5, <1>11, <2>1 DEF ReadPayload, Types, Held
  <2>3. /\ payload \in {<<"part1">>, Body(w)}
        /\ Punctual(c) /\ local[t].length = Len(Body(w)) => payload = Body(w)
    BY <1>5, <1>8, <1>11, <2>1, <2>2, PayloadReceived
  <2> QED BY <1>7, <1>10, <2>2, <2>3
<1>12. CASE NoPayload(t)
  <2>1. PICK payload \in {<<>>, <<"nul">>} : SetPayload(t, payload)
    BY <1>12 DEF NoPayload
  <2>2. ~Punctual(c)
    <3>1. inbox[c] = <<>> /\ local[t].length # 0
      BY <1>1, <1>5, <1>12, NobodyAssumption DEF NoPayload, Arrived, Types, Held
    <3> QED BY <1>5, <1>6, <1>8, <3>1, PunctualArrived
  <2> QED BY <1>10, <2>1, <2>2
<1>13. CASE BadLength(t)
  <2>1. ~(Punctual(c) /\ w.length = Len(Body(w)))
    BY <1>1, <1>6, <1>7, <1>13 DEF BadLength, Types, Held
  <2>2. CASE SetPayload(t, <<>>)
    BY <1>10, <2>1, <2>2
  <2>3. CASE local' = local
    <3>1. Fits(t)'
      BY <1>4, <1>5, <2>3 DEF Fits
    <3>2. Input(t, c, w)'
      BY <1>4, <1>5, <1>9, <2>1, <2>3 DEF Input
    <3> QED BY <1>1, <1>2, <1>3, <1>4, <3>1, <3>2, StaysInput
  <2> QED BY <1>13, <2>2, <2>3 DEF BadLength
<1> QED BY <1>11, <1>12, <1>13

LEMMA AnswerInput ==
    ASSUME LeakInv, InputInv, NEW t \in Thread,
           SendHead(t) \/ ReadChunk(t) \/ PushChunk(t) \/ EndFile(t) \/ SendAnswer(t)
    PROVE  InputInv'
<1>1. Types /\ Stays(t) /\ local'[t].good = local[t].good
  BY SendStays, QuietStays DEF LeakInv, SocketInv, Remembers
<1>2. PICK c : c = client[t]
  OBVIOUS
<1>3. PICK w : w = want[c]
  OBVIOUS
<1>4. Fits(t)
  BY WantOfClient
<1>5. /\ pc[t] \in {"head", "read", "push", "answer"} /\ pc'[t] \in {"read", "push", "delete"}
      /\ UNCHANGED <<client, gone>>
  BY <1>1 DEF SendHead, ReadChunk, PushChunk, PushSome, PushFails, EndFile, SendAnswer, At, Goto,
     Types, peers
<1>6. history'.punctual = history.punctual
  <2>1. UNCHANGED history \/ history' = [history EXCEPT !.cut = @ \cup {Peer(t)}]
    BY DEF SendHead, ReadChunk, PushChunk, PushSome, PushFails, EndFile, SendAnswer, SendFails
  <2> QED BY <1>1, <2>1 DEF Types, Histories
<1>7. "payload" \in DOMAIN local'[t] /\ "read" \in DOMAIN local'[t]
  <2>1. \/ UNCHANGED local
        \/ local' = [local EXCEPT ![t].buffer = ChunkOf(t), ![t].off = 0]
        \/ local' = [local EXCEPT ![t].sent = @ + Chunk, ![t].off = 0]
        \/ \E n : local' = [local EXCEPT ![t].off = @ + n]
    BY DEF SendHead, ReadChunk, PushChunk, PushSome, PushFails, EndFile, SendAnswer
  <2> QED BY <1>1, <1>4, <2>1 DEF Types, Fits
<1>8. Fits(t)'
  BY <1>1, <1>4, <1>5, <1>7 DEF Fits
<1>9. Input(t, c, w)'
  BY <1>5 DEF Input
<1> QED BY <1>1, <1>2, <1>3, <1>5, <1>6, <1>8, <1>9, StaysInput

\* A step that ends some threads, or starts one without a client, and leaves nothing of
\* the clients in S.
LEMMA OthersInput ==
    ASSUME LeakInv, InputInv, NEW S,
           want' \in [Client -> Want \cup {NoWant}],
           history'.punctual \subseteq history.punctual \ S,
           \A c \in Client \ S : /\ link'[c] = link[c] /\ want'[c] = want[c]
                                 /\ inbox'[c] = inbox[c] /\ rest'[c] = rest[c]
                                 /\ c \notin gone' => c \notin gone,
           \A c \in Client : c \in S => link'[c] # "waiting",
           \A t \in Thread : \/ client'[t] = Nobody /\ Fits(t)'
                             \/ /\ client'[t] = client[t] /\ pc'[t] = pc[t]
                                /\ local'[t] = local[t] /\ client[t] \notin S
    PROVE  InputInv'
<1> USE DEF InputInv
<1>1. \A c \in Client \ S : \A text : Coming(c, text) => Coming(c, text)'
  BY ComingKept
<1>2. ASSUME NEW c \in Client, link'[c] = "waiting" PROVE Coming(c, Text(want[c]))'
  <2>1. PICK text : text = Text(want[c])
    OBVIOUS
  <2>2. c \notin S /\ Coming(c, text) /\ want'[c] = want[c]
    BY <1>2, <2>1
  <2>3. Coming(c, text)'
    BY <1>1, <2>2
  <2> QED BY <2>1, <2>2, <2>3
<1>3. \A c \in history'.punctual : link'[c] = "open" /\ rest'[c] = <<>>
  BY DEF LeakInv, SocketInv, Types, Histories
<1>4. \A t \in Thread : Fits(t)'
  BY DEF Fits
<1>5. ASSUME NEW t \in Thread, client'[t] # Nobody PROVE Input(t, client[t], want[client[t]])'
  <2>1. PICK c, w : c = client[t] /\ w = want[c]
    OBVIOUS
  <2>2. /\ client'[t] = c /\ pc'[t] = pc[t] /\ local'[t] = local[t] /\ c \in Client \ S
        /\ want'[c] = w /\ Input(t, c, w)
    BY <1>5, <2>1 DEF LeakInv, SocketInv, Types
  <2>3. Punctual(c)' => Punctual(c)
    BY <2>2 DEF Punctual
  <2>4. \A text : Coming(c, text) => Coming(c, text)'
    BY <1>1, <2>2
  <2>5. Input(t, c, w)'
    BY <2>2, <2>3, <2>4, InputKept
  <2> QED BY <2>2, <2>5
<1> QED BY <1>2, <1>3, <1>4, <1>5

\* A step of which the clients see nothing.
LEMMA SameInput ==
    ASSUME LeakInv, InputInv, UNCHANGED <<want, link, rest, gone, inbox, history>>,
           \A t \in Thread : \/ client'[t] = Nobody /\ Fits(t)'
                             \/ /\ client'[t] = client[t] /\ pc'[t] = pc[t]
                                /\ local'[t] = local[t]
    PROVE  InputInv'
<1>1. PICK S : S = {}
  OBVIOUS
<1>2. /\ want' \in [Client -> Want \cup {NoWant}]
      /\ history'.punctual \subseteq history.punctual \ S
      /\ \A c \in Client \ S : /\ link'[c] = link[c] /\ want'[c] = want[c]
                               /\ inbox'[c] = inbox[c] /\ rest'[c] = rest[c]
                               /\ c \notin gone' => c \notin gone
      /\ \A c \in Client : c \in S => link'[c] # "waiting"
  BY <1>1 DEF InputInv
<1>3. \A u \in Thread : \/ client'[u] = Nobody /\ Fits(u)'
                        \/ /\ client'[u] = client[u] /\ pc'[u] = pc[u]
                           /\ local'[u] = local[u] /\ client[u] \notin S
  BY <1>1
<1> QED BY <1>2, <1>3, OthersInput

LEMMA ClosedInput ==
    ASSUME LeakInv, InputInv, NEW S, Close(S)
    PROVE  /\ want' \in [Client -> Want \cup {NoWant}]
           /\ history'.punctual \subseteq history.punctual \ S
           /\ \A c \in Client \ S : /\ link'[c] = link[c] /\ want'[c] = want[c]
                                    /\ inbox'[c] = inbox[c] /\ rest'[c] = rest[c]
                                    /\ c \notin gone' => c \notin gone
           /\ \A c \in Client : c \in S => link'[c] # "waiting"
<1>1. history'.punctual \subseteq history.punctual \ S
  BY DEF LeakInv, SocketInv, Types, Histories, Close
<1> QED BY <1>1 DEF Close, InputInv

\* The locals of a thread that is not there.
LEMMA FreshFits ==
    ASSUME NEW t \in Thread, local'[t] = Fresh, pc'[t] = "idle"
    PROVE  Fits(t)'
BY DEF Fits, Fresh

LEMMA EndInput ==
    ASSUME LeakInv, InputInv, NEW t \in Thread, Refuse(t) \/ DeleteClient(t)
    PROVE  InputInv'
<1>1. Peer(t) = client[t] /\ Finish(t) /\ client[t] \in Client \cup {Nobody}
  BY WantOfClient DEF Refuse, DeleteClient
<1>2. /\ pc'[t] = "idle" /\ client'[t] = Nobody /\ local'[t] = Fresh
      /\ \A u \in Thread \ {t} : pc'[u] = pc[u] /\ client'[u] = client[u] /\ local'[u] = local[u]
  BY <1>1 DEF Finish, LeakInv, SocketInv, Types
<1>3. Fits(t)'
  BY <1>2, FreshFits
<1>4. ASSUME UNCHANGED <<peers, inbox, history>> PROVE InputInv'
  <2>1. UNCHANGED <<want, link, rest, gone, inbox, history>>
    BY <1>4 DEF peers
  <2>2. \A u \in Thread : \/ client'[u] = Nobody /\ Fits(u)'
                          \/ client'[u] = client[u] /\ pc'[u] = pc[u] /\ local'[u] = local[u]
    BY <1>2, <1>3
  <2> QED BY <2>1, <2>2, SameInput
<1>5. CASE Refuse(t)
  BY <1>4, <1>5 DEF Refuse
<1>6. CASE DeleteClient(t) /\ handle[t] = NoHandle
  BY <1>4, <1>6 DEF DeleteClient, Disconnect
<1>7. CASE DeleteClient(t) /\ handle[t] # NoHandle
  <2>1. PICK S : S = {client[t]}
    OBVIOUS
  <2>2. Close(S)
    BY <1>1, <1>7, <2>1 DEF DeleteClient, Disconnect
  <2>3. client[t] # Nobody
    BY <1>7 DEF LeakInv, SocketInv, HandlesUsed
  <2>4. \A u \in Thread \ {t} : client[u] \notin S
    BY <2>1, <2>3, PeerIsClient DEF LeakInv
  <2>5. /\ want' \in [Client -> Want \cup {NoWant}]
        /\ history'.punctual \subseteq history.punctual \ S
        /\ \A c \in Client \ S : /\ link'[c] = link[c] /\ want'[c] = want[c]
                                 /\ inbox'[c] = inbox[c] /\ rest'[c] = rest[c]
                                 /\ c \notin gone' => c \notin gone
        /\ \A c \in Client : c \in S => link'[c] # "waiting"
    BY <2>2, ClosedInput
  <2> QED BY <1>2, <1>3, <2>4, <2>5, OthersInput
<1> QED BY <1>5, <1>6, <1>7

LEMMA DieInput ==
    ASSUME LeakInv, InputInv, NEW S, Die(S)
    PROVE  InputInv'
<1>1. \A t \in Thread : pc'[t] = "idle" /\ client'[t] = Nobody /\ local'[t] = Fresh
  BY DEF Die
<1>2. \A t \in Thread : Fits(t)'
  BY <1>1, FreshFits
<1>3. /\ want' \in [Client -> Want \cup {NoWant}]
      /\ history'.punctual \subseteq history.punctual \ S
      /\ \A c \in Client \ S : /\ link'[c] = link[c] /\ want'[c] = want[c]
                               /\ inbox'[c] = inbox[c] /\ rest'[c] = rest[c]
                               /\ c \notin gone' => c \notin gone
      /\ \A c \in Client : c \in S => link'[c] # "waiting"
  BY ClosedInput DEF Die
<1> QED BY <1>1, <1>2, <1>3, OthersInput

\* A thread that accept starts has all of its client's request before it.
LEMMA AcceptInput ==
    ASSUME LeakInv, InputInv, AcceptClient
    PROVE  InputInv'
<1> USE DEF InputInv
<1>1. PICK t, c : t = IdleThread /\ c = Head(backlog)
  OBVIOUS
<1>2. t \in Thread /\ pc[t] = "idle" /\ backlog # <<>>
  BY <1>1 DEF AcceptClient, Start, IdleThread
<1>3. /\ pc' = [pc EXCEPT ![t] = "line"] /\ client' = [client EXCEPT ![t] = c] /\ local' = local
      /\ link' = [link EXCEPT ![c] = "open"]
      /\ UNCHANGED <<want, rest, gone, inbox>>
  BY <1>1 DEF AcceptClient, Start
<1>4. c \in Client /\ link[c] = "waiting"
  <2>1. backlog \in Seq(Client)
    BY DEF LeakInv, SocketInv, Types
  <2>2. 1 \in DOMAIN backlog /\ c = backlog[1] /\ c \in Client
    BY <1>1, <1>2, <2>1
  <2> QED BY <2>2 DEF LeakInv, SocketInv, BacklogWaits
<1>5. \A u \in Thread : client[u] # c
  BY <1>4, PeerIsClient, NobodyAssumption DEF LeakInv
<1>6. /\ pc'[t] = "line" /\ client'[t] = c /\ link'[c] = "open"
      /\ \A u \in Thread \ {t} : pc'[u] = pc[u] /\ client'[u] = client[u]
      /\ \A b \in Client \ {c} : link'[b] = link[b]
  BY <1>2, <1>3, <1>4 DEF LeakInv, SocketInv, Types
<1>7. \/ history'.punctual = history.punctual
      \/ history'.punctual = history.punctual \cup {c} /\ rest[c] = <<>>
  BY <1>1 DEF AcceptClient, LeakInv, SocketInv, Types, Histories
<1>8. \A b \in Client : \A text : Coming(b, text) => Coming(b, text)'
  BY <1>3, ComingKept
<1>9. ASSUME NEW b \in Client, link'[b] = "waiting" PROVE Coming(b, Text(want[b]))'
  <2>1. PICK text : text = Text(want[b])
    OBVIOUS
  <2>2. Coming(b, text)
    BY <1>6, <1>9, <2>1
  <2>3. Coming(b, text)'
    BY <1>8, <2>2
  <2> QED BY <1>3, <2>1, <2>3
<1>10. \A b \in history'.punctual : link'[b] = "open" /\ rest'[b] = <<>>
  <2>1. history.punctual \subseteq Client
    BY DEF LeakInv, SocketInv, Types, Histories
  <2> QED BY <1>3, <1>6, <1>7, <2>1
<1>11. \A u \in Thread : Fits(u)'
  BY <1>2, <1>3, <1>6 DEF Fits
<1>12. ASSUME NEW u \in Thread, client'[u] # Nobody PROVE Input(u, client[u], want[client[u]])'
  <2>1. CASE u = t
    <3>1. PICK text : text = Text(want[c])
      OBVIOUS
    <3>2. Coming(c, text)'
      BY <1>4, <1>8, <3>1
    <3> QED BY <1>3, <1>6, <2>1, <3>1, <3>2 DEF Input
  <2>2. CASE u # t
    <3>1. PICK b, v : b = client[u] /\ v = want[b]
      OBVIOUS
    <3>2. /\ client'[u] = b /\ pc'[u] = pc[u] /\ local'[u] = local[u] /\ b \in Client \ {c}
          /\ want'[b] = v /\ Input(u, b, v)
      BY <1>3, <1>5, <1>6, <1>12, <2>2, <3>1 DEF LeakInv, SocketInv, Types
    <3>3. Punctual(b)' => Punctual(b)
      BY <1>3, <1>7, <3>2 DEF Punctual
    <3>4. \A text : Coming(b, text) => Coming(b, text)'
      BY <1>8, <3>2
    <3>5. Input(u, b, v)'
      BY <3>2, <3>3, <3>4, InputKept
    <3> QED BY <3>2, <3>5
  <2> QED BY <2>1, <2>2
<1> QED BY <1>3, <1>9, <1>10, <1>11, <1>12

LEMMA LoopInput ==
    ASSUME LeakInv, InputInv, Loop
    PROVE  InputInv'
<1>1. CASE AcceptClient
  BY <1>1, AcceptInput
<1>2. CASE AcceptNothing
  <2>1. PICK t : t = IdleThread
    OBVIOUS
  <2>2. t \in Thread /\ pc[t] = "idle" /\ client[t] = Nobody
    BY <1>2, <2>1 DEF AcceptNothing, Start, IdleThread, LeakInv, SocketInv, HandlesUsed
  <2>3. /\ pc' = [pc EXCEPT ![t] = "line"] /\ client' = [client EXCEPT ![t] = Nobody]
        /\ UNCHANGED <<local, want, link, rest, gone, inbox, history>>
    BY <1>2, <2>1 DEF AcceptNothing, Start, peers
  <2>4. /\ client'[t] = Nobody /\ pc'[t] = "line"
        /\ \A u \in Thread \ {t} : pc'[u] = pc[u] /\ client'[u] = client[u] /\ local'[u] = local[u]
    BY <2>2, <2>3 DEF LeakInv, SocketInv, Types
  <2>5. Fits(t)'
    BY <2>2, <2>3, <2>4 DEF InputInv, Fits
  <2> QED BY SameInput, <2>3, <2>4, <2>5
<1>3. CASE AcceptTimesOut
  BY SameInput, <1>3 DEF AcceptTimesOut, threads, peers
<1>4. CASE LoopTest
  <2>1. UNCHANGED <<pc, local, client>>
    BY <1>4 DEF LoopTest, threads
  <2>2. CASE UNCHANGED <<peers, inbox, history>>
    BY SameInput, <2>1, <2>2 DEF peers
  <2>3. CASE Close(ToSet(backlog))
    <3>1. PICK S : S = ToSet(backlog)
      OBVIOUS
    <3>2. \A c \in S : link[c] = "waiting"
      BY <3>1 DEF ToSet, LeakInv, SocketInv, BacklogWaits
    <3>3. Close(S)
      BY <2>3, <3>1
    <3>4. /\ want' \in [Client -> Want \cup {NoWant}]
          /\ history'.punctual \subseteq history.punctual \ S
          /\ \A c \in Client \ S : /\ link'[c] = link[c] /\ want'[c] = want[c]
                                   /\ inbox'[c] = inbox[c] /\ rest'[c] = rest[c]
                                   /\ c \notin gone' => c \notin gone
          /\ \A c \in Client : c \in S => link'[c] # "waiting"
      BY <3>3, ClosedInput
    <3>5. ASSUME NEW u \in Thread
          PROVE  \/ client'[u] = Nobody /\ Fits(u)'
                 \/ /\ client'[u] = client[u] /\ pc'[u] = pc[u]
                    /\ local'[u] = local[u] /\ client[u] \notin S
      <4>1. CASE client[u] = Nobody
        <5>1. client'[u] = Nobody
          BY <2>1, <4>1
        <5>2. Fits(u)'
          BY <2>1 DEF InputInv, Fits
        <5> QED BY <5>1, <5>2
      <4>2. CASE client[u] # Nobody
        <5>1. client[u] \notin S
          BY <3>2, <4>2, PeerIsClient DEF LeakInv
        <5> QED BY <2>1, <5>1
      <4> QED BY <4>1, <4>2
    <3> QED BY <3>4, <3>5, OthersInput
  <2> QED BY <1>4, <2>2, <2>3 DEF LoopTest
<1>5. CASE Exit
  <2>1. PICK S : Die(S)
    BY <1>5 DEF Exit
  <2> QED BY <2>1, DieInput
<1> QED BY <1>1, <1>2, <1>3, <1>4, <1>5 DEF Loop

\* What clients do changes nothing of what a thread still has to come, but that a
\* client that leaves need not send it.
LEMMA ClientInput ==
    ASSUME LeakInv, InputInv, NEW c \in Client, Connect(c) \/ Send(c) \/ Receive(c) \/ Leave(c)
    PROVE  InputInv'
<1> USE DEF InputInv
<1>1. /\ UNCHANGED <<pc, local, client>>
      /\ \A t \in Thread : client[t] # Nobody => client[t] \in Client
      /\ history'.punctual = history.punctual /\ history.punctual \subseteq Client
  BY DEF Connect, Send, Receive, Leave, threads, LeakInv, SocketInv, Types, Histories
<1>2. \A u \in Thread : Fits(u)'
  BY <1>1 DEF Fits
<1>3. inbox[c] \in Seq(Part) /\ rest[c] \in Seq(Part)
  BY DEF LeakInv, SocketInv, Types
<1>4. CASE Connect(c)
  <2>1. PICK w \in Want : rest' = [rest EXCEPT ![c] = Text(w)] /\ want' = [want EXCEPT ![c] = w]
    BY <1>4 DEF Connect
  <2>2. /\ link[c] = "new" /\ link' = [link EXCEPT ![c] = "waiting"] /\ UNCHANGED <<inbox, gone>>
    BY <1>4 DEF Connect
  <2>3. /\ rest'[c] = Text(w) /\ want'[c] = w /\ link'[c] = "waiting"
        /\ \A b \in Client \ {c} : rest'[b] = rest[b] /\ want'[b] = want[b] /\ link'[b] = link[b]
    BY <2>1, <2>2 DEF LeakInv, SocketInv, Types
  <2>4. \A t \in Thread : client[t] # c
    BY <2>2, PeerIsClient, NobodyAssumption DEF LeakInv
  <2>5. \A b \in Client \ {c} : \A text : Coming(b, text) => Coming(b, text)'
    BY <2>2, <2>3, ComingKept
  <2>6. PICK text : text = Text(w)
    OBVIOUS
  <2>7. Coming(c, text)'
    <3>1. text \in Seq(Part)
      BY <2>6, WantAssumption, TextBegins
    <3>2. <<>> \o text = text
      BY <3>1, ConcatEmptySeq
    <3>3. inbox'[c] = <<>>
      BY <2>2 DEF LeakInv, LineFirst
    <3> QED BY <2>3, <2>6, <3>1, <3>2, <3>3 DEF Coming
  <2>8. ASSUME NEW b \in Client, link'[b] = "waiting" PROVE Coming(b, Text(want[b]))'
    <3>1. CASE b = c
      BY <2>3, <2>6, <2>7, <3>1
    <3>2. CASE b # c
      <4>1. PICK text2 : text2 = Text(want[b])
        OBVIOUS
      <4>2. Coming(b, text2)
        BY <2>3, <2>8, <3>2, <4>1
      <4>3. Coming(b, text2)'
        BY <2>5, <3>2, <4>2
      <4> QED BY <2>3, <3>2, <4>1, <4>3
    <3> QED BY <3>1, <3>2
  <2>9. want' \in [Client -> Want \cup {NoWant}]
    BY <2>1
  <2>10. \A b \in history'.punctual : link'[b] = "open" /\ rest'[b] = <<>>
    BY <1>1, <2>2, <2>3
  <2>11. ASSUME NEW u \in Thread, client'[u] # Nobody
         PROVE  Input(u, client[u], want[client[u]])'
    <3>1. PICK b, v : b = client[u] /\ v = want[b]
      OBVIOUS
    <3>2. /\ client'[u] = b /\ pc'[u] = pc[u] /\ local'[u] = local[u] /\ b \in Client \ {c}
          /\ want'[b] = v /\ Input(u, b, v)
      BY <1>1, <2>3, <2>4, <2>11, <3>1
    <3>3. Punctual(b)' => Punctual(b)
      BY <1>1, <2>2 DEF Punctual
    <3>4. \A text2 : Coming(b, text2) => Coming(b, text2)'
      BY <2>5, <3>2
    <3>5. Input(u, b, v)'
      BY <3>2, <3>3, <3>4, InputKept
    <3> QED BY <3>2, <3>5
  <2> QED BY <1>2, <2>8, <2>9, <2>10, <2>11
<1>5. ASSUME UNCHANGED <<want, link>>, \A b \in Client : b \notin gone' => b \notin gone,
             \A b \in Client : rest[b] = <<>> => rest'[b] = <<>>,
             \A b \in Client : \A text : Coming(b, text) => Coming(b, text)'
      PROVE  InputInv'
  <2>1. ASSUME NEW b \in Client, link'[b] = "waiting" PROVE Coming(b, Text(want[b]))'
    <3>1. PICK text : text = Text(want[b])
      OBVIOUS
    <3>2. Coming(b, text)
      BY <1>5, <2>1, <3>1
    <3>3. Coming(b, text)'
      BY <1>5, <3>2
    <3> QED BY <1>5, <3>1, <3>3
  <2>2. ASSUME NEW u \in Thread, client'[u] # Nobody
        PROVE  Input(u, client[u], want[client[u]])'
    <3>1. PICK b, v : b = client[u] /\ v = want[b]
      OBVIOUS
    <3>2. /\ client'[u] = b /\ pc'[u] = pc[u] /\ local'[u] = local[u] /\ b \in Client
          /\ want'[b] = v /\ Input(u, b, v)
      BY <1>1, <1>5, <2>2, <3>1
    <3>3. Punctual(b)' => Punctual(b)
      BY <1>1, <1>5, <3>2 DEF Punctual
    <3>4. \A text : Coming(b, text) => Coming(b, text)'
      BY <1>5, <3>2
    <3>5. Input(u, b, v)'
      BY <3>2, <3>3, <3>4, InputKept
    <3> QED BY <3>2, <3>5
  <2>3. \A b \in history'.punctual : link'[b] = "open" /\ rest'[b] = <<>>
    BY <1>1, <1>5
  <2>4. want' \in [Client -> Want \cup {NoWant}]
    BY <1>5
  <2> QED BY <1>2, <2>1, <2>2, <2>3, <2>4
<1>6. CASE Receive(c)
  <2>1. UNCHANGED <<want, link, rest, gone, inbox>>
    BY <1>6 DEF Receive, peers
  <2>2. \A b \in Client : \A text : Coming(b, text) => Coming(b, text)'
    BY <2>1, ComingKept
  <2> QED BY <1>5, <2>1, <2>2
<1>7. CASE Send(c)
  <2>1. PICK n \in 1 .. Len(rest[c]) :
            /\ inbox' = [inbox EXCEPT ![c] = @ \o SubSeq(rest[c], 1, n)]
            /\ rest' = [rest EXCEPT ![c] = SubSeq(@, n + 1, Len(@))]
    BY <1>7 DEF Send
  <2>2. /\ inbox'[c] = inbox[c] \o SubSeq(rest[c], 1, n)
        /\ rest'[c] = SubSeq(rest[c], n + 1, Len(rest[c]))
        /\ \A b \in Client \ {c} : inbox'[b] = inbox[b] /\ rest'[b] = rest[b]
    BY <2>1 DEF LeakInv, SocketInv, Types
  <2>3. UNCHANGED <<want, link, gone>> /\ c \notin gone
    BY <1>7 DEF Send, Connected
  <2>4. rest'[c] \in Seq(Part) /\ inbox'[c] \o rest'[c] = inbox[c] \o rest[c] /\ rest[c] # <<>>
    <3>1. rest[c] # <<>>
      BY <2>1
    <3>2. rest'[c] \in Seq(Part)
      BY <1>3, <2>2
    <3>3. (inbox[c] \o SubSeq(rest[c], 1, n)) \o SubSeq(rest[c], n + 1, Len(rest[c]))
              = inbox[c] \o rest[c]
      BY <1>3, MovedOver
    <3> QED BY <2>2, <3>1, <3>2, <3>3, Zenon
  <2>5. ASSUME NEW b \in Client, NEW text, Coming(b, text) PROVE Coming(b, text)'
    <3>1. CASE b = c
      <4>1. inbox[c] \o rest[c] = text
        BY <2>3, <2>5, <3>1 DEF Coming
      <4>2. inbox'[c] \o rest'[c] = text
        BY <2>4, <4>1, Zenon
      <4> QED BY <2>4, <3>1, <4>2 DEF Coming
    <3>2. CASE b # c
      BY <2>2, <2>3, <2>5, <3>2, ComingKept
    <3> QED BY <3>1, <3>2
  <2>6. \A b \in Client : rest[b] = <<>> => rest'[b] = <<>>
    BY <2>2, <2>4
  <2> QED BY <1>5, <2>3, <2>5, <2>6
<1>8. CASE Leave(c)
  <2>1. /\ gone' = gone \cup {c} /\ rest' = [rest EXCEPT ![c] = <<>>]
        /\ inbox' \in {inbox, [inbox EXCEPT ![c] = <<>>]} /\ UNCHANGED <<want, link>>
    BY <1>8 DEF Leave
  <2>2. /\ \A b \in Client \ {c} : inbox'[b] = inbox[b] /\ rest'[b] = rest[b]
        /\ rest'[c] = <<>> /\ inbox'[c] \in {inbox[c], <<>>}
    BY <2>1 DEF LeakInv, SocketInv, Types
  <2>3. ASSUME NEW b \in Client, NEW text, Coming(b, text) PROVE Coming(b, text)'
    <3>1. CASE b # c
      BY <2>1, <2>2, <2>3, <3>1, ComingKept
    <3>2. CASE b = c
      <4>1. PICK later \in Seq(Part) : inbox[c] \o later = text
        BY <2>3, <3>2 DEF Coming
      <4>2. CASE inbox'[c] = inbox[c]
        BY <2>1, <3>2, <4>1, <4>2 DEF Coming
      <4>3. CASE inbox'[c] = <<>>
        <5>1. text \in Seq(Part)
          BY <1>3, <4>1, ConcatProperties
        <5>2. <<>> \o text = text
          BY <5>1, ConcatEmptySeq
        <5> QED BY <2>1, <3>2, <4>3, <5>1, <5>2 DEF Coming
      <4> QED BY <2>2, <4>2, <4>3
    <3> QED BY <3>1, <3>2
  <2>4. \A b \in Client : rest[b] = <<>> => rest'[b] = <<>>
    BY <2>2
  <2> QED BY <1>5, <2>1, <2>3, <2>4
<1> QED BY <1>4, <1>6, <1>7, <1>8

LEMMA StepInput ==
    ASSUME LeakInv, InputInv, [Next]_vars
    PROVE  InputInv'
<1>1. CASE UNCHANGED vars
  <2>1. UNCHANGED <<pc, local, client, want, link, rest, gone, inbox, history>>
    BY <1>1 DEF vars, threads, peers
  <2> QED BY <2>1, SameInput
<1>2. CASE \E c \in Client : Connect(c) \/ Send(c) \/ Receive(c) \/ Leave(c)
  BY <1>2, ClientInput
<1>3. CASE Loop
  BY <1>3, LoopInput
<1>4. ASSUME NEW t \in Thread, Step(t) PROVE InputInv'
  <2>1. CASE ReadLine(t) \/ NoLine(t)
    BY <2>1, LineInput
  <2>2. CASE ReadHeaders(t)
    BY <2>2, HeadersInput
  <2>3. CASE NoHeaders(t) \/ Route(t)
    BY <2>3, NoHeadersInput
  <2>4. CASE ReadPayload(t) \/ NoPayload(t) \/ BadLength(t)
    BY <2>4, PayloadInput
  <2>5. CASE SendHead(t) \/ ReadChunk(t) \/ PushChunk(t) \/ EndFile(t) \/ SendAnswer(t)
    BY <2>5, AnswerInput
  <2>6. CASE Refuse(t) \/ DeleteClient(t)
    BY <2>6, EndInput
  <2>7. CASE Crash(t)
    <3>1. PICK S : Die(S)
      BY <2>7 DEF Crash
    <3> QED BY <3>1, DieInput
  <2> QED BY <1>4, <2>1, <2>2, <2>3, <2>4, <2>5, <2>6, <2>7, Zenon DEF Step
<1> QED BY <1>1, <1>2, <1>3, <1>4, Zenon DEF Next, Ended

THEOREM InputCorrect == Safety => [](LeakInv /\ InputInv)
<1>1. Init => LeakInv /\ InputInv
  BY InitInv, InitInput
<1>2. LeakInv /\ InputInv /\ [Next]_vars => LeakInv' /\ InputInv'
  BY StepInv, StepInput
<1> QED BY <1>1, <1>2, PTL DEF Safety

\* The request of a thread that has read a payload was sent by a client.
LEMMA AnsweredWant ==
    ASSUME LeakInv, InputInv, NEW t \in Thread, NEW w, w = want[client[t]],
           pc[t] = "answer", w.op = "payload"
    PROVE  client[t] \in Client /\ w \in Want /\ Input(t, client[t], w)
<1>1. client[t] \in Client
  BY WantOfClient DEF Fits
<1>2. w \in Want \cup {NoWant} /\ Input(t, client[t], w)
  BY <1>1, WantOfClient, NobodyAssumption
<1> QED BY <1>1, <1>2 DEF NoWant

\* A payload that arrived in time with its request reaches its handler whole, for any
\* number of clients and threads: a client's payload is not mixed with another's, and
\* recvRequest takes none of it.  Of json.hpp it is assumed that its parser undoes what
\* its printer did, which the run evaluates for the requests of the instance.
THEOREM PunctualPayloadWholeCorrect ==
    ASSUME ParserUndoesPrinter
    PROVE  Safety => []PunctualPayloadWhole
<1>1. LeakInv /\ InputInv => PunctualPayloadWhole
  <2>1. SUFFICES ASSUME LeakInv, InputInv, NEW t \in Thread, NEW w, w = want[client[t]],
                        pc[t] = "answer", Punctual(client[t]), w.op = "payload",
                        w.length = Len(Body(w)), Without(w, {Quote, Backslash})
                 PROVE  local[t].read = Values(w)
    BY DEF PunctualPayloadWhole, Punctual
  <2>2. client[t] \in Client /\ w \in Want /\ Input(t, client[t], w)
    BY <2>1, AnsweredWant
  <2>3. Body(w) # <<>>
    BY <2>1 DEF Body
  <2>4. local[t].read \in Readings(w, Body(w))
    BY <2>1, <2>2, <2>3 DEF Input
  <2> QED BY <2>1, <2>2, <2>4 DEF ParserUndoesPrinter
<1> QED BY <1>1, InputCorrect, PTL

\* A handler reads all fields of a payload or none, however it is cut on the way.  Of
\* json.hpp it is assumed, besides, that what is cut is null to its parser.
THEOREM WholeOrNothingCorrect ==
    ASSUME ParserUndoesPrinter, CutsReadAsNothing
    PROVE  Safety => []WholeOrNothing
<1>1. LeakInv /\ InputInv => WholeOrNothing
  <2>1. SUFFICES ASSUME LeakInv, InputInv, NEW t \in Thread, NEW w, w = want[client[t]],
                        pc[t] = "answer", local[t].payload # <<>>, w.op = "payload",
                        Without(w, {Quote, Backslash, Brace})
                 PROVE  local[t].read \in {Values(w), Nothing(w)}
    BY DEF WholeOrNothing
  <2>2. client[t] \in Client /\ w \in Want /\ Input(t, client[t], w)
    BY <2>1, AnsweredWant
  <2>3. PICK payload : payload = local[t].payload
    OBVIOUS
  <2>4. payload \in {<<"nul">>, <<"part1">>, Body(w)} /\ local[t].read \in Readings(w, payload)
    BY <2>1, <2>2, <2>3 DEF Input
  <2>5. CASE payload = Body(w)
    <3>1. Without(w, {Quote, Backslash})
      BY <2>1 DEF Without
    <3> QED BY <2>1, <2>2, <2>4, <2>5, <3>1 DEF ParserUndoesPrinter
  <2>6. CASE payload \in {<<"nul">>, <<"part1">>}
    BY <2>1, <2>2, <2>4, <2>6 DEF CutsReadAsNothing
  <2> QED BY <2>4, <2>5, <2>6
<1> QED BY <1>1, InputCorrect, PTL

-----------------------------------------------------------------------------
(* The types of everything.                                                *)

\* What has arrived and is to come of a request is the end of its text.
Remains(c) == \E read \in Seq(Part) : read \o (inbox[c] \o rest[c]) = Text(want[c])

\* The types the invariants above leave open.
OwnTypes ==
    /\ loop \in {"test", "wait", "left"} /\ quit \in BOOLEAN /\ up \in BOOLEAN
    /\ local \in [Thread -> Local]
    /\ link \in [Client -> {"new", "waiting", "open", "closed"}]
    /\ gone \subseteq Client
    /\ stream \in [Client -> Seq(Piece)]
    /\ unread \in [Client -> 0 .. Room]
    /\ history \in History
    /\ \A c \in Client \ gone : Remains(c)

AllInv == LeakInv /\ StreamInv /\ InputInv /\ OwnTypes

LEMMA SuffixOf ==
    ASSUME NEW S, NEW s \in Seq(S), NEW u \in Seq(S)
    PROVE  IsSuffix(s, u \o s)
<1>1. PICK x, m, n : x = u \o s /\ m = Len(u) /\ n = Len(s)
  OBVIOUS
<1>2. /\ m \in Nat /\ n \in Nat /\ x \in Seq(S) /\ Len(x) = m + n
      /\ \A i \in 1 .. n : x[m + i] = s[i]
  BY <1>1
<1>3. PICK a, b : a = Reverse(s) /\ b = Reverse(x)
  OBVIOUS
<1>4. /\ a \in Seq(S) /\ Len(a) = n /\ \A i \in 1 .. n : a[i] = s[(n - i) + 1]
      /\ b \in Seq(S) /\ Len(b) = m + n /\ \A i \in 1 .. m + n : b[i] = x[((m + n) - i) + 1]
  BY <1>1, <1>2, <1>3 DEF Reverse
<1>5. ASSUME NEW i \in 1 .. n PROVE a[i] = b[i]
  <2>1. (n - i) + 1 \in 1 .. n /\ ((m + n) - i) + 1 = m + ((n - i) + 1) /\ i \in 1 .. m + n
    BY <1>2
  <2> QED BY <1>2, <1>4, <2>1
<1>6. SubSeq(a, 1, n) = SubSeq(b, 1, n)
  BY <1>2, <1>4, <1>5
<1> QED BY <1>1, <1>2, <1>3, <1>4, <1>6 DEF IsSuffix, IsPrefix

LEMMA TypesAll ==
    ASSUME AllInv
    PROVE  TypeOK
<1>1. Types
  BY DEF AllInv, LeakInv, SocketInv
<1>2. ASSUME NEW c \in Client \ gone
      PROVE  IsSuffix(inbox[c] \o rest[c], Text(want[c]))
  <2>1. PICK read \in Seq(Part) : read \o (inbox[c] \o rest[c]) = Text(want[c])
    BY <1>2 DEF AllInv, OwnTypes, Remains
  <2>2. inbox[c] \o rest[c] \in Seq(Part)
    BY <1>1, ConcatProperties DEF Types
  <2>3. IsSuffix(inbox[c] \o rest[c], read \o (inbox[c] \o rest[c]))
    BY <2>1, <2>2, SuffixOf, Zenon
  <2> QED BY <2>1, <2>3, Zenon
<1> QED BY <1>1, <1>2 DEF AllInv, OwnTypes, TypeOK, Types

LEMMA InitOwn ==
    ASSUME Init
    PROVE  OwnTypes
<1>1. Fresh \in Local
  BY SizeAssumption DEF Fresh, Local, Unit, Payload
<1>2. ASSUME NEW c \in Client PROVE Remains(c)
  <2>1. Text(want[c]) \in Seq(Part) /\ inbox[c] = <<>> /\ rest[c] = <<>>
    <3>1. NoWant \in Wanted
      BY DEF NoWant, Wanted
    <3>2. want[c] = NoWant /\ inbox[c] = <<>> /\ rest[c] = <<>>
      BY DEF Init
    <3> QED BY <3>1, <3>2, TextBegins
  <2>2. Text(want[c]) \o (<<>> \o <<>>) = Text(want[c])
    BY <2>1
  <2> QED BY <2>1, <2>2 DEF Remains
<1>3. <<>> \in Seq(Piece) /\ 0 \in 0 .. Room
  BY SizeAssumption
<1> QED BY <1>1, <1>2, <1>3 DEF Init, OwnTypes, History

\* Closed clients have nothing left.
LEMMA CloseOwn ==
    ASSUME Types, OwnTypes, NEW S, Close(S)
    PROVE  /\ link' \in [Client -> {"new", "waiting", "open", "closed"}]
           /\ gone' \subseteq Client /\ stream' \in [Client -> Seq(Piece)]
           /\ unread' \in [Client -> 0 .. Room] /\ history' \in History
           /\ \A c \in Client \ gone' : Remains(c)'
<1>1. ASSUME NEW c \in Client \ gone' PROVE Remains(c)'
  <2>1. CASE c \in S
    <3>1. inbox'[c] = <<>> /\ rest'[c] = <<>> /\ want'[c] = NoWant
      BY <2>1 DEF Close
    <3>2. Text(NoWant) \in Seq(Part)
      <4>1. NoWant \in Wanted
        BY DEF NoWant, Wanted
      <4> QED BY <4>1, TextBegins
    <3>3. Text(NoWant) \o (<<>> \o <<>>) = Text(NoWant)
      BY <3>2
    <3> QED BY <3>1, <3>2, <3>3 DEF Remains
  <2>2. CASE c \notin S
    <3>1. inbox'[c] = inbox[c] /\ rest'[c] = rest[c] /\ want'[c] = want[c] /\ c \notin gone
      BY <1>1, <2>2 DEF Close
    <3> QED BY <3>1 DEF OwnTypes, Remains
  <2> QED BY <2>1, <2>2
<1>2. <<>> \in Seq(Piece) /\ 0 \in 0 .. Room
  BY SizeAssumption
<1>3. history' \in History
  BY DEF Close, OwnTypes, History
<1>4. /\ link' \in [Client -> {"new", "waiting", "open", "closed"}] /\ gone' \subseteq Client
      /\ stream' \in [Client -> Seq(Piece)] /\ unread' \in [Client -> 0 .. Room]
  BY <1>2 DEF Close, OwnTypes
<1> QED BY <1>1, <1>3, <1>4

\* What no piece of the request moves leaves the rest of it as it was.
LEMMA SameRemains ==
    ASSUME OwnTypes, UNCHANGED <<inbox, rest, want, gone>>
    PROVE  \A c \in Client \ gone' : Remains(c)'
BY DEF OwnTypes, Remains

\* What a thread takes has been read.
LEMMA TakeRemains ==
    ASSUME Types, OwnTypes, NEW t \in Thread, Peer(t) # Nobody,
           NEW n \in 1 .. Len(inbox[Peer(t)]), Take(t, n), UNCHANGED <<rest, want, gone>>
    PROVE  \A c \in Client \ gone' : Remains(c)'
<1>1. PICK p : p = Peer(t) /\ p \in Client
  BY PeerType
<1>2. inbox' = [inbox EXCEPT ![p] = SubSeq(@, n + 1, Len(@))]
  BY <1>1 DEF Take
<1>3. SUFFICES ASSUME NEW c \in Client \ gone PROVE Remains(c)'
  OBVIOUS
<1>4. CASE c # p
  <2>1. inbox'[c] = inbox[c] /\ rest'[c] = rest[c] /\ want'[c] = want[c]
    BY <1>2, <1>4 DEF Types
  <2> QED BY <1>3, <2>1 DEF OwnTypes, Remains
<1>5. CASE c = p
  <2>1. PICK i, r, x, y : /\ i = inbox[c] /\ r = rest[c]
                          /\ x = SubSeq(i, 1, n) /\ y = SubSeq(i, n + 1, Len(i))
    OBVIOUS
  <2>2. i \in Seq(Part) /\ r \in Seq(Part) /\ n \in 1 .. Len(i)
    BY <1>1, <1>5, <2>1 DEF Types
  <2>3. x \in Seq(Part) /\ y \in Seq(Part)
    BY <2>1, <2>2
  <2>4. inbox'[c] = y /\ rest'[c] = r /\ want'[c] = want[c]
    BY <1>2, <1>5, <2>1 DEF Types
  <2>5. x \o y = i
    <3>1. (<<>> \o x) \o y = <<>> \o i
      BY <2>1, <2>2, MovedOver
    <3> QED BY <2>2, <2>3, <3>1
  <2>6. PICK read \in Seq(Part) : read \o (i \o r) = Text(want[c])
    BY <1>3, <2>1 DEF OwnTypes, Remains
  <2>7. (read \o x) \o (y \o r) = read \o (i \o r)
    <3>1. (read \o x) \o (y \o r) = read \o (x \o (y \o r))
      <4>1. y \o r \in Seq(Part)
        BY <2>2, <2>3, ConcatProperties
      <4> QED BY <2>3, <4>1, Associates, Zenon
    <3>2. (x \o y) \o r = x \o (y \o r)
      <4>1. x \in Seq(Part)
        BY <2>3
      <4>2. y \in Seq(Part)
        BY <2>3
      <4>3. r \in Seq(Part)
        BY <2>2
      <4> QED BY <4>1, <4>2, <4>3, Associates
    <3> QED BY <2>5, <3>1, <3>2, Zenon
  <2>8. read \o x \in Seq(Part)
    BY <2>3, ConcatProperties
  <2> QED BY <2>4, <2>6, <2>7, <2>8 DEF Remains
<1> QED BY <1>4, <1>5

\* What a step of a thread changes of them, if it does not end it.
LEMMA KeepsOwn ==
    ASSUME OwnTypes, UNCHANGED <<loop, up, link, gone>>, quit' \in BOOLEAN,
           local' \in [Thread -> Local], stream' \in [Client -> Seq(Piece)],
           unread' \in [Client -> 0 .. Room], history' \in History,
           \A c \in Client \ gone' : Remains(c)'
    PROVE  OwnTypes'
BY DEF OwnTypes

LEMMA SetPayloadOwn ==
    ASSUME ReadingsAreTexts, OwnTypes, NEW t \in Thread, want[Peer(t)] \in Want,
           NEW payload \in Payload, SetPayload(t, payload)
    PROVE  local' \in [Thread -> Local]
<1>1. PICK w : w = want[Peer(t)] /\ w \in Want
  OBVIOUS
<1>2. PICK read \in Readings(w, payload) :
          local' = [local EXCEPT ![t].payload = payload, ![t].read = read]
  BY <1>1 DEF SetPayload
<1>3. read \in Seq(Seq(STRING))
  BY <1>1, <1>2 DEF ReadingsAreTexts
<1>4. local[t] \in Local
  BY DEF OwnTypes
<1>5. [local[t] EXCEPT !.payload = payload, !.read = read] \in Local
  BY <1>3, <1>4 DEF Local
<1> QED BY <1>2, <1>5 DEF OwnTypes

\* A thread that reads a payload has a client, who wants to send one.
LEMMA PayloadWant ==
    ASSUME AllInv, NEW t \in Thread, At(t, "recv")
    PROVE  /\ Peer(t) \in Client /\ Peer(t) = client[t] /\ want[Peer(t)] \in Want
           /\ want[Peer(t)].op = "payload"
           /\ local[t].length # 0 => Coming(Peer(t), Body(want[Peer(t)]))
<1>1. /\ Peer(t) = client[t] /\ client[t] \in Client \cup {Nobody} /\ Fits(t)
      /\ client[t] # Nobody =>
             want[client[t]] \in Want \cup {NoWant} /\ Input(t, client[t], want[client[t]])
  BY WantOfClient DEF AllInv
<1>2. pc[t] = "recv"
  BY DEF At
<1>3. local[t].good /\ client[t] # Nobody
  BY <1>1, <1>2 DEF Fits
<1>4. PICK c, w : c = client[t] /\ w = want[c]
  OBVIOUS
<1>5. w \in Want \cup {NoWant} /\ Input(t, c, w)
  BY <1>1, <1>3, <1>4
<1>6. w.op = "payload" /\ (local[t].length # 0 => Coming(c, Body(w)))
  BY <1>2, <1>3, <1>5 DEF Input
<1>7. w # NoWant
  BY <1>6 DEF NoWant
<1> QED BY <1>1, <1>3, <1>4, <1>5, <1>6, <1>7

LEMMA ReadOwn ==
    ASSUME ReadingsAreTexts, AllInv, NEW t \in Thread,
           ReadLine(t) \/ ReadHeaders(t) \/ ReadPayload(t)
    PROVE  OwnTypes'
<1> USE DEF AllInv
<1>1. Types
  BY DEF LeakInv, SocketInv
<1>2. /\ UNCHANGED <<loop, up, quit, link, gone, rest, want, stream, unread, history>>
      /\ Peer(t) # Nobody /\ inbox[Peer(t)] # <<>>
  BY DEF ReadLine, ReadHeaders, ReadPayload, Arrived, server, peers
<1>3. PICK p : p = Peer(t) /\ p \in Client
  BY <1>1, <1>2, PeerType
<1>4. inbox[p] \in Seq(Part) /\ 1 \in 1 .. Len(inbox[p])
  BY <1>1, <1>2, <1>3 DEF Types
<1>5. local[t] \in Local
  BY DEF OwnTypes
<1>6. local' \in [Thread -> Local] /\ \E n \in 1 .. Len(inbox[p]) : Take(t, n)
  <2>1. CASE ReadLine(t)
    <3>1. [local[t] EXCEPT !.good = (First(t) = "good")] \in Local
      BY <1>5 DEF Local
    <3> QED BY <1>4, <2>1, <3>1 DEF ReadLine, OwnTypes
  <2>2. CASE ReadHeaders(t)
    <3>1. Take(t, 1)
      BY <2>2 DEF ReadHeaders, HeadersRead
    <3>2. want[p].length \in Int
      BY <1>1, <1>3 DEF Types, Wanted
    <3>3. [local[t] EXCEPT !.length = want[p].length] \in Local
      BY <1>5, <3>2 DEF Local
    <3>4. \/ local' = [local EXCEPT ![t].length = want[p].length]
          \/ local' = local
      BY <1>3, <2>2 DEF ReadHeaders
    <3>5. local' \in [Thread -> Local]
      BY <3>3, <3>4 DEF OwnTypes
    <3> QED BY <1>4, <3>1, <3>5
  <2>3. CASE ReadPayload(t)
    <3>1. PICK w, n, payload : w = want[p] /\ n = Ready(t) /\ payload = SubSeq(inbox[p], 1, n)
      OBVIOUS
    <3>2. /\ w \in Want /\ w.op = "payload" /\ Coming(p, Body(w))
          /\ local[t].length \in Nat \ {0}
      BY <1>3, <1>5, <2>3, <3>1, PayloadWant DEF ReadPayload, Local
    <3>3. payload \in {<<"part1">>, Body(w)}
      BY <1>3, <2>3, <3>1, <3>2, PayloadReceived
    <3>4. payload \in Payload
      BY <3>2, <3>3 DEF Payload, Body
    <3>5. SetPayload(t, payload) /\ Take(t, n)
      BY <1>3, <2>3, <3>1 DEF ReadPayload
    <3>6. local' \in [Thread -> Local]
      BY <1>3, <3>1, <3>2, <3>4, <3>5, SetPayloadOwn
    <3>7. n \in 1 .. Len(inbox[p])
      BY <1>3, <1>4, <3>1, <3>2 DEF Ready
    <3> QED BY <3>5, <3>6, <3>7
  <2> QED BY <2>1, <2>2, <2>3
<1>7. \A c \in Client \ gone' : Remains(c)'
  BY <1>1, <1>2, <1>3, <1>6, TakeRemains
<1>8. /\ stream' \in [Client -> Seq(Piece)] /\ unread' \in [Client -> 0 .. Room]
      /\ history' \in History /\ quit' \in BOOLEAN
  BY <1>2 DEF OwnTypes
<1> QED BY <1>2, <1>6, <1>7, <1>8, KeepsOwn

LEMMA QuietOwn ==
    ASSUME ReadingsAreTexts, AllInv, NEW t \in Thread,
           \/ NoLine(t) \/ NoHeaders(t) \/ Route(t) \/ BadLength(t) \/ NoPayload(t)
           \/ ReadChunk(t) \/ EndFile(t)
    PROVE  OwnTypes'
<1> USE DEF AllInv
<1>1. Types
  BY DEF LeakInv, SocketInv
<1>2. UNCHANGED <<loop, up, link, gone, rest, want, inbox, stream, unread>>
  BY DEF NoLine, NoHeaders, Route, BadLength, NoPayload, ReadChunk, EndFile, server, peers
<1>3. quit' \in BOOLEAN
  BY DEF NoLine, NoHeaders, Route, BadLength, NoPayload, ReadChunk, EndFile, server, OwnTypes
<1>4. history' \in History
  <2>1. CASE NoLine(t)
    <3>1. Peer(t) \in Client \cup {Nobody}
      BY <1>1, PeerType
    <3> QED BY <2>1, <3>1 DEF NoLine, OwnTypes, History
  <2>2. CASE ~NoLine(t)
    BY <2>2 DEF NoHeaders, Route, BadLength, NoPayload, ReadChunk, EndFile, OwnTypes
  <2> QED BY <2>1, <2>2
<1>5. local' \in [Thread -> Local]
  <2>1. CASE UNCHANGED local
    BY <2>1 DEF OwnTypes
  <2>2. CASE BadLength(t) \/ NoPayload(t)
    <3>1. want[Peer(t)] \in Want
      BY <2>2, PayloadWant DEF BadLength, NoPayload
    <3>2. <<"nul">> \in Payload /\ <<>> \in Payload
      BY DEF Payload
    <3>3. UNCHANGED local \/ SetPayload(t, <<"nul">>) \/ SetPayload(t, <<>>)
      BY <2>2, Zenon DEF BadLength, NoPayload
    <3> QED BY <2>1, <3>1, <3>2, <3>3, SetPayloadOwn
  <2>3. CASE ReadChunk(t)
    <3>1. local[t] \in Local /\ local[t].sent \in Nat /\ local[t].buffer \in [1 .. Chunk -> Unit]
      BY DEF OwnTypes, Local
    <3>2. ChunkOf(t) \in [1 .. Chunk -> Unit]
      BY <3>1, SizeAssumption DEF ChunkOf, Unit
    <3>3. 0 \in 0 .. Chunk
      BY SizeAssumption
    <3>4. [local[t] EXCEPT !.buffer = ChunkOf(t), !.off = 0] \in Local
      BY <3>1, <3>2, <3>3 DEF Local
    <3> QED BY <2>3, <3>4 DEF ReadChunk, OwnTypes
  <2> QED BY <2>1, <2>2, <2>3 DEF NoLine, NoHeaders, Route, EndFile
<1>6. stream' \in [Client -> Seq(Piece)] /\ unread' \in [Client -> 0 .. Room]
  BY <1>2 DEF OwnTypes
<1>7. \A c \in Client \ gone' : Remains(c)'
  BY <1>2, SameRemains
<1> QED BY <1>2, <1>3, <1>4, <1>5, <1>6, <1>7, KeepsOwn

\* A thread that sends has a client.
LEMMA SenderHasClient ==
    ASSUME AllInv, NEW t \in Thread, pc[t] \in {"head", "push", "answer"}
    PROVE  Peer(t) \in Client
<1>1. /\ Peer(t) = client[t] /\ client[t] \in Client \cup {Nobody} /\ Fits(t)
  BY WantOfClient DEF AllInv
<1> QED BY <1>1 DEF Fits

LEMMA SendFailsOwn ==
    ASSUME OwnTypes, NEW t \in Thread, Peer(t) \in Client, SendFails(t)
    PROVE  /\ stream' \in [Client -> Seq(Piece)] /\ unread' \in [Client -> 0 .. Room]
           /\ history' \in History
<1>1. history' \in History
  BY DEF SendFails, OwnTypes, History
<1>2. <<>> \in Seq(Piece)
  OBVIOUS
<1> QED BY <1>1, <1>2 DEF SendFails, OwnTypes

LEMMA SendPiecesOwn ==
    ASSUME OwnTypes, NEW t \in Thread, Peer(t) \in Client, UNCHANGED history,
           NEW pieces \in Seq(Piece), Len(pieces) <= RoomFor(t), SendPieces(t, pieces)
    PROVE  /\ stream' \in [Client -> Seq(Piece)] /\ unread' \in [Client -> 0 .. Room]
           /\ history' \in History
<1>1. PICK p : p = Peer(t) /\ p \in Client
  OBVIOUS
<1>2. stream[p] \o pieces \in Seq(Piece)
  BY <1>1, ConcatProperties DEF OwnTypes
<1>3. stream' \in [Client -> Seq(Piece)]
  BY <1>1, <1>2 DEF SendPieces, OwnTypes
<1>4. unread[p] \in 0 .. Room /\ Len(pieces) \in Nat /\ Len(pieces) <= Room - unread[p]
  BY <1>1, NobodyAssumption DEF RoomFor, OwnTypes
<1>5. unread[p] + Len(pieces) \in 0 .. Room
  BY <1>4, SizeAssumption
<1>6. unread' \in [Client -> 0 .. Room]
  BY <1>1, <1>5 DEF SendPieces, OwnTypes
<1> QED BY <1>3, <1>6 DEF OwnTypes

\* A part of a sequence.
LEMMA SubSequence ==
    ASSUME NEW S, NEW s \in Seq(S), NEW m \in 0 .. Len(s), NEW n \in m .. Len(s)
    PROVE  SubSeq(s, m + 1, n) \in Seq(S) /\ Len(SubSeq(s, m + 1, n)) = n - m
OBVIOUS

LEMMA SendOwn ==
    ASSUME AllInv, StreamInv', NEW t \in Thread, SendHead(t) \/ PushChunk(t) \/ SendAnswer(t)
    PROVE  OwnTypes'
<1> USE DEF AllInv
<1>1. UNCHANGED <<loop, up, quit, link, gone, rest, want, inbox>>
  BY DEF SendHead, PushChunk, SendAnswer, server, peers
<1>2. Peer(t) \in Client
  BY SenderHasClient DEF SendHead, PushChunk, SendAnswer, At
<1>3. unread[Peer(t)] \in 0 .. Room /\ RoomFor(t) = Room - unread[Peer(t)]
  BY <1>2, NobodyAssumption DEF RoomFor, OwnTypes
<1>4. RoomFor(t) \in Nat
  BY <1>3, SizeAssumption
<1>5. /\ stream' \in [Client -> Seq(Piece)] /\ unread' \in [Client -> 0 .. Room]
      /\ history' \in History
      /\ local' \in [Thread -> Local]
  <2>1. ASSUME NEW piece \in Piece, RoomFor(t) > 0, SendPieces(t, <<piece>>), UNCHANGED <<history, local>>
        PROVE  /\ stream' \in [Client -> Seq(Piece)] /\ unread' \in [Client -> 0 .. Room]
               /\ history' \in History
               /\ local' \in [Thread -> Local]
    <3>1. <<piece>> \in Seq(Piece) /\ Len(<<piece>>) <= RoomFor(t)
      BY <1>4, <2>1
    <3> QED BY <1>2, <2>1, <3>1, SendPiecesOwn DEF OwnTypes
  <2>2. CASE SendHead(t) \/ SendAnswer(t)
    <3>1. FileHead \in Piece /\ Reply \in Piece /\ UNCHANGED local
      BY <2>2 DEF Piece, SendHead, SendAnswer
    <3>2. \/ RoomFor(t) > 0 /\ SendPieces(t, <<FileHead>>) /\ UNCHANGED history
          \/ RoomFor(t) > 0 /\ SendPieces(t, <<Reply>>) /\ UNCHANGED history
          \/ SendFails(t)
      BY <2>2, Zenon DEF SendHead, SendAnswer
    <3>3. CASE SendFails(t)
      BY <1>2, <3>1, <3>3, SendFailsOwn DEF OwnTypes
    <3> QED BY <2>1, <3>1, <3>2, <3>3, Zenon
  <2>3. PICK r : r = local[t] /\ r \in Local
    BY DEF OwnTypes
  <2>4. /\ r.sent \in Nat /\ r.off \in 0 .. Chunk /\ r.buffer \in [1 .. Chunk -> Unit]
        /\ 0 \in 0 .. Chunk /\ r.sent + Chunk \in Nat
    BY <2>3, SizeAssumption DEF Local
  <2>5. [r EXCEPT !.sent = r.sent + Chunk, !.off = 0] \in Local
    BY <2>3, <2>4 DEF Local
  <2>6. CASE PushFails(t)
    <3>1. local' \in [Thread -> Local]
      BY <2>3, <2>5, <2>6 DEF PushFails, OwnTypes
    <3> QED BY <1>2, <2>6, <3>1, SendFailsOwn DEF PushFails
  <2>7. CASE PushSome(t)
    <3>1. PICK left, n, pieces : /\ left = SubSeq(r.buffer, r.off + 1, Chunk)
                                 /\ n = IF Len(left) < RoomFor(t) THEN Len(left) ELSE RoomFor(t)
                                 /\ pieces = SubSeq(left, 1, n)
      OBVIOUS
    <3>2. /\ SendPieces(t, pieces) /\ UNCHANGED history
          /\ IF n = Len(left)
             THEN local' = [local EXCEPT ![t].sent = @ + Chunk, ![t].off = 0]
             ELSE local' = [local EXCEPT ![t].off = @ + n]
      BY <2>3, <2>7, <3>1 DEF PushSome
    <3>3. left \in Seq(Unit) /\ Len(left) = Chunk - r.off /\ Len(left) \in Nat
      <4>1. PICK b, o : b = r.buffer /\ o = r.off /\ b \in [1 .. Chunk -> Unit] /\ o \in 0 .. Chunk
        BY <2>4
      <4>2. b \in Seq(Unit) /\ Len(b) = Chunk /\ o \in 0 .. Len(b) /\ Chunk \in o .. Len(b)
        BY <4>1, SizeAssumption
      <4>3. SubSeq(b, o + 1, Chunk) \in Seq(Unit) /\ Len(SubSeq(b, o + 1, Chunk)) = Chunk - o
        BY <4>2, SubSequence
      <4> QED BY <3>1, <4>1, <4>2, <4>3
    <3>4. n \in 0 .. Len(left) /\ n <= RoomFor(t)
      <4>1. PICK k, l : k = RoomFor(t) /\ k \in Nat /\ l = Len(left) /\ l \in Nat
        BY <1>4, <3>3
      <4>2. n = IF l < k THEN l ELSE k
        BY <3>1, <4>1, Zenon
      <4>3. n \in 0 .. l /\ n <= k
        BY <4>1, <4>2
      <4> QED BY <4>1, <4>3, Zenon
    <3>5. SubSeq(left, 0 + 1, n) \in Seq(Unit) /\ Len(SubSeq(left, 0 + 1, n)) = n - 0
      <4>1. 0 \in 0 .. Len(left) /\ n \in 0 .. Len(left)
        BY <3>3, <3>4
      <4> QED BY <3>3, <4>1, SubSequence
    <3>6. pieces \in Seq(Unit) /\ Len(pieces) = n
      <4>1. 0 + 1 = 1 /\ n - 0 = n
        BY <3>3, <3>4
      <4> QED BY <3>1, <3>5, <4>1, Zenon
    <3>7. pieces \in Seq(Piece)
      BY <3>6 DEF Piece
    <3>8. local' \in [Thread -> Local]
      <4>1. CASE n = Len(left)
        BY <2>3, <2>5, <3>2, <4>1 DEF OwnTypes
      <4>2. CASE n # Len(left)
        <5>1. r.off + n \in 0 .. Chunk
          BY <2>4, <3>3, <3>4, SizeAssumption
        <5>2. [r EXCEPT !.off = r.off + n] \in Local
          BY <2>3, <5>1 DEF Local
        <5> QED BY <2>3, <3>2, <4>2, <5>2 DEF OwnTypes
      <4> QED BY <4>1, <4>2
    <3> QED BY <1>2, <3>2, <3>4, <3>6, <3>7, <3>8, SendPiecesOwn
  <2> QED BY <2>2, <2>6, <2>7 DEF PushChunk
<1>6. \A c \in Client \ gone' : Remains(c)'
  BY <1>1, SameRemains
<1>7. quit' \in BOOLEAN
  BY <1>1 DEF OwnTypes
<1> QED BY <1>1, <1>5, <1>6, <1>7, KeepsOwn

\* The end of a thread, with its client or without.
LEMMA EndOwn ==
    ASSUME AllInv, NEW t \in Thread, Refuse(t) \/ DeleteClient(t)
    PROVE  OwnTypes'
<1> USE DEF AllInv
<1>1. Types
  BY DEF LeakInv, SocketInv
<1>2. Fresh \in Local
  BY SizeAssumption DEF Fresh, Local, Unit, Payload
<1>3. /\ local' \in [Thread -> Local] /\ UNCHANGED <<loop, quit, up>>
  BY <1>2 DEF Refuse, DeleteClient, Finish, server, OwnTypes
<1>4. CASE UNCHANGED <<peers, inbox, stream, unread, history>>
  <2>1. UNCHANGED <<link, want, rest, gone, inbox, stream, unread, history>>
    BY <1>4 DEF peers
  <2>2. \A c \in Client \ gone' : Remains(c)'
    BY <2>1, SameRemains
  <2> QED BY <1>3, <2>1, <2>2 DEF OwnTypes
<1>5. CASE \E S : Close(S)
  <2>1. PICK S : Close(S)
    BY <1>5
  <2> QED BY <1>1, <1>3, <2>1, CloseOwn DEF OwnTypes
<1> QED BY <1>4, <1>5, Zenon DEF Refuse, DeleteClient, Disconnect

LEMMA DieOwn ==
    ASSUME AllInv, NEW S, Die(S), loop' \in {"test", "wait", "left"}, UNCHANGED quit
    PROVE  OwnTypes'
<1>1. Types /\ OwnTypes /\ Close(S)
  BY DEF AllInv, LeakInv, SocketInv, Die
<1>2. Fresh \in Local
  BY SizeAssumption DEF Fresh, Local, Unit, Payload
<1>3. local' \in [Thread -> Local] /\ up' \in BOOLEAN /\ quit' \in BOOLEAN
  BY <1>1, <1>2 DEF Die, OwnTypes
<1> QED BY <1>1, <1>3, CloseOwn DEF OwnTypes

LEMMA ClientOwn ==
    ASSUME AllInv, NEW c \in Client, Connect(c) \/ Send(c) \/ Receive(c) \/ Leave(c)
    PROVE  OwnTypes'
<1> USE DEF AllInv
<1>1. Types /\ LineFirst
  BY DEF LeakInv, SocketInv
<1>2. UNCHANGED <<loop, quit, up, local>>
  BY DEF Connect, Send, Receive, Leave, threads, server
<1>3. CASE Connect(c)
  <2>1. PICK w \in Want : want' = [want EXCEPT ![c] = w] /\ rest' = [rest EXCEPT ![c] = Text(w)]
    BY <1>3 DEF Connect
  <2>2. /\ link[c] = "new" /\ link' = [link EXCEPT ![c] = "waiting"]
        /\ UNCHANGED <<gone, inbox, stream, unread, history>>
    BY <1>3 DEF Connect
  <2>3. inbox[c] = <<>> /\ Text(w) \in Seq(Part)
    BY <1>1, <2>2, WantAssumption, TextBegins DEF LineFirst
  <2>4. ASSUME NEW d \in Client \ gone' PROVE Remains(d)'
    <3>1. CASE d = c
      <4>1. inbox'[d] = <<>> /\ rest'[d] = Text(w) /\ want'[d] = w
        BY <1>1, <2>1, <2>2, <2>3, <3>1 DEF Types
      <4>2. <<>> \o (<<>> \o Text(w)) = Text(w) /\ <<>> \in Seq(Part)
        BY <2>3
      <4> QED BY <4>1, <4>2 DEF Remains
    <3>2. CASE d # c
      <4>1. inbox'[d] = inbox[d] /\ rest'[d] = rest[d] /\ want'[d] = want[d]
        BY <1>1, <2>1, <2>2, <3>2 DEF Types
      <4> QED BY <2>2, <2>4, <4>1 DEF OwnTypes, Remains
    <3> QED BY <3>1, <3>2
  <2> QED BY <1>2, <2>2, <2>4 DEF OwnTypes
<1>4. CASE Send(c)
  <2>1. PICK n \in 1 .. Len(rest[c]) :
            /\ inbox' = [inbox EXCEPT ![c] = @ \o SubSeq(rest[c], 1, n)]
            /\ rest' = [rest EXCEPT ![c] = SubSeq(@, n + 1, Len(@))]
    BY <1>4 DEF Send
  <2>2. UNCHANGED <<link, want, gone, stream, unread, history>>
    BY <1>4 DEF Send
  <2>3. ASSUME NEW d \in Client \ gone' PROVE Remains(d)'
    <3>1. inbox'[d] \o rest'[d] = inbox[d] \o rest[d] /\ want'[d] = want[d]
      <4>1. CASE d = c
        <5>1. PICK i, r : i = inbox[c] /\ r = rest[c] /\ i \in Seq(Part) /\ r \in Seq(Part)
          BY <1>1 DEF Types
        <5>2. (i \o SubSeq(r, 1, n)) \o SubSeq(r, n + 1, Len(r)) = i \o r
          BY <2>1, <5>1, MovedOver
        <5>3. inbox'[d] = i \o SubSeq(r, 1, n) /\ rest'[d] = SubSeq(r, n + 1, Len(r))
          BY <1>1, <2>1, <4>1, <5>1 DEF Types
        <5> QED BY <2>2, <4>1, <5>1, <5>2, <5>3, Zenon
      <4>2. CASE d # c
        BY <1>1, <2>1, <2>2, <4>2 DEF Types
      <4> QED BY <4>1, <4>2
    <3> QED BY <2>2, <2>3, <3>1 DEF OwnTypes, Remains
  <2> QED BY <1>2, <2>2, <2>3 DEF OwnTypes
<1>5. CASE Receive(c)
  <2>1. /\ UNCHANGED <<link, want, rest, gone, inbox, stream, history>>
        /\ unread' = [unread EXCEPT ![c] = 0]
    BY <1>5 DEF Receive, peers
  <2>2. unread' \in [Client -> 0 .. Room]
    BY <2>1, SizeAssumption DEF OwnTypes
  <2>3. \A d \in Client \ gone' : Remains(d)'
    BY <2>1, SameRemains
  <2> QED BY <1>2, <2>1, <2>2, <2>3 DEF OwnTypes
<1>6. CASE Leave(c)
  <2>1. /\ gone' = gone \cup {c} /\ rest' = [rest EXCEPT ![c] = <<>>]
        /\ stream' = [stream EXCEPT ![c] = <<>>] /\ unread' = [unread EXCEPT ![c] = 0]
        /\ history' = [history EXCEPT !.cut = @ \cup {c}] /\ UNCHANGED <<link, want>>
    BY <1>6 DEF Leave
  <2>2. inbox' = inbox \/ inbox' = [inbox EXCEPT ![c] = <<>>]
    BY <1>6 DEF Leave
  <2>3. unread' \in [Client -> 0 .. Room] /\ stream' \in [Client -> Seq(Piece)]
    <3>1. 0 \in 0 .. Room /\ <<>> \in Seq(Piece)
      BY SizeAssumption
    <3> QED BY <2>1, <3>1 DEF OwnTypes
  <2>4. history' \in History
    BY <2>1 DEF OwnTypes, History
  <2>5. ASSUME NEW d \in Client \ gone' PROVE Remains(d)'
    <3>1. d # c /\ d \notin gone
      BY <2>1, <2>5
    <3>2. inbox'[d] = inbox[d] /\ rest'[d] = rest[d] /\ want'[d] = want[d]
      BY <1>1, <2>1, <2>2, <3>1 DEF Types
    <3> QED BY <3>1, <3>2 DEF OwnTypes, Remains
  <2> QED BY <1>2, <2>1, <2>3, <2>4, <2>5 DEF OwnTypes
<1> QED BY <1>3, <1>4, <1>5, <1>6

LEMMA LoopOwn ==
    ASSUME AllInv, Loop
    PROVE  OwnTypes'
<1> USE DEF AllInv
<1>1. Types
  BY DEF LeakInv, SocketInv
<1>2. CASE LoopTest
  <2>1. /\ UNCHANGED <<quit, up, local>> /\ loop' \in {"test", "wait", "left"}
    BY <1>2 DEF LoopTest, threads
  <2>2. CASE UNCHANGED <<peers, inbox, stream, unread, history>>
    <3>1. UNCHANGED <<link, want, rest, gone, inbox, stream, unread, history>>
      BY <2>2 DEF peers
    <3>2. \A c \in Client \ gone' : Remains(c)'
      BY <3>1, SameRemains
    <3> QED BY <2>1, <3>1, <3>2 DEF OwnTypes
  <2>3. CASE Close(ToSet(backlog))
    BY <1>1, <2>1, <2>3, CloseOwn DEF OwnTypes
  <2> QED BY <1>2, <2>2, <2>3, Zenon DEF LoopTest
<1>3. CASE AcceptClient
  <2>1. PICK c : c = Head(backlog)
    OBVIOUS
  <2>2. c \in Client
    <3>1. backlog \in Seq(Client) /\ backlog # <<>>
      BY <1>1, <1>3 DEF AcceptClient, Types
    <3> QED BY <2>1, <3>1
  <2>3. /\ UNCHANGED <<quit, up, local, want, rest, gone, inbox, stream, unread>> /\ loop' = "test"
        /\ link' = [link EXCEPT ![c] = "open"]
        /\ history' = history \/ history' = [history EXCEPT !.punctual = @ \cup {c}]
    BY <1>3, <2>1 DEF AcceptClient, Start
  <2>4. history' \in History
    <3>1. history \in History
      BY DEF OwnTypes
    <3>2. [history EXCEPT !.punctual = history.punctual \cup {c}] \in History
      BY <2>2, <3>1 DEF History
    <3> QED BY <2>3, <3>1, <3>2
  <2>5. \A d \in Client \ gone' : Remains(d)'
    BY <2>3, SameRemains
  <2> QED BY <2>3, <2>4, <2>5 DEF OwnTypes
<1>4. CASE AcceptNothing \/ AcceptTimesOut
  <2>1. /\ UNCHANGED <<quit, up, local, link, want, rest, gone, inbox, stream, unread, history>>
        /\ loop' = "test"
    BY <1>4 DEF AcceptNothing, AcceptTimesOut, Start, threads, peers
  <2>2. \A d \in Client \ gone' : Remains(d)'
    BY <2>1, SameRemains
  <2> QED BY <2>1, <2>2 DEF OwnTypes
<1>5. CASE Exit
  <2>1. PICK S : Die(S) /\ UNCHANGED <<loop, quit>>
    BY <1>5 DEF Exit
  <2> QED BY <2>1, DieOwn DEF OwnTypes
<1> QED BY <1>2, <1>3, <1>4, <1>5 DEF Loop

LEMMA StepOwn ==
    ASSUME ReadingsAreTexts, AllInv, StreamInv', [Next]_vars
    PROVE  OwnTypes'
<1>1. CASE UNCHANGED vars
  <2>1. UNCHANGED <<loop, quit, up, local, link, want, rest, gone, inbox, stream, unread, history>>
    BY <1>1 DEF vars, server, threads, peers
  <2>2. \A d \in Client \ gone' : Remains(d)'
    BY <2>1, SameRemains DEF AllInv
  <2> QED BY <2>1, <2>2 DEF AllInv, OwnTypes
<1>2. CASE \E c \in Client : Connect(c) \/ Send(c) \/ Receive(c) \/ Leave(c)
  BY <1>2, ClientOwn
<1>3. CASE Loop
  BY <1>3, LoopOwn
<1>4. CASE \E t \in Thread : Step(t)
  <2>1. PICK t \in Thread : Step(t)
    BY <1>4
  <2>2. CASE ReadLine(t) \/ ReadHeaders(t) \/ ReadPayload(t)
    BY <2>2, ReadOwn
  <2>3. CASE \/ NoLine(t) \/ NoHeaders(t) \/ Route(t) \/ BadLength(t) \/ NoPayload(t)
             \/ ReadChunk(t) \/ EndFile(t)
    BY <2>3, QuietOwn
  <2>4. CASE SendHead(t) \/ PushChunk(t) \/ SendAnswer(t)
    BY <2>4, SendOwn
  <2>5. CASE Refuse(t) \/ DeleteClient(t)
    BY <2>5, EndOwn
  <2>6. CASE Crash(t)
    <3>1. PICK S : Die(S) /\ loop' = "left" /\ UNCHANGED quit
      BY <2>6 DEF Crash
    <3> QED BY <3>1, DieOwn
  <2> QED BY <2>1, <2>2, <2>3, <2>4, <2>5, <2>6, Zenon DEF Step
<1> QED BY <1>1, <1>2, <1>3, <1>4, Zenon DEF Next, Ended

\* Every reachable state has the declared types, for any number of clients, threads and
\* descriptors: in particular the kernel never keeps more than Room pieces for a client,
\* no thread without a client sends, and what is left of a request whose client has not
\* left is the end of its text.  Of json.hpp it is assumed that a field is a text.
THEOREM TypeCorrect ==
    ASSUME ReadingsAreTexts
    PROVE  Safety => []TypeOK
<1>1. Init => AllInv
  BY InitInv, InitStream, InitInput, InitOwn DEF AllInv
<1>2. AllInv /\ [Next]_vars => AllInv'
  BY StepInv, StepStream, StepInput, StepOwn DEF AllInv
<1>3. AllInv => TypeOK
  BY TypesAll
<1> QED BY <1>1, <1>2, <1>3, PTL DEF Safety
=============================================================================
