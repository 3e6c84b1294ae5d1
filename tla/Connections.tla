---------------------------- MODULE Connections ----------------------------
(***************************************************************************)
(* The connections of HttpServer (src/server.hpp) over the sockets of      *)
(* src/include/network/tcpsocket.hpp: the accept loop of run, the thread   *)
(* it starts for every client, which reads the request, has it handled,    *)
(* sends the answer and deletes the client, and stop, which scripts call.  *)
(* Of the handlers, those that use the client: the ones that read a        *)
(* payload, and getFile, which sends a big file in chunks.                 *)
(*                                                                         *)
(* What travels on a connection is a sequence of pieces.  A request is a   *)
(* line, "good" or "bad", its "headers" with the empty line that ends them,*)
(* and the two parts of a payload; an answer is one piece, a big file a    *)
(* head and its Size units.  A piece arrives whole or not yet.  What a     *)
(* handler reads of the payload it has received is what Json finds in it.  *)
(***************************************************************************)
EXTENDS Integers, FiniteSets, Sequences, SequencesExt, Json

CONSTANTS
    Client,        \* the connections clients make
    Nobody,        \* no client
    Thread,        \* bound: the threads that run at a time
    Descriptor,    \* the file descriptors left for clients
    NoHandle,      \* -1, which accept returns when there is none
    Want,          \* the requests clients send
    Size,          \* the units of a big file
    Chunk,         \* max_chunk_size, in units
    Room           \* the pieces the kernel keeps for a client that does not read

VARIABLES
    \* The server:
    loop,          \* the accept loop: at its "test", in accept ("wait"), or "left"
    quit,          \* the flag stop sets
    up,            \* the process runs
    backlog,       \* the connections accept has not taken, oldest first
    owner,         \* the client at the other end of each open descriptor
    pc,            \* what each thread does
    handle,        \* the descriptor in each thread's tcpclient
    local,         \* the other locals of each thread
    \* The clients:
    link,          \* the state of each client's connection
    want,          \* its request
    rest,          \* the pieces it has yet to send
    inbox,         \* the pieces that have arrived and are not read
    gone,          \* the clients that have closed their end
    stream,        \* the pieces the server has sent, until the connection is cut
    unread,        \* how many of them the client has not taken
    \* History, which no action of the server reads:
    client,        \* the client each thread was started for
    history        \* what went wrong or right on the way, by client

server == <<loop, quit, up, backlog>>
threads == <<pc, handle, local, client>>
peers == <<link, want, rest, gone>>
vars == <<server, owner, threads, peers, inbox, stream, unread, history>>

\* The body of a request of each kind, and its text.
Body(w) == IF w.op = "payload" THEN <<"part1", "part2">> ELSE <<>>

Text(w) == <<w.line, "headers">> \o Body(w)

\* length is the Content-Length, in pieces; a negative one makes recv throw.  A
\* payload has these fields, and its text is cut behind split.
Wanted == [line : {"good", "bad"}, op : {"payload", "file", "stop", "other"}, length : Int,
           fields : Seq([key : Seq(STRING), value : Seq(STRING)]), split : Nat]

\* The request of a client without a connection.
NoWant == [line |-> "bad", op |-> "other", length |-> 0, fields |-> <<>>, split |-> 0]

\* What recv may return.  The one piece "nul" stands for any number of NULs.
Payload == {<<>>, <<"nul">>, <<"part1">>, <<"part2">>, <<"part1", "part2">>}

\* Its text.
Received(w, payload) ==
    LET text == Stringify(w.fields)
        part == [part1 |-> SubSeq(text, 1, w.split), part2 |-> SubSeq(text, w.split + 1, Len(text)),
                 nul |-> <<"NUL">>]
    IN FlattenSeq([i \in DOMAIN payload |-> part[payload[i]]])

Values(w) == [i \in DOMAIN w.fields |-> w.fields[i].value]

Nothing(w) == [i \in DOMAIN w.fields |-> <<>>]

\* What the parser makes of it.
Parsed == [w \in Want, payload \in Payload |-> parse(Received(w, payload))]

\* What a handler may read of a payload, field by field.  When the parser has read
\* past the end, any of the fields may be missing.
Readings(w, payload) ==
    LET data == Parsed[w, payload]
    IN IF data = Undefined
       THEN {[i \in DOMAIN w.fields |-> IF i \in found THEN w.fields[i].value ELSE <<>>] :
                found \in SUBSET DOMAIN w.fields}
       ELSE {[i \in DOMAIN w.fields |-> Field(data, w.fields[i].key)]}

ASSUME WantAssumption == Want \subseteq Wanted

ASSUME SizeAssumption ==
    /\ Chunk \in Nat \ {0} /\ Size \in Nat /\ Size >= Chunk
    /\ Room \in Nat \ {0}

ASSUME NobodyAssumption == Nobody \notin Client /\ NoHandle \notin Descriptor

\* The pieces of an answer: a big file's head, its units 1 .. Size, the zeros
\* its buffer starts with, and every other answer.
FileHead == -1
Reply == -2
Unit == 0 .. Size
Piece == Unit \cup {FileHead, Reply}

Label == {"idle", "line", "headers", "route", "recv", "head", "read", "push", "answer", "delete"}

Local == [good : BOOLEAN, length : Int, payload : Payload,
          read : Seq(Seq(STRING)), sent : Nat, buffer : [1 .. Chunk -> Unit], off : 0 .. Chunk]

Fresh == [good |-> FALSE, length |-> 0, payload |-> <<>>, read |-> <<>>,
          sent |-> 0, buffer |-> [i \in 1 .. Chunk |-> 0], off |-> 0]

\* punctual: the request and its payload had arrived when the thread was started;
\* stalled: it ended or paused for 30 s before its line was read; cut: the client
\* left, or a send gave up.
History == [punctual : SUBSET Client, stalled : SUBSET Client, cut : SUBSET Client]

TypeOK ==
    /\ loop \in {"test", "wait", "left"} /\ quit \in BOOLEAN /\ up \in BOOLEAN
    /\ backlog \in Seq(Client)
    /\ owner \in [Descriptor -> Client \cup {Nobody}]
    /\ pc \in [Thread -> Label]
    /\ handle \in [Thread -> Descriptor \cup {NoHandle}]
    /\ local \in [Thread -> Local]
    /\ link \in [Client -> {"new", "waiting", "open", "closed"}]
    /\ want \in [Client -> Wanted]
    /\ \A c \in Client \ gone : IsSuffix(inbox[c] \o rest[c], Text(want[c]))
    /\ gone \subseteq Client
    /\ \A c \in Client : stream[c] \in Seq(Piece)
    /\ \A c \in Client : unread[c] \in 0 .. Room
    /\ client \in [Thread -> Client \cup {Nobody}]
    /\ history \in History

Init ==
    /\ loop = "test" /\ quit = FALSE /\ up = TRUE
    /\ backlog = <<>>
    /\ owner = [d \in Descriptor |-> Nobody]
    /\ pc = [t \in Thread |-> "idle"]
    /\ handle = [t \in Thread |-> NoHandle]
    /\ local = [t \in Thread |-> Fresh]
    /\ link = [c \in Client |-> "new"]
    /\ want = [c \in Client |-> NoWant]
    /\ rest = [c \in Client |-> <<>>]
    /\ inbox = [c \in Client |-> <<>>]
    /\ gone = {}
    /\ stream = [c \in Client |-> <<>>]
    /\ unread = [c \in Client |-> 0]
    /\ client = [t \in Thread |-> Nobody]
    /\ history = [punctual |-> {}, stalled |-> {}, cut |-> {}]

-----------------------------------------------------------------------------
(* The clients, and the network.                                           *)

\* The connections of these clients are closed: nothing of them is left.
Close(clients) ==
    /\ link' = [c \in Client |-> IF c \in clients THEN "closed" ELSE link[c]]
    /\ rest' = [c \in Client |-> IF c \in clients THEN <<>> ELSE rest[c]]
    /\ inbox' = [c \in Client |-> IF c \in clients THEN <<>> ELSE inbox[c]]
    /\ stream' = [c \in Client |-> IF c \in clients THEN <<>> ELSE stream[c]]
    /\ unread' = [c \in Client |-> IF c \in clients THEN 0 ELSE unread[c]]
    /\ gone' = gone \ clients
    /\ want' = [c \in Client |-> IF c \in clients THEN NoWant ELSE want[c]]
    /\ history' = [h \in DOMAIN history |-> history[h] \ clients]

Connect(c) ==
    /\ link[c] = "new" /\ loop # "left"
    /\ link' = [link EXCEPT ![c] = "waiting"]
    /\ backlog' = Append(backlog, c)
    /\ \E w \in Want :
        /\ want' = [want EXCEPT ![c] = w]
        /\ rest' = [rest EXCEPT ![c] = Text(w)]
    /\ UNCHANGED <<loop, quit, up, owner, threads, gone, inbox, stream, unread, history>>

Connected(c) == link[c] \in {"waiting", "open"} /\ c \notin gone

\* The next pieces of the request arrive, one or more at a time.
Send(c) ==
    /\ Connected(c)
    /\ \E n \in 1 .. Len(rest[c]) :
        /\ inbox' = [inbox EXCEPT ![c] = @ \o SubSeq(rest[c], 1, n)]
        /\ rest' = [rest EXCEPT ![c] = SubSeq(@, n + 1, Len(@))]
    /\ UNCHANGED <<server, owner, threads, link, want, gone, stream, unread, history>>

\* The client takes what was sent to it.
Receive(c) ==
    /\ Connected(c) /\ unread[c] > 0
    /\ unread' = [unread EXCEPT ![c] = 0]
    /\ UNCHANGED <<server, owner, threads, peers, inbox, stream, history>>

\* The client closes its end; a reset also loses what had arrived.
Leave(c) ==
    /\ Connected(c)
    /\ gone' = gone \cup {c}
    /\ rest' = [rest EXCEPT ![c] = <<>>]
    /\ inbox' \in {inbox, [inbox EXCEPT ![c] = <<>>]}
    /\ stream' = [stream EXCEPT ![c] = <<>>]
    /\ unread' = [unread EXCEPT ![c] = 0]
    /\ history' = [history EXCEPT !.cut = @ \cup {c}]
    /\ UNCHANGED <<server, owner, threads, link, want>>

-----------------------------------------------------------------------------
(* The accept loop.                                                        *)

\* A mutated form of LoopTest: the flag is not looked at again.
LoopForever ==
    /\ loop = "test" /\ up
    /\ loop' = "wait"
    /\ UNCHANGED <<quit, up, backlog, owner, threads, peers, inbox, stream, unread, history>>

\* run tests quit; at the end it deletes the listening socket, which resets the
\* connections that nobody accepted.
LoopTest ==
    /\ loop = "test" /\ up
    /\ \/ ~quit /\ loop' = "wait" /\ UNCHANGED <<backlog, peers, inbox, stream, unread, history>>
       \/ quit /\ loop' = "left" /\ backlog' = <<>> /\ Close(ToSet(backlog))
    /\ UNCHANGED <<quit, up, owner, threads>>

Free == {d \in Descriptor : owner[d] = Nobody}

\* The kernel hands out the lowest free descriptor.  Threads are not told apart:
\* the next one takes the first name that is free.
FreeDescriptor == CHOOSE d \in Free : TRUE

IdleThread == CHOOSE t \in Thread : pc[t] = "idle"

\* run starts a thread for client c, with the descriptor h.
Start(c, h) ==
    /\ \E t \in Thread : pc[t] = "idle"
    /\ pc' = [pc EXCEPT ![IdleThread] = "line"]
    /\ handle' = [handle EXCEPT ![IdleThread] = h]
    /\ client' = [client EXCEPT ![IdleThread] = c]
    /\ UNCHANGED local

\* accept returns the oldest connection.
AcceptClient ==
    /\ loop = "wait" /\ backlog # <<>> /\ Free # {}
    /\ LET c == Head(backlog) IN
        /\ Start(c, FreeDescriptor)
        /\ owner' = [owner EXCEPT ![FreeDescriptor] = c]
        /\ link' = [link EXCEPT ![c] = "open"]
        /\ history' = IF rest[c] = <<>> /\ want[c].op = "payload"
                      THEN [history EXCEPT !.punctual = @ \cup {c}] ELSE history
    /\ backlog' = Tail(backlog)
    /\ loop' = "test"
    /\ UNCHANGED <<quit, up, want, rest, gone, inbox, stream, unread>>

\* With no descriptor left accept returns -1 and takes nothing; run makes a
\* client of it all the same, and starts a thread.
AcceptNothing ==
    /\ loop = "wait" /\ backlog # <<>> /\ Free = {}
    /\ Start(Nobody, NoHandle)
    /\ loop' = "test"
    /\ UNCHANGED <<quit, up, backlog, owner, peers, inbox, stream, unread, history>>

\* accept gives up after 1 s.
AcceptTimesOut ==
    /\ loop = "wait" /\ backlog = <<>>
    /\ loop' = "test"
    /\ UNCHANGED <<quit, up, backlog, owner, threads, peers, inbox, stream, unread, history>>

\* The process ends, with all its threads; these are its connections.
Die(clients) ==
    /\ up' = FALSE
    /\ pc' = [t \in Thread |-> "idle"]
    /\ handle' = [t \in Thread |-> NoHandle]
    /\ local' = [t \in Thread |-> Fresh]
    /\ client' = [t \in Thread |-> Nobody]
    /\ owner' = [d \in Descriptor |-> Nobody]
    /\ Close(clients)

\* run has returned, and main returns.
Exit ==
    /\ loop = "left" /\ up
    /\ Die({c \in Client : link[c] = "open"})
    /\ UNCHANGED <<loop, quit, backlog>>

-----------------------------------------------------------------------------
(* The threads.                                                            *)

At(t, label) == up /\ pc[t] = label

Goto(t, label) == pc' = [pc EXCEPT ![t] = label]

\* The client that the thread's descriptor leads to.
Peer(t) == IF handle[t] = NoHandle THEN Nobody ELSE owner[handle[t]]

\* There is something for ::recv to return.
Arrived(t) == Peer(t) # Nobody /\ inbox[Peer(t)] # <<>>

First(t) == inbox[Peer(t)][1]

Take(t, n) == inbox' = [inbox EXCEPT ![Peer(t)] = SubSeq(@, n + 1, Len(@))]

\* recvRequest: method, url and version.
ReadLine(t) ==
    /\ At(t, "line") /\ Arrived(t)
    /\ local' = [local EXCEPT ![t].good = (First(t) = "good")]
    /\ Take(t, 1)
    /\ Goto(t, "headers")
    /\ UNCHANGED <<server, owner, handle, client, peers, stream, unread, history>>

\* A mutated form of NoLine: recvline reads again until something comes.
LineAgain(t) ==
    /\ At(t, "line") /\ ~Arrived(t)
    /\ UNCHANGED vars

\* The line does not come: 30 s pass, the client left, or there is no socket.
\* recvline returns what it has, which is no method or no version.
NoLine(t) ==
    /\ At(t, "line") /\ ~Arrived(t)
    /\ history' = IF Peer(t) = Nobody THEN history ELSE [history EXCEPT !.stalled = @ \cup {Peer(t)}]
    /\ Goto(t, "headers")
    /\ UNCHANGED <<server, owner, handle, local, client, peers, inbox, stream, unread>>

\* A mutated form of HeadersRead: the loop reads one more line before it looks.
HeadersAndMore(t) == IF Len(inbox[Peer(t)]) > 1 THEN 2 ELSE 1

\* How many pieces recvRequest has read when it has read the headers.
HeadersRead(t) == 1

\* recvRequest reads header lines until one has less than three characters.  A
\* line that came too late to be the first is read as one.
ReadHeaders(t) ==
    /\ At(t, "headers") /\ Arrived(t)
    /\ IF First(t) = "headers"
       THEN /\ local' = [local EXCEPT ![t].length = want[Peer(t)].length]
            /\ Take(t, HeadersRead(t))
            /\ Goto(t, "route")
       ELSE Take(t, 1) /\ UNCHANGED <<local, pc>>
    /\ UNCHANGED <<server, owner, handle, client, peers, stream, unread, history>>

\* A mutated form of NoHeaders: an empty line that recvline returns for none is skipped.
HeadersAgain(t) ==
    /\ At(t, "headers") /\ ~Arrived(t)
    /\ UNCHANGED vars

\* No line comes: the empty line recvline returns then ends the headers, too.
NoHeaders(t) ==
    /\ At(t, "headers") /\ ~Arrived(t)
    /\ Goto(t, "route")
    /\ UNCHANGED <<server, owner, handle, local, client, peers, inbox, stream, unread, history>>

\* The thread ends.
Finish(t) ==
    /\ pc' = [pc EXCEPT ![t] = "idle"]
    /\ handle' = [handle EXCEPT ![t] = NoHandle]
    /\ local' = [local EXCEPT ![t] = Fresh]
    /\ client' = [client EXCEPT ![t] = Nobody]

\* A request that is not HTTP/1.1: the thread returns before "delete client".
Refuse(t) ==
    /\ At(t, "route") /\ ~local[t].good
    /\ Finish(t)
    /\ UNCHANGED <<server, owner, peers, inbox, stream, unread, history>>

\* handleClient calls the plugin; what it does without the client is done here.
\* A script may call stop.
Route(t) ==
    /\ At(t, "route") /\ local[t].good
    /\ \/ want[Peer(t)].op = "payload" /\ Goto(t, "recv") /\ UNCHANGED quit
       \/ want[Peer(t)].op = "file" /\ Goto(t, "head") /\ UNCHANGED quit
       \/ want[Peer(t)].op = "stop" /\ Goto(t, "answer") /\ quit' = TRUE
       \/ want[Peer(t)].op = "other" /\ Goto(t, "answer") /\ UNCHANGED quit
    /\ UNCHANGED <<loop, up, backlog, owner, handle, local, client, peers, inbox, stream, unread, history>>

\* The handler parses the payload and reads its fields.
SetPayload(t, payload) ==
    \E read \in Readings(want[Peer(t)], payload) :
        local' = [local EXCEPT ![t].payload = payload, ![t].read = read]

\* recv(size) is one ::recv: it returns what has arrived, up to size.
Ready(t) == IF local[t].length < Len(inbox[Peer(t)]) THEN local[t].length ELSE Len(inbox[Peer(t)])

ReadPayload(t) ==
    /\ At(t, "recv") /\ local[t].length > 0 /\ Arrived(t)
    /\ SetPayload(t, SubSeq(inbox[Peer(t)], 1, Ready(t)))
    /\ Take(t, Ready(t))
    /\ Goto(t, "answer")
    /\ UNCHANGED <<server, owner, handle, client, peers, stream, unread, history>>

\* The parser reads past the end of what has arrived.
ReadsOn(t) == Parsed[want[Peer(t)], SubSeq(inbox[Peer(t)], 1, Ready(t))] = Undefined

\* There may be memory the process does not have.
Crash(t) ==
    /\ At(t, "recv") /\ local[t].length > 0 /\ Arrived(t) /\ ReadsOn(t)
    /\ Die({c \in Client : link[c] \in {"waiting", "open"}})
    /\ loop' = "left" /\ backlog' = <<>> /\ UNCHANGED quit

\* Nothing arrives: after 30 s ::recv returns -1, which is no size to cut the
\* buffer to, so that its NULs stay; at the end of the stream it returns 0.
NoPayload(t) ==
    /\ At(t, "recv") /\ local[t].length > 0 /\ ~Arrived(t)
    /\ \/ Peer(t) \notin gone /\ SetPayload(t, <<"nul">>)
       \/ Peer(t) \in gone /\ SetPayload(t, <<>>)
    /\ Goto(t, "answer")
    /\ UNCHANGED <<server, owner, handle, client, peers, inbox, stream, unread, history>>

\* A mutated form of BadLength: the exception leaves the thread's try, and "delete
\* client" with it.
ThreadThrows(t) ==
    /\ At(t, "recv") /\ local[t].length <= 0
    /\ Finish(t)
    /\ UNCHANGED <<server, owner, peers, inbox, stream, unread, history>>

\* Without a length nothing is read; a negative one is no size of a string:
\* handleClient catches the exception and answers with 500.
BadLength(t) ==
    /\ At(t, "recv") /\ local[t].length <= 0
    /\ IF local[t].length = 0 THEN SetPayload(t, <<>>) ELSE UNCHANGED local
    /\ Goto(t, "answer")
    /\ UNCHANGED <<server, owner, handle, client, peers, inbox, stream, unread, history>>

\* The kernel takes pieces for which it has room; what it takes for a client that
\* has left is lost.  The stream ends where the first send gives up.
SendPieces(t, pieces) ==
    /\ stream' = IF Peer(t) \in history.cut THEN stream
                 ELSE [stream EXCEPT ![Peer(t)] = @ \o pieces]
    /\ unread' = IF Peer(t) \in gone THEN unread
                 ELSE [unread EXCEPT ![Peer(t)] = @ + Len(pieces)]

RoomFor(t) == IF Peer(t) = Nobody THEN 0 ELSE Room - unread[Peer(t)]

\* ::send gives up after 30 s without room, or at once when the client has left.
SendFails(t) ==
    /\ RoomFor(t) = 0 \/ Peer(t) \in gone
    /\ history' = [history EXCEPT !.cut = @ \cup {Peer(t)}]
    /\ stream' = [stream EXCEPT ![Peer(t)] = <<>>]
    /\ UNCHANGED unread

\* getFile sends the head, with the size of the file as Content-Length.
SendHead(t) ==
    /\ At(t, "head")
    /\ \/ RoomFor(t) > 0 /\ SendPieces(t, <<FileHead>>) /\ UNCHANGED history
       \/ SendFails(t)
    /\ Goto(t, "read")
    /\ UNCHANGED <<server, owner, handle, local, client, peers, inbox>>

\* A mutated form of ChunkOf: the file is not rewound after its size was taken.
ChunkAtEnd(t) == local[t].buffer

\* f.read puts the next units of the file into the buffer; behind the last one the
\* buffer keeps what it held.
ChunkOf(t) ==
    [i \in 1 .. Chunk |-> IF local[t].sent + i <= Size THEN local[t].sent + i ELSE local[t].buffer[i]]

\* getFile reads the next chunk.
ReadChunk(t) ==
    /\ At(t, "read") /\ local[t].sent < Size
    /\ local' = [local EXCEPT ![t].buffer = ChunkOf(t), ![t].off = 0]
    /\ Goto(t, "push")
    /\ UNCHANGED <<server, owner, handle, client, peers, inbox, stream, unread, history>>

\* getFile returns null, of which constructHttpResponse makes an empty answer.
EndFile(t) ==
    /\ At(t, "read") /\ local[t].sent >= Size
    /\ Goto(t, "delete")
    /\ UNCHANGED <<server, owner, handle, local, client, peers, inbox, stream, unread, history>>

\* The kernel takes what it has room for of the chunk, which is sent when all is.
PushSome(t) ==
    /\ RoomFor(t) > 0
    /\ LET left == SubSeq(local[t].buffer, local[t].off + 1, Chunk)
           n == IF Len(left) < RoomFor(t) THEN Len(left) ELSE RoomFor(t)
       IN /\ SendPieces(t, SubSeq(left, 1, n))
          /\ IF n = Len(left)
             THEN /\ local' = [local EXCEPT ![t].sent = @ + Chunk, ![t].off = 0]
                  /\ Goto(t, "read")
             ELSE local' = [local EXCEPT ![t].off = @ + n] /\ UNCHANGED pc
    /\ UNCHANGED history

\* A mutated form of PushFails: what ::send returned, -1, is added to sent as it is.
PushBack(t) ==
    /\ SendFails(t)
    /\ local' = [local EXCEPT ![t].sent = @ - 1, ![t].off = 0]
    /\ Goto(t, "read")

\* The rest of the chunk is lost; getFile counts all of it as sent.
PushFails(t) ==
    /\ SendFails(t)
    /\ local' = [local EXCEPT ![t].sent = @ + Chunk, ![t].off = 0]
    /\ Goto(t, "read")

\* getFile sends the chunk.
PushChunk(t) ==
    /\ At(t, "push")
    /\ PushSome(t) \/ PushFails(t)
    /\ UNCHANGED <<server, owner, handle, client, peers, inbox>>

\* disconnect shuts the socket down and closes the descriptor, but keeps its number.
Disconnect(t) ==
    IF handle[t] = NoHandle THEN UNCHANGED <<owner, peers, inbox, stream, unread, history>>
    ELSE owner' = [owner EXCEPT ![handle[t]] = Nobody] /\ Close({Peer(t)})

\* A mutated form of SendAnswer: a send that fails disconnects the client, which
\* "delete client" then does again.
AnswerOrDisconnect(t) ==
    /\ At(t, "answer")
    /\ \/ /\ RoomFor(t) > 0 /\ SendPieces(t, <<Reply>>)
          /\ UNCHANGED <<owner, peers, inbox, history>>
       \/ (RoomFor(t) = 0 \/ Peer(t) \in gone) /\ Disconnect(t)
    /\ Goto(t, "delete")
    /\ UNCHANGED <<server, handle, local, client>>

\* run sends the answer.
SendAnswer(t) ==
    /\ At(t, "answer")
    /\ \/ RoomFor(t) > 0 /\ SendPieces(t, <<Reply>>) /\ UNCHANGED history
       \/ SendFails(t)
    /\ Goto(t, "delete")
    /\ UNCHANGED <<server, owner, handle, local, client, peers, inbox>>

\* "delete client", and the thread ends.
DeleteClient(t) ==
    /\ At(t, "delete")
    /\ Disconnect(t)
    /\ Finish(t)
    /\ UNCHANGED server

Step(t) ==
    \/ ReadLine(t) \/ NoLine(t)
    \/ ReadHeaders(t) \/ NoHeaders(t)
    \/ Refuse(t) \/ Route(t)
    \/ ReadPayload(t) \/ Crash(t) \/ NoPayload(t) \/ BadLength(t)
    \/ SendHead(t) \/ ReadChunk(t) \/ PushChunk(t) \/ EndFile(t)
    \/ SendAnswer(t) \/ DeleteClient(t)

Loop == LoopTest \/ AcceptClient \/ AcceptNothing \/ AcceptTimesOut \/ Exit

\* The server has ended, and nothing happens any more.
Ended == ~up /\ UNCHANGED vars

Next ==
    \/ \E c \in Client : Connect(c) \/ Send(c) \/ Receive(c) \/ Leave(c)
    \/ Loop
    \/ \E t \in Thread : Step(t)
    \/ Ended

\* Without fairness, for what never happens.
Safety == Init /\ [][Next]_vars

\* The kernel schedules the threads, and its timeouts end their waiting; nothing
\* makes a client do anything.
Spec == Safety /\ WF_vars(Loop) /\ \A t \in Thread : WF_vars(Step(t))

-----------------------------------------------------------------------------
(* Safety.                                                                 *)

\* The socket a thread reads from, answers on and closes is the one of the client
\* it was started for: no descriptor is closed early, or twice, so that accept
\* could give it to another client meanwhile.
OwnSocket ==
    /\ \A t \in Thread : handle[t] # NoHandle => owner[handle[t]] = client[t] /\ client[t] # Nobody
    /\ \A t, u \in Thread : handle[t] = handle[u] /\ handle[t] # NoHandle => t = u

Served(d) == \E t \in Thread : handle[t] = d

\* Only a request that is not HTTP/1.1, or did not come in time to be known as
\* such, leaves its descriptor open for good: run closes every other one.
LeaksOnlyRefused ==
    \A d \in Descriptor : owner[d] # Nobody /\ ~Served(d) =>
        want[owner[d]].line = "bad" \/ owner[d] \in history.stalled

\* What toString returns of a field, or of none, is a text.
ReadingsAreTexts ==
    \A w \in Want, payload \in Payload : Readings(w, payload) \subseteq Seq(Seq(STRING))

Brace == "}"

\* Of the characters in w's values, none is one of these.
Without(w, characters) == \A i \in DOMAIN w.fields : ToSet(w.fields[i].value) \cap characters = {}

\* The parser of json.hpp undoes what the client's printer did, unless a value holds a
\* quote or a backslash: deflate leaves the backslash that was put before it.
ParserUndoesPrinter ==
    \A w \in Want : w.op = "payload" /\ Without(w, {Quote, Backslash}) =>
        Readings(w, Body(w)) = {Values(w)}

\* Of a payload that is cut the parser makes null, since it does not end in a brace.
\* Unless a value holds such a brace, behind which it may be cut, too.
CutsReadAsNothing ==
    \A w \in Want : w.op = "payload" /\ Without(w, {Quote, Backslash, Brace}) =>
        \A payload \in {<<"nul">>, <<"part1">>} : Readings(w, payload) \subseteq {Values(w), Nothing(w)}

\* A payload that had arrived with the request before the server looked reaches
\* its handler as it was written: recvRequest leaves all of it, one recv returns it,
\* and the parser undoes what the client's printer did, where it can.
PunctualPayloadWhole ==
    \A t \in Thread :
        LET w == want[client[t]]
        IN (/\ pc[t] = "answer" /\ client[t] \in history.punctual \ gone
            /\ w.op = "payload" /\ w.length = Len(Body(w)) /\ Without(w, {Quote, Backslash}))
           => local[t].read = Values(w)

\* A handler never acts on a part of its payload: of one that is cut on the way, or does
\* not come, it reads all fields or none, where the parser notices the cut.
WholeOrNothing ==
    \A t \in Thread :
        LET w == want[client[t]]
        IN (/\ pc[t] = "answer" /\ local[t].payload # <<>>
            /\ w.op = "payload" /\ Without(w, {Quote, Backslash, Brace}))
           => local[t].read \in {Values(w), Nothing(w)}

\* What a client of getFile is sent: the head and the units of the file, in order,
\* and when the connection is to be closed all of them.  The padding of the last
\* chunk comes behind them.  Unless a send gave up.
TransferInOrder ==
    \A c \in Client : want[c].op = "file" /\ c \notin history.cut /\ stream[c] # <<>> =>
        /\ \A i \in 1 .. Len(stream[c]) : i <= Size + 1 =>
                stream[c][i] = IF i = 1 THEN FileHead ELSE i - 1
        /\ \A t \in Thread : pc[t] = "delete" /\ client[t] = c => Len(stream[c]) >= Size + 1

-----------------------------------------------------------------------------
(* Liveness.                                                               *)

\* Every thread ends, whatever its client does, sends or leaves out: also one that
\* sends a file to a client that does not read.
ThreadsEnd == \A t \in Thread : []<>(pc[t] = "idle")

AllLeaked == \A d \in Descriptor : owner[d] # Nobody /\ ~Served(d)

\* A client that has connected is accepted, or turned away when the server stops,
\* unless refused requests have used up all descriptors.
WaitingAccepted == \A c \in Client : []<>(link[c] # "waiting" \/ AllLeaked)

\* stop ends the loop and the process.
StopEnds == []<>(quit => ~up)
=============================================================================
