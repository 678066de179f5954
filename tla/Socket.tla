------------------------------ MODULE Socket ------------------------------
(* The line protocol over the daemon's socket: SocketServer                 *)
(* (src/bin/daemon/socketserver.cpp), the clients that call and wait        *)
(* (src/lib/socketclient.cpp) and the AsyncSocketClients of one process     *)
(* (src/lib/asyncsocketclient.cpp, asyncsocket.cpp), which share its table  *)
(* of descriptors.                                                          *)
(*                                                                          *)
(* What travels is a sequence of lines, "" being the empty line that ends a *)
(* request and a response.  Of a line the model keeps what a program looks  *)
(* at: the name of a method, a directory, whether a line of a hit has a     *)
(* ':' before any '/'.                                                      *)
EXTENDS Integers, Sequences, FiniteSets

S == INSTANCE SequencesExt

CONSTANTS Sync, Async,     \* SocketClients, AsyncSocketClients
          Calls,           \* the requests clients make, each a sequence of lines
          HitLists,        \* what a query can find: sequences of [uri, props]
          None,
          Buffer,          \* the lines a connection holds that nobody read
          Garbage,         \* the numbers in an AsyncSocket that was never opened
          MaxConn, MaxFd   \* bounds: connections in all, descriptors of the process

Client == Sync \cup Async
Conn   == 1..MaxConn
Fd     == 1..MaxFd

\* A number in an AsyncSocket that no descriptor of the process has is as good as
\* None.  A directory has a name: an empty line would end the request it is in.
\* The server answers with no empty line: it puts " " for an URI that has none.
ASSUME SocketAssumption ==
    /\ Sync \cap Async = {}
    /\ MaxConn \in Nat /\ MaxFd \in Nat /\ Buffer \in Nat
    /\ None \notin Conn \cup Fd /\ Garbage \subseteq Fd \cup {None}
    /\ \A r \in Calls : /\ r \in Seq(STRING)
                        /\ r # <<>> /\ r[1] = "setIndexedDirectories" => "" \notin S!ToSet(r)
    /\ \A hs \in HitLists : hs \in Seq([uri : STRING \ {""}, props : Nat])

VARIABLES
    conns,      \* the connections
    backlog,    \* those that wait for accept()
    serving, request, response, server, \* SocketServer: the connection, its locals, where it is
    indexed, setBy, \* the directories the interface was told to index, and the call that asked for them
    calling,    \* the request a client last made
    state,      \* SocketClient: idle, send, read; AsyncSocket: its status; gone
    conn,       \* the connection of a SocketClient
    got,        \* response
    returned,   \* for the properties: what the call gave that returned in the last step
    fd, fds,    \* AsyncSocket::socket; the descriptors of the process
    stray       \* for the properties: a client closed the descriptor of another

serverVars == <<serving, request, response, server, indexed, setBy>>
clientVars == <<calling, state, conn, got>>
fdVars     == <<fd, fds, stray>>
vars       == <<conns, backlog, serverVars, clientVars, fdVars, returned>>

--------------------------------------------------------------------------
(* Requests, responses and their lines *)

HitLines(h)   == <<h.uri, "fragment", "mimetype", "score", "size", "mtime">>
                 \o [i \in 1..h.props |-> "name:value"]
QueryLines(hs) == S!FlattenSeq([i \in 1..Len(hs) |-> HitLines(hs[i])])

\* Lines with a ':' that no '/' comes before: properties, and URIs like "http://...".
HasColon(line) == line \in {"name:value", "scheme://"}

\* handleQueryResponse() and getHits(): six lines and the properties that
\* follow, as long as more than six lines are left.
\* A slip: one line too few is left for the last hit.
AnotherHitOneShort(i, n) == i + 7 < n
AnotherHit(i, n) == i + 6 < n
ParseHits(lines) ==
    LET n == Len(lines)
        props(i) == CHOOSE k \in 0..n : /\ \A j \in i + 1..i + k : j <= n /\ HasColon(lines[j])
                                        /\ i + k + 1 > n \/ ~HasColon(lines[i + k + 1])
        hits[i \in 0..n] ==
            IF AnotherHit(i, n)
            THEN LET k == props(i + 6)
                 IN  <<[uri |-> lines[i + 1], props |-> k]>> \o hits[i + 6 + k]
            ELSE <<>>
    IN  hits[0]

--------------------------------------------------------------------------
(* Connections *)

Free == [c2s |-> <<>>, s2c |-> <<>>, client |-> FALSE, server |-> FALSE]

Sent(cs, c, lines) == [cs EXCEPT ![c].c2s = @ \o lines]

\* What is there when an end is closed; a place both ends left is free again.
\* A socket that is closed with unread data resets the connection for the other side.
ClientCloses(cs, c) ==
    [cs EXCEPT ![c] = IF @.server THEN [@ EXCEPT !.client = FALSE, !.s2c = <<>>] ELSE Free]
\* A slip: the end stays open.
ServerKeepsOpen(cs, c) == cs
ServerCloses(cs, c) ==
    LET k == cs[c]
    IN  [cs EXCEPT ![c] = IF k.client
                          THEN [k EXCEPT !.server = FALSE, !.c2s = <<>>, !.reset = k.reset \/ k.c2s # <<>>]
                          ELSE Free]

Listening == server \notin {"left", "dead"}
\* socket() and connect() for a call r: the listening socket takes the connection
\* before accept().  `call', `cut', `hits', `answer' and `done' are for the properties.
NewConn(r) == [c2s |-> <<>>, s2c |-> <<>>, client |-> TRUE, server |-> TRUE, reset |-> FALSE,
               call |-> r, cut |-> FALSE, hits |-> <<>>, answer |-> <<>>, done |-> FALSE]
GivesUp(cs, c) == [cs EXCEPT ![c].cut = TRUE]
FreeConns == {c \in Conn : conns[c] = Free}
Lowest(T)     == CHOOSE n \in T : \A m \in T : n <= m

NoResult == [outcome |-> "none"]
\* What a call on connection k gives, and what the server found and sent there.
Outcome(outcome, lines, k) ==
    [outcome |-> outcome, lines |-> lines, call |-> k.call, hits |-> k.hits, answer |-> k.answer, done |-> k.done]
Failed == [outcome |-> "failed"]
GivenUp(a) == [outcome |-> "given up", by |-> a]

--------------------------------------------------------------------------
(* SocketServer *)

Accept ==
    /\ server = "accept" /\ backlog # <<>>
    /\ serving' = Head(backlog) /\ backlog' = Tail(backlog)
    /\ request' = <<>> /\ response' = <<>> /\ server' = "read"
    /\ returned' = NoResult /\ UNCHANGED <<conns, indexed, setBy, clientVars, fdVars>>

\* The lines before the empty one, and those after it.
Before(lines) == LET n == S!SelectInSeq(lines, LAMBDA line : line = "")
                 IN  IF n = 0 THEN lines ELSE SubSeq(lines, 1, n - 1)
After(lines)  == SubSeq(lines, Len(Before(lines)) + 2, Len(lines))

\* readRequest(): lines up to an empty one, or to the end of what a client sent
\* that closed the connection.  It waits for them; what it read so far nobody sees.
ReadRequest ==
    LET k == conns[serving]
    IN  /\ server = "read" /\ ("" \in S!ToSet(k.c2s) \/ ~k.client)
        /\ request' = Before(k.c2s) /\ server' = "handle"
        /\ conns' = [conns EXCEPT ![serving].c2s = After(@)]
        /\ returned' = NoResult /\ UNCHANGED <<backlog, serving, response, indexed, setBy, clientVars, fdVars>>

\* handleRequest(), with a response for each method.  The message about an
\* unknown request reads request[0], which an empty request has not got.
Is(method, n) == Len(request) = n /\ request[1] = method
\* A slip: the loop begins one too far.
DirectoriesButFirst == {request[i] : i \in 3..Len(request)}
Directories   == {request[i] : i \in 2..Len(request)}
IsSet         == request # <<>> /\ request[1] = "setIndexedDirectories"
Reads         == Is("countHits", 2) \/ Is("getStatus", 1) \/ Is("getIndexedDirectories", 1) \/ Is("getIndexedFiles", 1)
Orders        == Is("stopDaemon", 1) \/ Is("startIndexing", 1) \/ Is("stopIndexing", 1)
OtherResponse == IF Is("getIndexedDirectories", 1) THEN S!SetToSeq(indexed)
                 ELSE IF Reads THEN <<"name:value">>
                 ELSE IF Orders THEN <<>> ELSE <<"error", "no valid request">>

Respond(lines, hits) ==
    /\ response' = lines /\ server' = "send"
    /\ conns' = [conns EXCEPT ![serving].answer = lines, ![serving].hits = hits]

HandleRequest ==
    /\ server = "handle"
    /\ \/ Is("query", 4) /\ (\E hs \in HitLists : Respond(QueryLines(hs), hs)) /\ UNCHANGED <<indexed, setBy>>
       \/ ~Is("query", 4) /\ ~IsSet /\ Respond(OtherResponse, <<>>) /\ UNCHANGED <<indexed, setBy>>
       \/ /\ IsSet /\ Respond(<<>>, <<>>)
          /\ indexed' = Directories /\ setBy' = IF conns[serving].cut THEN None ELSE conns[serving].call
       \/ request = <<>> /\ server' = "left" /\ UNCHANGED <<response, conns, indexed, setBy>>
    /\ returned' = NoResult /\ UNCHANGED <<backlog, serving, request, clientVars, fdVars>>

\* A signal interrupts accept() or recv(); readRequest()'s failure closes the
\* listening socket in the place of the connection.  Either way run() ends.
Interrupted ==
    /\ server \in {"accept", "read"} /\ server' = "left"
    /\ conns' = [c \in Conn |-> IF c \in S!ToSet(backlog) THEN ServerCloses(conns, c)[c] ELSE conns[c]]
    /\ backlog' = <<>>
    /\ returned' = NoResult /\ UNCHANGED <<serving, request, response, indexed, setBy, clientVars, fdVars>>

\* The end of the process closes all its ends of connections.
Die ==
    /\ server = "left" /\ server' = "dead"
    /\ conns' = [c \in Conn |-> IF conns[c] = Free THEN Free ELSE ServerCloses(conns, c)[c]]
    /\ backlog' = <<>> /\ serving' = None /\ response' = <<>> /\ request' = <<>>
    /\ returned' = NoResult /\ UNCHANGED <<indexed, setBy, clientVars, fdVars>>

\* sendResponse(): as much as the buffer of the connection takes, and it waits for
\* a client that does not read; a client that is gone ends it.
SendResponse ==
    LET k     == conns[serving]
        whole == Append(response, "")
        room  == Buffer - Len(k.s2c)
        n     == IF room < Len(whole) THEN room ELSE Len(whole)
    IN  /\ server = "send" /\ (n > 0 \/ ~k.client)
        /\ IF k.client /\ n < Len(whole)
           THEN /\ conns' = [conns EXCEPT ![serving].s2c = @ \o SubSeq(whole, 1, n)]
                /\ response' = SubSeq(response, n + 1, Len(response))
                /\ UNCHANGED <<serving, request, server>>
           ELSE /\ conns' = ServerCloses([conns EXCEPT ![serving].s2c = @ \o whole, ![serving].done = TRUE],
                                         serving)
                /\ server' = "accept" /\ serving' = None /\ response' = <<>> /\ request' = <<>>
        /\ returned' = NoResult /\ UNCHANGED <<backlog, indexed, setBy, clientVars, fdVars>>

Server == Accept \/ ReadRequest \/ HandleRequest \/ SendResponse

--------------------------------------------------------------------------
(* SocketClient: one call after the other, each on a connection of its own *)

SyncUnchanged == UNCHANGED <<serverVars, fdVars>>


Call(c, r) ==
    /\ state[c] = "idle"
    /\ IF Listening
       THEN LET k == Lowest(FreeConns)
            IN  /\ FreeConns # {}
                /\ conns' = [conns EXCEPT ![k] = NewConn(r)] /\ backlog' = Append(backlog, k)
                /\ conn' = [conn EXCEPT ![c] = k]
                /\ state' = [state EXCEPT ![c] = "send"]
                /\ calling' = [calling EXCEPT ![c] = r]
                /\ returned' = NoResult
       ELSE returned' = Failed /\ UNCHANGED <<conns, backlog, conn, state, calling>>
    /\ UNCHANGED got /\ SyncUnchanged

\* sendRequest() gives up when it cannot send; the callers do not ask.
Send(c) ==
    /\ c \in Sync /\ state[c] = "send"
    /\ conns' = IF conns[conn[c]].server THEN Sent(conns, conn[c], Append(calling[c], "")) ELSE conns
    /\ state' = [state EXCEPT ![c] = "read"]
    /\ returned' = NoResult /\ UNCHANGED <<backlog, calling, conn, got>> /\ SyncUnchanged

\* readResponse(), and the call's return: up to an empty line, the end, or an error.
Read(c) ==
    /\ c \in Sync /\ state[c] = "read"
    /\ LET k       == conns[conn[c]]
           lines   == got[c] \o Before(k.s2c)
           outcome == IF "" \in S!ToSet(k.s2c) THEN "answered" ELSE IF k.reset THEN "failed" ELSE "eof"
       IN  IF "" \in S!ToSet(k.s2c) \/ ~k.server
           THEN /\ state' = [state EXCEPT ![c] = "idle"] /\ got' = [got EXCEPT ![c] = <<>>]
                /\ returned' = (IF outcome = "failed" THEN Failed ELSE Outcome(outcome, lines, k))
                /\ conns' = ClientCloses(conns, conn[c])
                /\ calling' = [calling EXCEPT ![c] = <<>>] /\ conn' = [conn EXCEPT ![c] = None]
           ELSE /\ k.s2c # <<>> /\ got' = [got EXCEPT ![c] = lines]
                /\ conns' = [conns EXCEPT ![conn[c]].s2c = <<>>] /\ returned' = NoResult
                /\ UNCHANGED <<state, calling, conn>>
    /\ UNCHANGED backlog /\ SyncUnchanged

\* The user's program is killed, maybe after some lines of its request: it sends
\* each by itself.
Kill(c) ==
    /\ c \in Sync /\ state[c] \in {"send", "read"}
    /\ state' = [state EXCEPT ![c] = "gone"] /\ got' = [got EXCEPT ![c] = <<>>]
    /\ calling' = [calling EXCEPT ![c] = <<>>] /\ conn' = [conn EXCEPT ![c] = None]
    /\ \/ /\ state[c] = "send"
          /\ \E n \in 0..(IF conns[conn[c]].server THEN Len(calling[c]) ELSE 0) :
               conns' = ClientCloses(GivesUp(Sent(conns, conn[c], SubSeq(calling[c], 1, n)), conn[c]), conn[c])
       \/ state[c] = "read" /\ conns' = ClientCloses(conns, conn[c])
    /\ returned' = NoResult /\ UNCHANGED backlog /\ SyncUnchanged

--------------------------------------------------------------------------
(* AsyncSocket and AsyncSocketClient.  A descriptor is a number; close() leaves *)
(* it in the variable `socket'.                                                 *)

\* close() of number n by a: what it closes need not be a's.
Closed(n) == IF n = None THEN fds ELSE [fds EXCEPT ![n] = None]
ConnsClosed(n, cs) == IF (IF n = None THEN None ELSE fds[n]) = None THEN cs ELSE ClientCloses(cs, fds[n])
Strays(a, n)   == n # None /\ fds[n] \notin {None, conn[a]}

\* A request that a has still to write is given up.
Abandoned(a, cs) == IF state[a] = "Writing" /\ cs[conn[a]].client
                    THEN GivesUp(cs, conn[a]) ELSE cs

\* A slip: the old descriptor is not closed.
ToCloseNothing(a) == None
ToClose(a) == IF state[a] \in {"Writing", "Reading"} THEN fd[a] ELSE None

\* sendRequest(): a request under way is given up.
SendRequest(a, r) ==
    /\ state[a] \in {"Idle", "Error", "Writing", "Reading"}
    /\ LET n    == ToClose(a)
           cs   == ConnsClosed(n, Abandoned(a, conns))
           free == {m \in Fd : Closed(n)[m] = None}
           k    == Lowest(FreeConns)
       IN  /\ stray' = (stray \/ Strays(a, n))
           /\ IF Listening
              THEN /\ free # {} /\ FreeConns # {}
                   /\ conns' = [cs EXCEPT ![k] = NewConn(r)] /\ backlog' = Append(backlog, k)
                   /\ conn' = [conn EXCEPT ![a] = k]
                   /\ fd' = [fd EXCEPT ![a] = Lowest(free)]
                   /\ fds' = [Closed(n) EXCEPT ![Lowest(free)] = k]
                   /\ state' = [state EXCEPT ![a] = "Writing"]
                   /\ calling' = [calling EXCEPT ![a] = r]
              ELSE /\ conns' = cs /\ fds' = Closed(n)
                   /\ fd' = [fd EXCEPT ![a] = None] /\ conn' = [conn EXCEPT ![a] = None]
                   /\ state' = [state EXCEPT ![a] = "Error"]
                   /\ calling' = [calling EXCEPT ![a] = <<>>] /\ UNCHANGED backlog
    /\ returned' = (IF state[a] \in {"Writing", "Reading"} THEN GivenUp(a) ELSE NoResult) /\ got' = [got EXCEPT ![a] = <<>>]
    /\ UNCHANGED serverVars

\* statusChanged() while Writing: send() takes the whole request, or fails; a
\* failed one stays open.
Write(a) ==
    /\ a \in Async /\ state[a] = "Writing"
    /\ LET k == fds[fd[a]]
       IN  IF IF k = None THEN FALSE ELSE conns[k].server
           THEN /\ conns' = Sent(conns, k, Append(calling[a], ""))
                /\ state' = [state EXCEPT ![a] = "Reading"] /\ returned' = NoResult
           ELSE /\ state' = [state EXCEPT ![a] = "Error"] /\ UNCHANGED conns
                /\ returned' = Failed
    /\ calling' = [calling EXCEPT ![a] = <<>>]
    /\ UNCHANGED <<backlog, conn, got, fdVars, serverVars>>

\* splitResponse() drops empty lines, and runs past the end of an empty response.
Split(lines) == S!FlattenSeq([i \in 1..Len(lines) |-> IF lines[i] = "" THEN <<>> ELSE <<lines[i]>>])

\* ... and while Reading: all there is, and at the end of it the response is
\* split and handed to the method's handler.
ReadSome(a) ==
    /\ a \in Async /\ state[a] = "Reading"
    /\ LET k      == fds[fd[a]]
           here   == IF k = None THEN <<>> ELSE conns[k].s2c
           all    == got[a] \o here
           taken  == IF k = None THEN conns ELSE [conns EXCEPT ![k].s2c = <<>>]
           ended  == IF k = None THEN TRUE ELSE ~conns[k].server
           failed == IF k = None THEN TRUE ELSE conns[k].reset
       IN  /\ (here # <<>>) \/ ended
           /\ IF ended
              THEN /\ conns' = IF k = None THEN conns ELSE ClientCloses(taken, k)
                   /\ fds' = Closed(fd[a])
                   /\ stray' = (stray \/ Strays(a, fd[a]))
                   /\ state' = [state EXCEPT ![a] = IF failed THEN "Error" ELSE "Idle"]
                   /\ returned' = (IF failed THEN Failed
                        ELSE Outcome(IF all = <<>> THEN "undefined" ELSE "eof", Split(all), conns[k]))
                   /\ got' = [got EXCEPT ![a] = <<>>] /\ conn' = [conn EXCEPT ![a] = None]
              ELSE /\ conns' = taken /\ got' = [got EXCEPT ![a] = all]
                   /\ returned' = NoResult /\ UNCHANGED <<fds, stray, state, conn>>
    /\ UNCHANGED <<backlog, calling, fd, serverVars>>

\* ~AsyncSocket() closes whatever the number stands for now.
Destroy(a) ==
    /\ a \in Async /\ state[a] # "gone"
    /\ state' = [state EXCEPT ![a] = "gone"]
    /\ fds' = Closed(fd[a]) /\ conns' = ConnsClosed(fd[a], Abandoned(a, conns))
    /\ stray' = (stray \/ Strays(a, fd[a]))
    /\ fd' = [fd EXCEPT ![a] = None] /\ conn' = [conn EXCEPT ![a] = None]
    /\ got' = [got EXCEPT ![a] = <<>>] /\ calling' = [calling EXCEPT ![a] = <<>>]
    /\ returned' = NoResult
    /\ UNCHANGED <<backlog, serverVars>>

--------------------------------------------------------------------------
Init ==
    /\ conns = [c \in Conn |-> Free] /\ backlog = <<>>
    /\ serving = None /\ request = <<>> /\ response = <<>> /\ server = "accept"
    /\ indexed = {} /\ setBy = None
    /\ calling = [c \in Client |-> <<>>] /\ conn = [c \in Client |-> None]
    /\ state = [c \in Client |-> IF c \in Sync THEN "idle" ELSE "Idle"]
    /\ got = [c \in Client |-> <<>>]
    /\ returned = NoResult
    /\ fd \in [Async -> Garbage] /\ fds = [n \in Fd |-> None]
    /\ stray = FALSE

Next ==
    \/ Server \/ Interrupted \/ Die
    \/ \E c \in Sync, r \in Calls : Call(c, r)
    \/ \E c \in Sync : Send(c) \/ Read(c) \/ Kill(c)
    \/ \E a \in Async, r \in Calls : SendRequest(a, r)
    \/ \E a \in Async : Write(a) \/ ReadSome(a) \/ Destroy(a)

Spec == /\ Init /\ [][Next]_vars /\ WF_vars(Server)
        /\ \A c \in Sync : WF_vars(Send(c) \/ Read(c))
        /\ \A a \in Async : WF_vars(Write(a) \/ ReadSome(a))

--------------------------------------------------------------------------
(* Properties *)

\* What a client takes for an answer is the whole of what the server sent for
\* that very call, and the hits it makes of the lines are the hits that were
\* found - when none of them is at an URI with a ':' before its first '/', and
\* the last has a property: getHits() and handleQueryResponse() need a line
\* after its six (socketclient.cpp:172, asyncsocketclient.cpp:101).  A client
\* that had its descriptor closed by another (asyncsocket.cpp:78) is let out.
Plain(hs) == /\ \A i \in DOMAIN hs : ~HasColon(hs[i].uri)
             /\ hs # <<>> => hs[Len(hs)].props > 0
AnswerArrives ==
    returned.outcome \in {"answered", "eof"} /\ ~stray =>
        /\ returned.outcome = "answered" => returned.done
        /\ returned.done => /\ returned.lines = returned.answer
                            /\ returned.call[1] = "query" /\ Plain(returned.hits)
                                   => ParseHits(returned.lines) = returned.hits

\* The daemon indexes the directories some client asked for, all of them and no
\* others, unless that client went away before it had sent its request
\* (readRequest() takes the end of what was sent for the end of the request).
ActsOnWhole ==
    setBy # None /\ ~stray =>
        setBy[1] = "setIndexedDirectories" /\ indexed = S!ToSet(Tail(setBy))

\* A descriptor that stays open with nobody to close it belongs to a connection
\* the daemon has left, and only a request that could not be written leaves
\* one (asyncsocket.cpp:117 sets Error and does not close).
DescriptorsOwned ==
    ~stray => \A n \in Fd : fds[n] # None =>
        \/ \E a \in Async : fd[a] = n /\ conn[a] = fds[n] /\ state[a] \in {"Writing", "Reading", "Error"}
        \/ ~conns[fds[n]].server

\* A call comes back - with an answer, a failure or the client's end - while the
\* clients go on with what they began, unless a signal made the server leave:
\* then the connection it was reading from stays open as long as the process.
Busy(c) == state[c] \in {"send", "read", "Writing", "Reading"}
EveryCallReturns == \A c \in Client : Busy(c) ~> (~Busy(c) \/ returned = GivenUp(c) \/ server = "left")

===========================================================================
