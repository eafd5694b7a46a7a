----------------------------- MODULE HttpServer -----------------------------
(***************************************************************************)
(* src/src/HttpServer.cpp: the thread in run(), a thread calling stop(),   *)
(* and one thread for every connection, in handleClient().                 *)
(*                                                                         *)
(* A message is abstracted to three lengths: `head`, the bytes up to and   *)
(* including the empty line, `body`, the bytes that follow, and `declared`, *)
(* the number its length header gives.  `length` says whether that header  *)
(* is spelled Content-Length, spelled otherwise, malformed or absent.      *)
(* recv() returns any part of what is not yet read, so TCP may cut a       *)
(* message anywhere.  A client may finish, which closes its end behind its *)
(* message, or be gone at any time with the bytes still under way; one     *)
(* that stays may not read, and send() then waits.  The handler of a       *)
(* connection is KServeRuntime::handle, which returns a response, or one   *)
(* that streams, or throws.                                                *)
(***************************************************************************)
EXTENDS Naturals, Sequences, FiniteSets

CONSTANTS
    Clients,           \* connections
    Messages,          \* what clients send: records of `head`, `body`, `length`, `declared`
    BufferSize,        \* sizeof(buffer)
    MaxRequestBytes,   \* max_request_bytes_
    Word               \* size_t counts modulo Word

ASSUME HttpAssumption ==
    /\ BufferSize \in Nat \ {0} /\ Word \in Nat /\ MaxRequestBytes \in 1 .. Word - 1
    /\ Messages \subseteq [head : 1 .. Word - 1, body : 0 .. Word - 1, declared : Nat,
                           length : {"absent", "number", "otherwise", "malformed"}]
    /\ \A m \in Messages : m.head + m.body < Word

VARIABLES
    rpc,       \* where the thread in run() is
    running,   \* running_
    fd,        \* server_fd_
    spc,       \* where the thread in stop() is
    late,      \* stop() was called once running_ had been set
    threads,   \* client_threads_, each thread known by its connection
    joining,   \* client_threads in joinClientThreads, less those that have been joined
    fate,      \* "alive", or what has ended the process
    message,   \* what a connection's client sends
    peer,      \* whether it is there, has finished or is gone
    raw,       \* raw.size() in handleClient
    hpc,       \* where the connection's thread is
    outcome    \* what the client is answered

serverVars == <<rpc, running, fd, spc, late, threads, joining>>
clientVars == <<message, peer, raw, hpc, outcome>>
vars == <<serverVars, fate, clientVars>>

-----------------------------------------------------------------------------
NoMessage == [head |-> 0, body |-> 0, length |-> "absent", declared |-> 0]
Total(c) == message[c].head + message[c].body

Init ==
    /\ rpc = "socket" /\ running = FALSE /\ fd = "none" /\ spc = "idle" /\ late = FALSE
    /\ threads = <<>> /\ joining = <<>> /\ fate = "alive"
    /\ message = [c \in Clients |-> NoMessage]
    /\ peer = [c \in Clients |-> "there"]
    /\ raw = [c \in Clients |-> 0]
    /\ hpc = [c \in Clients |-> "none"]
    /\ outcome = [c \in Clients |-> "none"]

-----------------------------------------------------------------------------
(* run().                                                                  *)

\* socket() succeeds and server_fd_ is stored, or run() throws.
Socket ==
    /\ rpc = "socket"
    /\ \/ rpc' = "bind" /\ fd' = "open"
       \/ rpc' = "threw" /\ UNCHANGED fd
    /\ UNCHANGED <<running, spc, late, threads, joining, fate, clientVars>>

\* setsockopt, inet_pton, bind and listen: on a socket stop() has closed they fail.
BindAndListen ==
    /\ rpc = "bind"
    /\ \/ fd = "open" /\ rpc' = "listening"
       \/ rpc' = "threw"
    /\ UNCHANGED <<running, fd, spc, late, threads, joining, fate, clientVars>>

Start ==
    /\ rpc = "listening"
    /\ running' = TRUE /\ rpc' = "loop"
    /\ UNCHANGED <<fd, spc, late, threads, joining, fate, clientVars>>

Loop ==
    /\ rpc = "loop"
    /\ rpc' = IF running THEN "accept" ELSE "join"
    /\ UNCHANGED <<running, fd, spc, late, threads, joining, fate, clientVars>>

\* accept() on a socket that is shut down, or another failure: go on.
AcceptFails ==
    /\ rpc = "accept"
    /\ rpc' = "loop"
    /\ UNCHANGED <<running, fd, spc, late, threads, joining, fate, clientVars>>

\* A connection gets a thread of its own, or there is none to be had: the exception of
\* std::thread leaves run(), and nobody looks after the connection.
Accept(c) ==
    /\ rpc = "accept" /\ fd = "open" /\ hpc[c] = "none"
    /\ \/ /\ \E m \in Messages : message' = [message EXCEPT ![c] = m]
          /\ hpc' = [hpc EXCEPT ![c] = "recv"]
          /\ threads' = Append(threads, c)
          /\ rpc' = "loop"
       \/ rpc' = "threw" /\ UNCHANGED <<threads, message, hpc>>
    /\ UNCHANGED <<running, fd, spc, late, joining, fate, peer, raw, outcome>>

\* Mutant of SwapThreads: the local vector is joined without having been swapped.
SwapForgotten ==
    /\ rpc = "join"
    /\ rpc' = "joining"
    /\ UNCHANGED <<running, fd, spc, late, threads, joining, fate, clientVars>>

\* joinClientThreads takes the threads there are, under the mutex.
SwapThreads ==
    /\ rpc = "join"
    /\ joining' = threads /\ threads' = joining
    /\ rpc' = "joining"
    /\ UNCHANGED <<running, fd, spc, late, fate, clientVars>>

\* It joins them one after the other; behind the last run() returns.
JoinThreads ==
    /\ rpc = "joining"
    /\ \/ /\ joining # <<>> /\ hpc[Head(joining)] = "closed"
          /\ joining' = Tail(joining) /\ UNCHANGED rpc
       \/ joining = <<>> /\ rpc' = "returned" /\ UNCHANGED joining
    /\ UNCHANGED <<running, fd, spc, late, threads, fate, clientVars>>

\* ~HttpServer once run() is over: stop(), and then the members.  A thread that nobody
\* has joined ends the process in the destructor of client_threads_.
Destroy ==
    /\ rpc \in {"returned", "threw"} /\ spc \in {"idle", "stopped"}
    /\ running' = FALSE /\ fd' = IF fd = "open" THEN "closed" ELSE fd
    /\ IF threads = <<>> THEN rpc' = "destroyed" /\ UNCHANGED fate
       ELSE fate' = "abandoned" /\ UNCHANGED rpc
    /\ UNCHANGED <<spc, late, threads, joining, clientVars>>

(* stop().                                                                 *)

StopRunning ==
    /\ spc = "idle" /\ rpc # "destroyed"
    /\ running' = FALSE /\ late' = running
    /\ spc' = "close"
    /\ UNCHANGED <<rpc, fd, threads, joining, fate, clientVars>>

\* Mutant of Close: the socket stays as it is.
CloseForgotten ==
    /\ spc = "close"
    /\ spc' = "stopped"
    /\ UNCHANGED <<rpc, running, fd, late, threads, joining, fate, clientVars>>

\* server_fd_.exchange(-1), shutdown and close.
Close ==
    /\ spc = "close"
    /\ fd' = IF fd = "open" THEN "closed" ELSE fd
    /\ spc' = "stopped"
    /\ UNCHANGED <<rpc, running, late, threads, joining, fate, clientVars>>

-----------------------------------------------------------------------------
(* handleClient().                                                         *)

Goto(c, place) == hpc' = [hpc EXCEPT ![c] = place]

\* The thread has a response without asking the handler.
Early(c, code) == Goto(c, "respond") /\ outcome' = [outcome EXCEPT ![c] = code]

\* parseContentLength fails: not digits, or too large for size_t.
BadLength(m) == m.length = "malformed" \/ (m.length = "number" /\ m.declared >= Word)

\* Only a header whose name is exactly Content-Length is looked at.
ContentLength(m) == IF m.length \in {"number", "malformed"} THEN m.declared ELSE 0

\* header_end + 4 + content_length, in size_t.
Needed(m) == (m.head + ContentLength(m)) % Word

\* Mutant of Framed: the head is taken for the whole.
FramedByHead(m, n) == n >= m.head

Framed(m, n) == n >= Needed(m)

\* One turn of the loop, with n bytes in `raw`.
Received(c, n) ==
    LET m == message[c]
        head == n <= MaxRequestBytes /\ n >= m.head
        fits == head /\ ~BadLength(m) /\ Needed(m) <= MaxRequestBytes
    IN
    \/ n > MaxRequestBytes /\ Early(c, "413")
    \/ n <= MaxRequestBytes /\ ~head /\ UNCHANGED <<hpc, outcome>>
    \/ head /\ BadLength(m) /\ Early(c, "400")
    \/ head /\ ~BadLength(m) /\ ~fits /\ Early(c, "413")
    \/ fits /\ Framed(m, n) /\ Goto(c, "dispatch") /\ UNCHANGED outcome
    \/ fits /\ ~Framed(m, n) /\ UNCHANGED <<hpc, outcome>>

Recv(c) ==
    /\ hpc[c] = "recv"
    /\ \E n \in raw[c] + 1 .. raw[c] + BufferSize :
         /\ n <= Total(c)
         /\ raw' = [raw EXCEPT ![c] = n]
         /\ Received(c, n)
    /\ UNCHANGED <<serverVars, fate, message, peer>>

\* recv() says that the connection is closed or broken: what there is, is dispatched.
RecvEnds(c) ==
    /\ hpc[c] = "recv"
    /\ \/ peer[c] = "finished" /\ raw[c] = Total(c)
       \/ peer[c] = "gone"
    /\ Goto(c, "dispatch")
    /\ UNCHANGED <<serverVars, fate, message, peer, raw, outcome>>

\* The client closes its end behind its message and may go on reading, or it is gone.
GoAway(c) ==
    /\ hpc[c] # "none"
    /\ \/ peer[c] = "there" /\ peer' = [peer EXCEPT ![c] = "finished"]
       \/ peer[c] # "gone" /\ peer' = [peer EXCEPT ![c] = "gone"]
    /\ UNCHANGED <<serverVars, fate, message, raw, hpc, outcome>>

\* handler_(parseRequest(raw)): a response, a response that streams, or an exception.
Dispatch(c) ==
    /\ hpc[c] = "dispatch"
    /\ \/ Goto(c, "respond") /\ outcome' = [outcome EXCEPT ![c] = "handled"]
       \/ Goto(c, "headers") /\ outcome' = [outcome EXCEPT ![c] = "handled"]
       \/ Goto(c, "respond") /\ outcome' = [outcome EXCEPT ![c] = "500"]
    /\ UNCHANGED <<serverVars, fate, message, peer, raw>>

\* Where the thread is in send(): in front of a stream, in the writes of the
\* stream_callback, in front of the end, or with a serialized response.
Sending(c) == hpc[c] \in {"headers", "stream", "done", "respond"}

\* send() has room for the bytes, at once or when the client has read; the connection is
\* closed behind the last.
Respond(c) ==
    /\ Sending(c)
    /\ Goto(c, CASE hpc[c] = "headers" -> "stream"
                 [] hpc[c] = "stream" -> "done"
                 [] OTHER -> "closed")
    /\ UNCHANGED <<serverVars, fate, message, peer, raw, outcome>>

\* send() to a client that is gone, without MSG_NOSIGNAL and with SIGPIPE as it is.
BrokenPipe(c) ==
    /\ Sending(c) /\ peer[c] = "gone"
    /\ fate' = "sigpipe"
    /\ UNCHANGED <<serverVars, clientVars>>

\* stream_callback runs outside the try block: what it throws leaves the thread.
StreamThrows(c) ==
    /\ hpc[c] = "stream"
    /\ fate' = "uncaught"
    /\ UNCHANGED <<serverVars, clientVars>>

-----------------------------------------------------------------------------
Alive == fate = "alive"

\* accept() returns when a client comes or the socket is shut down.
RunStep ==
    \/ Socket \/ BindAndListen \/ Start \/ Loop \/ SwapThreads \/ JoinThreads
    \/ fd # "open" /\ AcceptFails

StopStep == StopRunning \/ Close

\* What a connection's thread does without waiting for its client: the client has ended
\* its side, or is not needed.
OwnStep(c) ==
    \/ Dispatch(c) \/ RecvEnds(c)
    \/ peer[c] # "there" /\ Recv(c)
    \/ peer[c] = "gone" /\ Respond(c)

Next ==
    /\ Alive
    /\ \/ RunStep \/ AcceptFails \/ StopStep \/ Destroy
       \/ \E c \in Clients : \/ Accept(c) \/ Recv(c) \/ GoAway(c) \/ Respond(c) \/ OwnStep(c)
                            \/ BrokenPipe(c) \/ StreamThrows(c)

Spec == Init /\ [][Next]_vars

\* The server's threads run, the handler they call returns, and so does the stream_callback
\* once nobody keeps its writes waiting.
\* Nothing is assumed of the clients: that one connects, sends, reads or closes is not
\* fair.  What was sent before the client finished arrives.
Fairness ==
    /\ WF_vars(Alive /\ RunStep) /\ WF_vars(Alive /\ spc # "idle" /\ StopStep)
    /\ \A c \in Clients : WF_vars(Alive /\ OwnStep(c))

FairSpec == Spec /\ Fairness

-----------------------------------------------------------------------------
(* Properties.                                                             *)

\* A client that sends what it declares, in whatever spelling.
Honest(m) ==
    \/ m.length \in {"number", "otherwise"} /\ m.declared = m.body
    \/ m.length = "absent" /\ m.body = 0

Exact(c) ==
    /\ outcome[c] = "413" => Total(c) > MaxRequestBytes
    /\ outcome[c] # "400"
    /\ hpc[c] = "dispatch" => raw[c] = Total(c) /\ Total(c) <= MaxRequestBytes

\* However TCP cuts a message: a client that sends what it declares as Content-Length
\* and is not gone is refused if head and body are over the limit, and otherwise all of
\* its message, no less, reaches the handler.
FramingExact ==
    \A c \in Clients :
        Honest(message[c]) /\ message[c].length # "otherwise" /\ peer[c] # "gone" => Exact(c)

Open(c) == hpc[c] \notin {"none", "closed"}

\* No thread outlives the server it uses: when run() has returned and when the server is
\* destroyed, every connection accepted is answered and closed, though the threads run
\* on while they are handed over and joined; and only a run() that has thrown leaves any
\* behind for the destructor to end the process.
NoThreadOutlivesServer ==
    /\ rpc \in {"returned", "destroyed"} => \A c \in Clients : ~Open(c)
    /\ fate = "abandoned" => rpc = "threw"

\* The thread waits for its client: for bytes, or for room in send(), neither with a
\* timeout.
Held(c) == (hpc[c] = "recv" /\ peer[c] = "there") \/ (Sending(c) /\ peer[c] # "gone")

\* A stop() that finds the server running makes run() end, unless the process has died
\* or one connection is held for ever by a client that stays and neither sends what is
\* missing nor reads.
StopReturns ==
    late ~> \/ rpc \in {"returned", "threw", "destroyed"} \/ ~Alive
            \/ \E c \in Clients : []Held(c)

=============================================================================
