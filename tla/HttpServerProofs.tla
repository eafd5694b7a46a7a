-------------------------- MODULE HttpServerProofs --------------------------
(* What holds of HttpServer for every number of connections, every set of   *)
(* messages, every buffer and every limit.                                  *)
EXTENDS HttpServer, TLAPS

-----------------------------------------------------------------------------
(* Arithmetic of size_t.                                                   *)

\* A sum that does not reach Word is not wrapped around.
LEMMA NoWrap ==
    ASSUME NEW a \in Nat, NEW b \in Nat, a < b
    PROVE  a % b = a
OBVIOUS

\* The fields of a message a client can send.
LEMMA MessageFields ==
    ASSUME NEW m \in Messages
    PROVE  /\ m.head \in Nat /\ m.body \in Nat /\ m.declared \in Nat
           /\ m.head + m.body < Word /\ Word \in Nat /\ MaxRequestBytes \in Nat
           /\ m.length \in {"absent", "number", "otherwise", "malformed"}
BY HttpAssumption

\* For a client that sends what it declares as Content-Length, header_end + 4 + content_length is the
\* length of its message: the sum cannot overflow.
LEMMA HonestLength ==
    ASSUME NEW m \in Messages, Honest(m), m.length # "otherwise"
    PROVE  ~BadLength(m) /\ Needed(m) = m.head + m.body
<1>1. ContentLength(m) = m.body
  BY DEF Honest, ContentLength
<1>2. ~BadLength(m)
  BY <1>1, MessageFields DEF Honest, BadLength, ContentLength
<1>3. Needed(m) = m.head + m.body
  <2>1. Needed(m) = (m.head + m.body) % Word
    BY <1>1 DEF Needed
  <2>2. m.head + m.body \in Nat /\ Word \in Nat /\ m.head + m.body < Word
    BY MessageFields
  <2> HIDE DEF Needed
  <2> QED  BY <2>1, <2>2, NoWrap
<1> QED  BY <1>2, <1>3

-----------------------------------------------------------------------------
(* handleClient.                                                           *)

HandlerPlaces ==
    {"none", "recv", "dispatch", "headers", "stream", "done", "respond", "closed"}

\* A connection that has been accepted has a message, of which no more is received
\* than there is; one that has not been answered has no outcome.
ConnectionInv ==
    /\ message \in [Clients -> Messages \cup {NoMessage}]
    /\ peer \in [Clients -> {"there", "finished", "gone"}]
    /\ raw \in [Clients -> Nat]
    /\ hpc \in [Clients -> HandlerPlaces]
    /\ DOMAIN outcome = Clients
    /\ \A c \in Clients :
         /\ hpc[c] \in {"none", "recv"} => outcome[c] = "none"
         /\ hpc[c] # "none" => message[c] \in Messages /\ raw[c] <= Total(c)
         /\ hpc[c] = "none" => raw[c] = 0

\* One turn of the receiving loop: the places and answers it can lead to.
LEMMA ReceivedCases ==
    ASSUME NEW c \in Clients, NEW n \in Nat, Received(c, n)
    PROVE  \/ UNCHANGED <<hpc, outcome>>
           \/ hpc' = [hpc EXCEPT ![c] = "dispatch"] /\ outcome' = outcome
           \/ /\ hpc' = [hpc EXCEPT ![c] = "respond"]
              /\ outcome' = [outcome EXCEPT ![c] = "413"]
           \/ /\ hpc' = [hpc EXCEPT ![c] = "respond"]
              /\ outcome' = [outcome EXCEPT ![c] = "400"]
BY DEF Received, Early, Goto

\* What can change a connection.
LEMMA StepsOfConnections ==
    ASSUME [Next]_vars, ~UNCHANGED clientVars
    PROVE  \E c \in Clients : \/ Accept(c) \/ Recv(c) \/ GoAway(c) \/ Respond(c)
                              \/ Dispatch(c) \/ RecvEnds(c)
BY DEF Next, OwnStep, RunStep, StopStep, Socket, BindAndListen, Start, Loop, AcceptFails,
   SwapThreads, JoinThreads, Destroy, StopRunning, Close, BrokenPipe, StreamThrows, vars

LEMMA ConnectionStep == ConnectionInv /\ [Next]_vars => ConnectionInv'
<1> SUFFICES ASSUME ConnectionInv, [Next]_vars PROVE ConnectionInv'
  OBVIOUS
<1> USE DEF ConnectionInv, HandlerPlaces
<1>1. CASE UNCHANGED clientVars
  BY <1>1 DEF clientVars, Total
<1>2. ASSUME NEW c \in Clients, Accept(c), ~UNCHANGED clientVars PROVE ConnectionInv'
  <2>1. PICK m \in Messages : message' = [message EXCEPT ![c] = m]
    BY <1>2 DEF Accept, clientVars
  <2>2. 0 <= m.head + m.body
    BY MessageFields
  <2>3. UNCHANGED <<peer, raw, outcome>> /\ hpc' = [hpc EXCEPT ![c] = "recv"] /\ hpc[c] = "none"
    BY <1>2 DEF Accept, clientVars
  <2> QED  BY <2>1, <2>2, <2>3 DEF Total
<1>3. ASSUME NEW c \in Clients, Recv(c) PROVE ConnectionInv'
  <2>0. hpc[c] = "recv" /\ UNCHANGED <<message, peer>> /\ raw[c] \in Nat /\ BufferSize \in Nat
    BY <1>3, HttpAssumption DEF Recv
  <2>1. PICK n \in raw[c] + 1 .. raw[c] + BufferSize :
             n <= Total(c) /\ raw' = [raw EXCEPT ![c] = n] /\ Received(c, n)
    BY <1>3 DEF Recv
  <2>2. n \in Nat
    BY <2>0, <2>1
  <2> QED  BY <2>0, <2>1, <2>2, ReceivedCases DEF Total
<1>4. ASSUME NEW c \in Clients, GoAway(c) \/ Respond(c) \/ Dispatch(c) \/ RecvEnds(c)
      PROVE  ConnectionInv'
  BY <1>4 DEF GoAway, Dispatch, Respond, RecvEnds, Sending, Goto, Total
<1> QED
  BY <1>1, <1>2, <1>3, <1>4, StepsOfConnections

LEMMA ConnectionInvariant == Spec => []ConnectionInv
<1>1. Init => ConnectionInv
  BY DEF Init, ConnectionInv, HandlerPlaces, Total, NoMessage
<1> QED  BY <1>1, ConnectionStep, PTL DEF Spec

\* What FramingExact says of one connection, and that its thread does not wait for more
\* than there is to come.
Framing(c) ==
    Honest(message[c]) /\ message[c].length # "otherwise" /\ peer[c] # "gone" =>
        Exact(c) /\ (hpc[c] = "recv" => raw[c] < Total(c))

FramingInv == \A c \in Clients : Framing(c)

\* The turn of the loop that ends it: with n bytes there, of at most Total(c), an honest
\* message is whole, or its length is over the limit.
LEMMA ReceivedExact ==
    ASSUME NEW c \in Clients, message[c] \in Messages, Honest(message[c]),
           message[c].length # "otherwise", NEW n \in Nat, n <= Total(c), Received(c, n),
           hpc[c] = "recv", outcome[c] = "none",
           hpc \in [Clients -> HandlerPlaces], DOMAIN outcome = Clients
    PROVE  /\ outcome'[c] = "413" => Total(c) > MaxRequestBytes
           /\ outcome'[c] # "400"
           /\ hpc'[c] = "dispatch" => n = Total(c) /\ Total(c) <= MaxRequestBytes
           /\ hpc'[c] = "recv" => n < Total(c)
<1>1. /\ ~BadLength(message[c]) /\ Needed(message[c]) = Total(c)
      /\ Total(c) \in Nat /\ MaxRequestBytes \in Nat /\ message[c].head <= Total(c)
  BY HonestLength, MessageFields DEF Total
<1> QED  BY <1>1 DEF Received, Early, Goto, Framed

LEMMA FramingStep == ConnectionInv /\ FramingInv /\ [Next]_vars => FramingInv'
<1> SUFFICES ASSUME ConnectionInv, FramingInv, [Next]_vars, NEW d \in Clients
             PROVE  Framing(d)'
  BY DEF FramingInv
<1>0. Framing(d)
  BY DEF FramingInv
<1>1. CASE UNCHANGED clientVars
  BY <1>0, <1>1 DEF clientVars, Framing, Exact, Total
<1>2. ASSUME NEW c \in Clients, Accept(c), ~UNCHANGED clientVars PROVE Framing(d)'
  <2>1. c # d => UNCHANGED <<message[d], hpc[d]>>
    BY <1>2 DEF Accept, clientVars, ConnectionInv
  <2>2. c = d => hpc'[d] = "recv" /\ outcome[d] = "none" /\ raw'[d] = 0 /\ Total(d)' > 0
    <3>1. PICK m \in Messages : message' = [message EXCEPT ![c] = m]
      BY <1>2 DEF Accept, clientVars
    <3>2. m.head + m.body > 0
      BY HttpAssumption
    <3> QED  BY <1>2, <3>1, <3>2 DEF Accept, clientVars, ConnectionInv, Total
  <2> QED  BY <1>0, <1>2, <2>1, <2>2 DEF Accept, clientVars, Framing, Exact, Total
<1>3. ASSUME NEW c \in Clients, Recv(c) PROVE Framing(d)'
  <2>0. hpc[c] = "recv" /\ UNCHANGED <<message, peer>> /\ raw[c] \in Nat /\ BufferSize \in Nat
    BY <1>3, HttpAssumption DEF Recv, ConnectionInv
  <2>1. PICK n \in raw[c] + 1 .. raw[c] + BufferSize :
             n <= Total(c) /\ raw' = [raw EXCEPT ![c] = n] /\ Received(c, n)
    BY <1>3 DEF Recv
  <2>2. n \in Nat
    BY <2>0, <2>1
  <2>3. CASE c = d
    <3>1. message[c] \in Messages /\ outcome[c] = "none" /\ raw'[c] = n
      BY <2>0, <2>1 DEF ConnectionInv
    <3> QED  BY <2>0, <2>1, <2>2, <2>3, <3>1, ReceivedExact DEF Framing, Exact, Total, ConnectionInv
  <2>4. CASE c # d
    <3>1. UNCHANGED <<hpc[d], outcome[d], raw[d]>>
      BY <2>1, <2>2, <2>4, ReceivedCases DEF ConnectionInv
    <3> QED  BY <1>0, <2>0, <3>1 DEF Framing, Exact, Total
  <2> QED  BY <2>3, <2>4
<1>4. ASSUME NEW c \in Clients, GoAway(c) \/ RecvEnds(c) PROVE Framing(d)'
  BY <1>0, <1>4 DEF GoAway, RecvEnds, Goto, Framing, Exact, Total, ConnectionInv
<1>5. ASSUME NEW c \in Clients, Dispatch(c) \/ Respond(c) PROVE Framing(d)'
  BY <1>0, <1>5 DEF Dispatch, Respond, Sending, Goto, Framing, Exact, Total, ConnectionInv
<1> QED
  BY <1>1, <1>2, <1>3, <1>4, <1>5, StepsOfConnections

\* handleClient: however TCP cuts a message, a client that sends what it declares as
\* Content-Length and is not gone has all of it handed to the handler, or is refused
\* because it is over max_request_bytes_.
THEOREM MessagesAreFramed == Spec => []FramingExact
<1>1. Init => FramingInv
  BY DEF Init, FramingInv, Framing, Exact
<1>2. FramingInv => FramingExact
  BY DEF FramingInv, Framing, FramingExact
<1> QED  BY <1>1, <1>2, ConnectionInvariant, FramingStep, PTL DEF Spec

-----------------------------------------------------------------------------
(* run() and joinClientThreads.                                            *)

Among(c, s) == \E i \in DOMAIN s : s[i] = c

\* Every connection that is open has a thread in one of the two vectors; the local one is
\* filled only while its threads are joined, and client_threads_ has been emptied by then.
ThreadsInv ==
    /\ threads \in Seq(Clients) /\ joining \in Seq(Clients)
    /\ \A c \in Clients : Open(c) => Among(c, threads) \/ Among(c, joining)
    /\ rpc # "joining" => joining = <<>>
    /\ rpc \in {"joining", "returned", "destroyed"} => threads = <<>>
    /\ fate = "abandoned" => rpc = "threw"

LEMMA AmongAppended ==
    ASSUME NEW s \in Seq(Clients), NEW d \in Clients
    PROVE  /\ Append(s, d) \in Seq(Clients) /\ Among(d, Append(s, d))
           /\ \A c \in Clients : Among(c, s) => Among(c, Append(s, d))
<1>1. /\ Append(s, d) \in Seq(Clients) /\ Len(s) \in Nat
      /\ DOMAIN s = 1 .. Len(s) /\ DOMAIN Append(s, d) = 1 .. Len(s) + 1
      /\ Append(s, d)[Len(s) + 1] = d /\ \A i \in 1 .. Len(s) : Append(s, d)[i] = s[i]
  OBVIOUS
<1>2. Len(s) + 1 \in 1 .. Len(s) + 1 /\ 1 .. Len(s) \subseteq 1 .. Len(s) + 1
  BY <1>1
<1> QED  BY <1>1, <1>2 DEF Among

LEMMA AmongTail ==
    ASSUME NEW s \in Seq(Clients), s # <<>>
    PROVE  /\ Tail(s) \in Seq(Clients) /\ Head(s) \in Clients
           /\ \A c \in Clients : Among(c, s) => c = Head(s) \/ Among(c, Tail(s))
<1>1. /\ Tail(s) \in Seq(Clients) /\ Head(s) \in Clients /\ Len(s) \in Nat /\ DOMAIN s = 1 .. Len(s)
      /\ DOMAIN Tail(s) = 1 .. Len(s) - 1 /\ \A i \in 1 .. Len(s) - 1 : Tail(s)[i] = s[i + 1]
      /\ Head(s) = s[1]
  OBVIOUS
<1>2. ASSUME NEW i \in 1 .. Len(s), i # 1
      PROVE  i - 1 \in DOMAIN Tail(s) /\ Tail(s)[i - 1] = s[i]
  <2>1. i - 1 \in 1 .. Len(s) - 1 /\ (i - 1) + 1 = i
    BY <1>1, <1>2
  <2> QED  BY <1>1, <2>1
<1>3. ASSUME NEW c \in Clients, Among(c, s), c # Head(s)
      PROVE  Among(c, Tail(s))
  <2>1. PICK i \in 1 .. Len(s) : s[i] = c
    BY <1>1, <1>3 DEF Among
  <2>2. i # 1
    BY <1>1, <1>3, <2>1
  <2> QED  BY <1>2, <2>1, <2>2 DEF Among
<1> QED  BY <1>1, <1>3

\* A thread that serves its connection is in the vector it was in.
LEMMA ConnectionKeepsThreads ==
    ASSUME ConnectionInv, ThreadsInv, NEW c \in Clients,
           \/ Recv(c) \/ GoAway(c) \/ Respond(c) \/ Dispatch(c) \/ RecvEnds(c)
    PROVE  ThreadsInv'
<1>1. UNCHANGED <<serverVars, fate>>
  BY DEF Recv, GoAway, Respond, Dispatch, RecvEnds
<1>2. CASE UNCHANGED hpc
  BY <1>1, <1>2 DEF ThreadsInv, serverVars, Open
<1>3. CASE ~UNCHANGED hpc
  <2>1. Open(c) /\ \A d \in Clients \ {c} : hpc'[d] = hpc[d]
    <3>1. CASE Recv(c)
      <4>1. PICK n \in raw[c] + 1 .. raw[c] + BufferSize : Received(c, n)
        BY <3>1 DEF Recv
      <4>2. n \in Nat
        BY <4>1, HttpAssumption DEF ConnectionInv
      <4> QED  BY <1>3, <3>1, <4>1, <4>2, ReceivedCases DEF Recv, Open, ConnectionInv
    <3>2. CASE ~Recv(c)
      BY <1>3, <3>2 DEF GoAway, Respond, Dispatch, RecvEnds, Sending, Goto, Open, ConnectionInv
    <3> QED  BY <3>1, <3>2
  <2>2. \A d \in Clients : Open(d)' => Open(d)
    BY <2>1 DEF Open
  <2> QED  BY <1>1, <2>2 DEF ThreadsInv, serverVars
<1> QED  BY <1>2, <1>3

LEMMA ThreadsStep == ConnectionInv /\ ThreadsInv /\ [Next]_vars => ThreadsInv'
<1> SUFFICES ASSUME ConnectionInv, ThreadsInv, [Next]_vars PROVE ThreadsInv'
  OBVIOUS
<1>1. CASE \/ Socket \/ BindAndListen \/ Start \/ Loop \/ AcceptFails \/ StopStep
           \/ \E c \in Clients : BrokenPipe(c) \/ StreamThrows(c)
           \/ UNCHANGED vars
  <2>1. UNCHANGED <<threads, joining, hpc>>
    BY <1>1 DEF Socket, BindAndListen, Start, Loop, AcceptFails, StopStep, StopRunning, Close,
                BrokenPipe, StreamThrows, vars, serverVars, clientVars
  <2>2. /\ rpc # "joining" => rpc' # "joining"
        /\ rpc' \in {"joining", "returned", "destroyed"} => rpc' = rpc
        /\ fate' = "abandoned" => fate = "abandoned"
        /\ rpc = "threw" => rpc' = "threw"
    BY <1>1 DEF Socket, BindAndListen, Start, Loop, AcceptFails, StopStep, StopRunning, Close,
                BrokenPipe, StreamThrows, vars, serverVars, clientVars
  <2>3. rpc = "joining" => rpc' = "joining"
    BY <1>1 DEF Socket, BindAndListen, Start, Loop, AcceptFails, StopStep, StopRunning, Close,
                BrokenPipe, StreamThrows, vars, serverVars, clientVars
  <2> QED  BY <2>1, <2>2, <2>3 DEF ThreadsInv, Open
<1>2. ASSUME NEW c \in Clients, Accept(c) PROVE ThreadsInv'
  <2>1. rpc = "accept" /\ joining = <<>> /\ UNCHANGED <<joining, fate>>
    BY <1>2 DEF Accept, ThreadsInv
  <2>2. CASE UNCHANGED <<threads, hpc>> /\ rpc' = "threw"
    BY <2>1, <2>2 DEF ThreadsInv, Open
  <2>3. CASE hpc' = [hpc EXCEPT ![c] = "recv"] /\ threads' = Append(threads, c) /\ rpc' = "loop"
    <3>1. \A d \in Clients \ {c} : hpc'[d] = hpc[d]
      BY <2>3 DEF ConnectionInv
    <3> QED  BY <2>1, <2>3, <3>1, AmongAppended DEF ThreadsInv, Open
  <2> QED  BY <1>2, <2>2, <2>3 DEF Accept
<1>3. CASE SwapThreads
  <2>1. /\ rpc = "join" /\ joining = <<>> /\ rpc' = "joining"
        /\ joining' = threads /\ threads' = joining /\ UNCHANGED <<fate, hpc>>
    BY <1>3 DEF SwapThreads, ThreadsInv, clientVars
  <2> QED  BY <2>1 DEF ThreadsInv, Open
<1>4. CASE JoinThreads
  <2>1. rpc = "joining" /\ UNCHANGED <<threads, fate, hpc>> /\ threads = <<>>
    BY <1>4 DEF JoinThreads, ThreadsInv, clientVars
  <2>2. CASE joining = <<>> /\ rpc' = "returned" /\ UNCHANGED joining
    BY <2>1, <2>2 DEF ThreadsInv, Open
  <2>3. CASE /\ joining # <<>> /\ hpc[Head(joining)] = "closed"
             /\ joining' = Tail(joining) /\ UNCHANGED rpc
    <3>1. \A c \in Clients : Open(c) => c # Head(joining)
      BY <2>3 DEF Open
    <3> QED  BY <2>1, <2>3, <3>1, AmongTail DEF ThreadsInv, Open
  <2> QED  BY <1>4, <2>2, <2>3 DEF JoinThreads
<1>5. CASE Next /\ Destroy
  <2>1. /\ UNCHANGED <<threads, joining, hpc>> /\ rpc \in {"returned", "threw"}
        /\ \/ threads = <<>> /\ rpc' = "destroyed" /\ UNCHANGED fate
           \/ threads # <<>> /\ fate' = "abandoned" /\ UNCHANGED rpc
    BY <1>5 DEF Destroy, clientVars
  <2>2. fate # "abandoned"
    BY <1>5 DEF Next, Alive
  <2> QED  BY <2>1, <2>2 DEF ThreadsInv, Open
<1>6. ASSUME NEW c \in Clients,
             \/ Recv(c) \/ GoAway(c) \/ Respond(c) \/ Dispatch(c) \/ RecvEnds(c)
      PROVE  ThreadsInv'
  BY <1>6, ConnectionKeepsThreads
<1> QED
  BY <1>1, <1>2, <1>3, <1>4, <1>5, <1>6 DEF Next, RunStep, OwnStep

\* run() leaves no thread behind, and its server can be destroyed: every thread it has
\* started is in client_threads_ until it is swapped out, and in the local vector until it
\* is joined.  Only a run() that has thrown leaves any for the destructor.
THEOREM RunJoinsItsThreads == Spec => []NoThreadOutlivesServer
<1>1. Init => ThreadsInv
  BY DEF Init, ThreadsInv, Open
<1>2. ThreadsInv => NoThreadOutlivesServer
  BY DEF ThreadsInv, NoThreadOutlivesServer, Among
<1> QED  BY <1>1, <1>2, ConnectionInvariant, ThreadsStep, PTL DEF Spec
=============================================================================
