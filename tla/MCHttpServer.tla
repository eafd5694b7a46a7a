---------------------------- MODULE MCHttpServer ----------------------------
(* A small instance of HttpServer for TLC.                                 *)
EXTENDS HttpServer

CONSTANTS c1, c2

\* Honest clients below, at and over the limit and in another spelling, one that declares
\* more than it sends and one that declares less, lengths that do not parse, and one
\* whose sum with the head wraps around.
SomeMessages ==
    [head : {2}, body : {0}, length : {"absent", "malformed"}, declared : {0}]
    \cup {[head |-> 2, body |-> b, length |-> "number", declared |-> b] : b \in {4, 5}}
    \cup [head : {2}, body : {1}, length : {"number"}, declared : {0, 3, 15, 16}]
    \cup [head : {2}, body : {2}, length : {"otherwise"}, declared : {2}]

Shortest == [head |-> 2, body |-> 0, length |-> "absent", declared |-> 0]

\* Of two connections the second is there for what threads do to each other: its client
\* sends the shortest message.
TwoUnlike == Init /\ [][Next /\ message'[c2] \in {NoMessage, Shortest}]_vars /\ Fairness
=============================================================================
