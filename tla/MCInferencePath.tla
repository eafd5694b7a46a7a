-------------------------- MODULE MCInferencePath --------------------------
(* A small instance of InferencePath for TLC: a model with two inputs of   *)
(* two columns and a batch axis of any length, elements of two bytes, and  *)
(* a size_t of four bits.                                                  *)
EXTENDS InferencePath, TLC

CONSTANTS c1, c2

TwoClients == {c1, c2}

Dynamic == -1
In(name, shape, form, size) ==
    [name |-> name, datatype |-> "FP32", shape |-> shape, form |-> form, size |-> size]

TwoInputs == <<[name |-> "a", datatype |-> "FP32", shape |-> <<Dynamic, 2>>],
               [name |-> "b", datatype |-> "FP32", shape |-> <<Dynamic, 1>>]>>
OutputNames == <<"out">>

Body(transport, inputs, blob) == [transport |-> transport, inputs |-> inputs, outputs |-> <<>>, blob |-> blob]

\* One row or two, inline or behind the header, over either transport.
ExactBodies ==
    {Body("http", <<In("a", <<1, 2>>, "data", 2), In("b", <<1, 1>>, "data", 1)>>, 0),
     Body("http", <<In("b", <<2, 1>>, "binary", 4), In("a", <<2, 2>>, "binary", 8)>>, 12),
     Body("http", <<In("a", <<2, 2>>, "data", 4), In("b", <<2, 1>>, "binary", 4)>>, 4),
     Body("grpc", <<In("a", <<1, 2>>, "binary", 4), In("b", <<1, 1>>, "binary", 2)>>, 0),
     Body("grpc", <<In("a", <<2, 2>>, "data", 4), In("b", <<2, 1>>, "data", 2)>>, 0)}

\* A byte too many in the last element, no data, no rows, inputs of different length.
OddBodies ==
    {Body("http", <<In("a", <<1, 2>>, "binary", 5), In("b", <<1, 1>>, "binary", 2)>>, 7),
     Body("http", <<In("a", <<1, 2>>, "data", 0), In("b", <<1, 1>>, "data", 1)>>, 0),
     Body("http", <<In("a", <<0, 2>>, "data", 2), In("b", <<0, 1>>, "data", 0)>>, 0),
     Body("http", <<In("a", <<1, 2>>, "data", 2), In("b", <<2, 1>>, "data", 2)>>, 0),
     Body("grpc", <<In("a", <<1, 2>>, "data", 1), In("b", <<1, 1>>, "data", 1)>>, 0)}

\* Refused over HTTP, for one reason each.
WrongBodies ==
    {Body("http", <<In("a", <<1, 2>>, "data", 2)>>, 0),
     Body("http", <<In("a", <<1, 2>>, "data", 2), In("a", <<1, 2>>, "data", 2)>>, 0),
     Body("http", <<In("a", <<1, 1>>, "data", 1), In("b", <<1, 1>>, "data", 1)>>, 0),
     Body("http", <<In("a", <<8, 2>>, "data", 2), In("b", <<1, 1>>, "data", 1)>>, 0),
     Body("http", <<In("a", <<1, 2>>, "binary", 4), In("b", <<1, 1>>, "data", 1)>>, 5),
     Body("http", <<In("a", <<1, 2>>, "binary", 4), In("b", <<1, 1>>, "binary", 2)>>, 5),
     Body("grpc", <<In("a", <<1, 1>>, "data", 1), In("b", <<1, 1>>, "data", 1)>>, 0)}

AllBodies == ExactBodies \cup OddBodies \cup WrongBodies
============================================================================
