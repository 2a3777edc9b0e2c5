------------------------------ MODULE MCLogging ------------------------------
(* Instances of Logging for TLC. *)
EXTENDS Logging, TLC

CONSTANTS server, client

Kinds == (server :> "server") @@ (client :> "client")

\* A message with nothing special, and one that looks like a format and is longer
\* than a buffer.
Statements == {<<"Error", <<"text">>>>, <<"Info", <<"%level", "%msg", "%datetime">>>>}

\* The library's handler logs twice.
Lines == [main |-> 2, reader |-> 1, handler |-> 2]
=============================================================================
