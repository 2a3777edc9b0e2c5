-------------------------- MODULE MCControlEvents --------------------------
(* An instance of ControlEvents for TLC: two clients, of which one presses  *)
(* twice, so that its events can overtake each other and the other's.       *)
EXTENDS ControlEvents, TLC

CONSTANTS a, b

TwiceAndOnce == (a :> 2) @@ (b :> 1)
=============================================================================
