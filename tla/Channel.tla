------------------------------ MODULE Channel -------------------------------
(***************************************************************************)
(* What a PipeWriter promises, without its thread, its queue and its locks *)
(* (PipeTools.h:27-106): buffers handed to Write come out byte by byte, in *)
(* order, none twice.  The destructor is not a flush.  While it runs, some *)
(* more of what was accepted may come out; what has not come out when it   *)
(* returns never will.                                                     *)
(*                                                                         *)
(* PipeWriter.tla is shown to implement this; Redirection.tla is built     *)
(* from three of these.                                                    *)
(***************************************************************************)
EXTENDS Naturals, Sequences

CONSTANT Buffers   \* the buffers an owner may write: a set of sequences

VARIABLE ch        \* accepted, out: sequences; state: "open", "closing", "closed"

Fresh == [accepted |-> <<>>, out |-> <<>>, state |-> "open"]

Accepting(c, data) == [c EXCEPT !.accepted = @ \o data]
Delivering(c)      == [c EXCEPT !.out = Append(@, c.accepted[Len(@) + 1])]
Owes(c)            == Len(c.out) < Len(c.accepted)

Accept(data) == ch.state = "open" /\ ch' = Accepting(ch, data)
Deliver      == ch.state # "closed" /\ Owes(ch) /\ ch' = Delivering(ch)
Close        == ch.state = "open" /\ ch' = [ch EXCEPT !.state = "closing"]
Closed       == ch.state = "closing" /\ ch' = [ch EXCEPT !.state = "closed"]

Init == ch = Fresh
Next == (\E data \in Buffers : Accept(data)) \/ Deliver \/ Close \/ Closed
Spec == Init /\ [][Next]_ch
=============================================================================
