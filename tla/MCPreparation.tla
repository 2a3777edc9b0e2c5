--------------------------- MODULE MCPreparation ---------------------------
(* An instance of Preparation for TLC: three clients of one user, on a      *)
(* console with two possible logon sessions.  A client of another user      *)
(* would differ from one that comes after a switch of the console only in   *)
(* that its key cannot change back.                                         *)
EXTENDS Preparation, TLC

CONSTANTS u, c1, c2, l1, l2

OneUser   == [e \in Execs |-> u]
MCLogonOf == (c1 :> l1) @@ (c2 :> l2)

\* Preparation ids are interchangeable, and so are the clients.
Symmetry == Permutations(Ids) \cup Permutations(Execs)
=============================================================================
