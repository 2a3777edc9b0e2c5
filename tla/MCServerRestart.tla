--------------------------- MODULE MCServerRestart ---------------------------
(* Instances of ServerRestart for TLC. *)
EXTENDS ServerRestart, TLC

CONSTANTS e1, e2, u1, u2, c1, l1, l2, s1

TwoUsers   == (e1 :> u1) @@ (e2 :> u2)
OneLogon   == c1 :> l1
OneSession == c1 :> s1

\* Entries of the users' own on the object directory only.
Directory == {<<s1, "directory">>}

\* The ids are interchangeable, and so are the two users with their clients.
\* (NextId keeps this sound: the ids it chooses from are all alike.)
Swap == (e1 :> e2) @@ (e2 :> e1) @@ (u1 :> u2) @@ (u2 :> u1)
Symmetry == Permutations(Ids) \cup {Swap} \cup {p @@ Swap : p \in Permutations(Ids)}
=============================================================================
