----------------------- MODULE MCPrepareWindowStation -----------------------
(* Instances of PrepareWindowStation for TLC.                              *)
EXTENDS PrepareWindowStation, TLC

CONSTANTS e1, e2, u1, u2, c1, c2, l1, l2, s1, s2

\* Both clients act for one user, or each for a user of his own.
OneUser  == (e1 :> u1) @@ (e2 :> u1)
TwoUsers == (e1 :> u1) @@ (e2 :> u2)

\* A console nobody logs on to or off from.
OneLogon   == c1 :> l1
OneSession == c1 :> s1

\* Two sessions nobody is logged on to: the server's own token stands in for
\* the one of a user, so both have the same logon session.
NobodyLoggedOn == (c1 :> l1) @@ (c2 :> l1)
TwoSessions    == (c1 :> s1) @@ (c2 :> s2)

\* Entries of the users' own on both objects of the one session, or on the
\* window station of the first of two.
BothObjects   == {s1} \X Shared
WindowStation == {<<s1, "winsta">>}

=============================================================================
