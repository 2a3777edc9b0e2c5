------------------------------ MODULE MCLaunch ------------------------------
(* Instances of Launch for TLC. *)
EXTENDS Launch, TLC

Chars == {"a", Blank, Quote, Backslash}
UpTo(n) == UNION {[1..k -> Chars] : k \in 0..n}

\* No argument, a program, and a program with an argument of up to two characters.
Few == {<<>>} \cup {<<a>> : a \in UpTo(1)} \cup {<<a, b>> : a \in UpTo(1), b \in UpTo(2)}

\* One string, and two.
OneAndTwo == {<< <<"v">> >>, << <<"v">>, <<"v", "w">> >>}
=============================================================================
