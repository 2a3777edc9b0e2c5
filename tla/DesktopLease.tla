---------------------------- MODULE DesktopLease ----------------------------
(***************************************************************************)
(* What the registry of preparations promises, without its objects and     *)
(* maps.  Each place (a user on a console) has tenants, the clients that   *)
(* rely on it being prepared, and at most one holder, the process that     *)
(* prepares it, serves it and takes the preparation back at the end.       *)
(*                                                                         *)
(* A tenancy begins only while the place has no holder, so the process     *)
(* that serves a tenancy is never one left over from an earlier tenancy.   *)
(***************************************************************************)
CONSTANTS Clients, Places, Processes, None

VARIABLES
  tenancy,   \* the place each client relies on, or None
  holder,    \* the process that holds each place, or None
  spent      \* the processes that have held a place or were turned away

leaseVars == <<tenancy, holder, spent>>

Occupied(k) == \E c \in Clients : tenancy[c] = k

Init ==
  /\ tenancy = [c \in Clients |-> None]
  /\ holder = [k \in Places |-> None]
  /\ spent = {}

\* A client joins the tenants of a place, or begins a tenancy.
Join(c, k) ==
  /\ Occupied(k) \/ holder[k] = None
  /\ tenancy' = [tenancy EXCEPT ![c] = k]
  /\ UNCHANGED <<holder, spent>>

Leave(c) ==
  /\ tenancy' = [tenancy EXCEPT ![c] = None]
  /\ UNCHANGED <<holder, spent>>

\* A process takes a place that somebody is waiting for.  It does so once.
Acquire(p, k) ==
  /\ p \notin spent
  /\ Occupied(k) /\ holder[k] = None
  /\ holder' = [holder EXCEPT ![k] = p]
  /\ spent' = spent \cup {p}
  /\ UNCHANGED tenancy

TurnAway(p) ==
  /\ spent' = spent \cup {p}
  /\ UNCHANGED <<tenancy, holder>>

\* The process has left the place, or died.
Release(k) ==
  /\ holder' = [holder EXCEPT ![k] = None]
  /\ UNCHANGED <<tenancy, spent>>

Next ==
  \/ \E c \in Clients : Leave(c) \/ \E k \in Places : Join(c, k)
  \/ \E p \in Processes : TurnAway(p) \/ \E k \in Places : Acquire(p, k)
  \/ \E k \in Places : Release(k)

Spec == Init /\ [][Next]_leaseVars
=============================================================================
