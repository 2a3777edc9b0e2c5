---------------------------- MODULE Preparation ----------------------------
(***************************************************************************)
(* The registry of window-station preparations kept by ConsoleServer.exe:  *)
(* the static maps of class WindowStationPreparation, the shared_ptr each  *)
(* CExec object holds on a preparation, and the CPrepareWindowStationComm  *)
(* object through which the PrepareWindowStation.exe of a preparation      *)
(* talks to it.                                                            *)
(*                                                                         *)
(* The server is a single-threaded COM apartment, so every COM call runs   *)
(* to its end before the next one starts: each handler is one action.  A   *)
(* handler that only fails (returns E_FAIL, or answers "not yet") changes  *)
(* nothing and is a stuttering step.                                       *)
(*                                                                         *)
(* A preparation id names three things that come and go separately: the    *)
(* WindowStationPreparation object, the process launched with the id on    *)
(* its command line, and that process's communication object.              *)
(***************************************************************************)
EXTENDS Naturals

CONSTANTS
  Execs,      \* CExec objects (slots: a released one may be created again)
  Sids,       \* client users
  SidOf,      \* the user a CExec acts for
  Consoles,   \* what the physical console can be: a session and who is on it
  Logons,     \* logon sessions of the console tokens
  LogonOf,    \* the logon session of the console token
  Ids,        \* preparation ids (GenerateUuidString); bounds the preparations
  None        \* null pointer, missing map entry, no active console

ASSUME PreparationAssumption ==
  /\ SidOf \in [Execs -> Sids]
  /\ LogonOf \in [Consoles -> Logons]
  /\ None \notin Ids \cup Consoles \cup (Sids \X Logons)

VARIABLES
  console,     \* the active console, None while there is no console session
  live,        \* the CExec objects that exist
  prepOf,      \* CExec::mWindowStationPreparation
  key,         \* mClientConsoleString of the preparation made under an id
  isPrepared,  \* mIsPrepared
  byId,        \* domain of sActivePrepationsById (id i maps to object i)
  byKey,       \* sActivePreparationsByClientAndConsole; None: absent or empty
  running,     \* sRunningPrepareProcessesByClientAndConsole, as multiplicities
  launched,    \* the console on which an id's process was started
  comm         \* state of the communication object of an id's process

objects == <<live, prepOf, key, isPrepared>>
maps    == <<byId, byKey, running>>
regVars == <<console, objects, maps, launched, comm>>

\* GetConsoleAccessToken fails while there is no console session.
ConsoleFound == console # None

\* "SID_ON_LUID": the client's user and the logon session of the console.
Keys == Sids \X Logons
ClientConsoleString(e, c) == <<SidOf[e], LogonOf[c]>>

CommStates == {"none", "attached", "destroyed"}

TypeOK ==
  /\ console \in Consoles \cup {None}
  /\ live \subseteq Execs
  /\ prepOf \in [Execs -> Ids \cup {None}]
  /\ key \in [Ids -> Keys \cup {None}]
  /\ isPrepared \in [Ids -> BOOLEAN]
  /\ byId \subseteq Ids
  /\ byKey \in [Keys -> Ids \cup {None}]
  /\ running \in [Keys -> Nat]
  /\ launched \in [Ids -> Consoles \cup {None}]
  /\ comm \in [Ids -> CommStates]

Init ==
  /\ console \in Consoles \cup {None}
  /\ live = {}
  /\ prepOf = [e \in Execs |-> None]
  /\ key = [i \in Ids |-> None]
  /\ isPrepared = [i \in Ids |-> FALSE]
  /\ byId = {}
  /\ byKey = [k \in Keys |-> None]
  /\ running = [k \in Keys |-> 0]
  /\ launched = [i \in Ids |-> None]
  /\ comm = [i \in Ids |-> "none"]

-----------------------------------------------------------------------------
(* Object lifetime.                                                        *)

\* weak_ptr::expired is the negation of Active: a preparation object exists
\* exactly as long as some CExec holds a shared_ptr on it.
Active(i) == \E e \in Execs : prepOf[e] = i

\* weak_ptr::lock on the entry of the map by client and console.
Lock(k) == IF byKey[k] # None /\ Active(byKey[k]) THEN byKey[k] ELSE None

\* Mutant: the destructor erases the entry by id only.
SetPreparationErasingId(e, i, ids, keys) ==
  LET old == prepOf[e]
      destructed == /\ old # None /\ old # i
                    /\ \A f \in Execs \ {e} : prepOf[f] # old
  IN  /\ prepOf' = [prepOf EXCEPT ![e] = i]
      /\ byId' = IF destructed THEN ids \ {old} ELSE ids
      /\ byKey' = keys

\* mWindowStationPreparation of e becomes i, on maps ids and keys.  If e held
\* the last reference on another preparation, that one is destructed, and its
\* destructor erases both map entries.
SetPreparation(e, i, ids, keys) ==
  LET old == prepOf[e]
      destructed == /\ old # None /\ old # i
                    /\ \A f \in Execs \ {e} : prepOf[f] # old
  IN  /\ prepOf' = [prepOf EXCEPT ![e] = i]
      /\ byId' = IF destructed THEN ids \ {old} ELSE ids
      /\ byKey' = IF destructed THEN [keys EXCEPT ![key[old]] = None] ELSE keys

-----------------------------------------------------------------------------
(* Calls of the clients.                                                   *)

CreateExec(e) ==
  /\ e \notin live
  /\ live' = live \cup {e}
  /\ UNCHANGED <<console, prepOf, key, isPrepared, maps, launched, comm>>

\* The last COM reference on the CExec is released, by the client or by COM
\* after the client died: ~CExec releases the preparation.
DestroyExec(e) ==
  /\ e \in live
  /\ live' = live \ {e}
  /\ SetPreparation(e, None, byId, byKey)
  /\ UNCHANGED <<console, key, isPrepared, running, launched, comm>>

\* Prepare finds a live preparation of this client on this console.
ReusePreparation(e) ==
  /\ e \in live /\ ConsoleFound
  /\ LET i == Lock(ClientConsoleString(e, console))
     IN  i # None /\ SetPreparation(e, i, byId, byKey)
  /\ UNCHANGED <<console, live, key, isPrepared, running, launched, comm>>

\* Mutants: a new preparation is made although a process of an earlier one is
\* terminating, or although one for the client and console is active.
NewPreparation(e, i, c, k) ==
  /\ key[i] = None
  /\ key' = [key EXCEPT ![i] = k]
  /\ SetPreparation(e, i, byId \cup {i}, [byKey EXCEPT ![k] = i])
  /\ console' = c
  /\ launched' = [launched EXCEPT ![i] = c]
  /\ UNCHANGED <<live, isPrepared, running, comm>>

CreateWhileTerminating(e, i, c) ==
  /\ e \in live /\ ConsoleFound
  /\ LET k == ClientConsoleString(e, console)
     IN  Lock(k) = None /\ NewPreparation(e, i, c, k)

CreateBesideActive(e, i, c) ==
  /\ e \in live /\ ConsoleFound
  /\ LET k == ClientConsoleString(e, console)
     IN  running[k] = 0 /\ NewPreparation(e, i, c, k)

\* StartPreparation asks for the console a second time: c is what it finds, and
\* may differ from what Prepare found.  CreateProcessAsUser may fail, which is
\* only logged.
StartPreparation(i, c) ==
  /\ console' = c
  /\ \/ launched' = [launched EXCEPT ![i] = c]
     \/ UNCHANGED launched

\* Prepare makes a new preparation, unless a process of an earlier one is still
\* terminating, and starts its process.  If StartPreparation throws, the new
\* preparation is destructed and both entries are gone again.
CreatePreparation(e, i, c) ==
  /\ e \in live /\ ConsoleFound
  /\ key[i] = None
  /\ LET k == ClientConsoleString(e, console)
     IN  /\ Lock(k) = None
         /\ running[k] = 0
         /\ key' = [key EXCEPT ![i] = k]
         /\ SetPreparation(e, i, byId \cup {i}, [byKey EXCEPT ![k] = i])
  /\ StartPreparation(i, c)
  /\ UNCHANGED <<live, isPrepared, running, comm>>

-----------------------------------------------------------------------------
(* Calls of the PrepareWindowStation.exe launched for preparation i.       *)

\* GetPreparationById finds a preparation.
Findable(i) == i \in byId /\ Active(i)

\* Mutant: a process attaches to a preparation that has expired.
AttachExpired(i) ==
  /\ launched[i] # None /\ comm[i] = "none"
  /\ comm' = [comm EXCEPT ![i] = "attached"]
  /\ running' = [running EXCEPT ![key[i]] = @ + 1]
  /\ UNCHANGED <<console, objects, byId, byKey, launched>>

\* CPrepareWindowStationComm::Attach.
Attach(i) ==
  /\ launched[i] # None /\ comm[i] = "none"
  /\ Findable(i)
  /\ comm' = [comm EXCEPT ![i] = "attached"]
  /\ running' = [running EXCEPT ![key[i]] = @ + 1]
  /\ UNCHANGED <<console, objects, byId, byKey, launched>>

\* Mutant: the destructor of a communication object that never attached takes
\* the string off a count of running processes all the same.
AttachFailsUncounted(i) ==
  /\ launched[i] # None /\ comm[i] = "none"
  /\ ~Findable(i)
  /\ comm' = [comm EXCEPT ![i] = "destroyed"]
  /\ running' = [running EXCEPT ![key[i]] = @ - 1]
  /\ UNCHANGED <<console, objects, byId, byKey, launched>>

\* The preparation is gone: E_FAIL, and the process exits.  The destructor of
\* its communication object does nothing, since mClientAndConsole is empty.
AttachFails(i) ==
  /\ launched[i] # None /\ comm[i] = "none"
  /\ ~Findable(i)
  /\ comm' = [comm EXCEPT ![i] = "destroyed"]
  /\ UNCHANGED <<console, objects, maps, launched>>

\* CPrepareWindowStationComm::PreparationCompleted, on an unexpired preparation.
PreparationCompleted(i) ==
  /\ comm[i] = "attached" /\ Active(i)
  /\ isPrepared' = [isPrepared EXCEPT ![i] = TRUE]
  /\ UNCHANGED <<console, live, prepOf, key, maps, launched, comm>>

\* ~CPrepareWindowStationComm, when the process has exited or died;
\* list::remove drops every occurrence of the string.
CommDestroyed(i) ==
  /\ comm[i] = "attached"
  /\ comm' = [comm EXCEPT ![i] = "destroyed"]
  /\ running' = [running EXCEPT ![key[i]] = 0]
  /\ UNCHANGED <<console, objects, byId, byKey, launched>>

\* Somebody logs on or off at the console, or it is switched.
SwitchConsole(c) ==
  /\ console' = c
  /\ UNCHANGED <<objects, maps, launched, comm>>

ClientNext(e) ==
  \/ CreateExec(e)
  \/ DestroyExec(e)
  \/ ReusePreparation(e)
  \/ \E i \in Ids, c \in Consoles : CreatePreparation(e, i, c)

ProcessNext(i) ==
  \/ Attach(i)
  \/ AttachFails(i)
  \/ PreparationCompleted(i)
  \/ CommDestroyed(i)

Next ==
  \/ \E e \in Execs : ClientNext(e)
  \/ \E i \in Ids : ProcessNext(i)
  \/ \E c \in Consoles \cup {None} : SwitchConsole(c)

Spec == Init /\ [][Next]_regVars

-----------------------------------------------------------------------------
(* Properties.                                                             *)

\* The maps and the objects agree although entries are erased by destructors:
\* no entry outlives its object (a dangling entry would be found by a later
\* client), and no destructor erases the entry of a successor (which would
\* let a second preparation of the same key be created beside it).
MapsMatchObjects ==
  /\ \A i \in Ids : i \in byId <=> Active(i)
  /\ \A i \in Ids : Active(i) => key[i] # None /\ byKey[key[i]] = i
  /\ \A k \in Keys : byKey[k] # None => Active(byKey[k]) /\ key[byKey[k]] = k

\* The list of running prepare processes holds a string exactly once for the
\* one attached process of that client and console, and never otherwise.  So
\* the remove-all of PrepareProcessTerminated, called from the destructor of
\* one communication object, cannot forget the process of another one.
RunningIsExact ==
  /\ \A i \in Ids : comm[i] = "attached" => key[i] # None
  /\ \A k \in Keys : running[k] \in {0, 1}
  /\ \A k \in Keys : running[k] = 1 <=> \E i \in Ids : comm[i] = "attached" /\ key[i] = k
  /\ \A i, j \in Ids :
       comm[i] = "attached" /\ comm[j] = "attached" /\ key[i] = key[j] => i = j

\* What PreparationStillTerminating is for: while a preparation is active, no
\* process of an earlier preparation for the same client and console is still
\* attached, so nothing is revoked under the new preparation's feet.
NoLeftoverProcess ==
  \A i, j \in Ids :
    Active(i) /\ comm[j] = "attached" /\ key[i] = key[j] => i = j

\* All clients of a user on one console share one preparation.
SharedPreparation ==
  \A i, j \in Ids : Active(i) /\ Active(j) /\ key[i] = key[j] => i = j

\* What a client relies on, and the process that is attached for a key.
Tenancy == [e \in Execs |-> IF prepOf[e] = None THEN None ELSE key[prepOf[e]]]
Serves(i, k) == comm[i] = "attached" /\ key[i] = k
Holder == [k \in Keys |-> IF \E i \in Ids : Serves(i, k)
                          THEN CHOOSE i \in Ids : Serves(i, k) ELSE None]

\* The registry implements leases on desktops: whatever calls arrive in which
\* order, one process at a time prepares a place, it never comes back, and the
\* first client of a place waits until the process of the former ones is gone.
Lease == INSTANCE DesktopLease WITH
  Clients   <- Execs,
  Places    <- Keys,
  Processes <- Ids,
  tenancy   <- Tenancy,
  holder    <- Holder,
  spent     <- {i \in Ids : comm[i] # "none"}
LeaseSpec == Lease!Spec

=============================================================================
