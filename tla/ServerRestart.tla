---------------------------- MODULE ServerRestart ----------------------------
(***************************************************************************)
(* PrepareWindowStation with a server that crashes and is started again by *)
(* the next client.  All that the registry knows is in the memory of       *)
(* ConsoleServer.exe: the new one begins empty, while the processes that   *)
(* the old one launched live on.  Such an orphan notices at its next call  *)
(* of the server, and then aborts or takes back what it granted.           *)
(*                                                                         *)
(* The clients of a server that crashed end with it (their next call       *)
(* fails, and OnConsole returns -3); their processes on the console are    *)
(* killed by nobody, since the job is not one that ends with its handle.   *)
(***************************************************************************)
EXTENDS PrepareWindowStation

CONSTANT MaxCrashes   \* bound: crashes of the server

ASSUME ServerRestartAssumption == MaxCrashes \in Nat

VARIABLES
  crashes,     \* how often the server has crashed
  orphans,     \* ids whose process had attached to a server that crashed
  disturbed    \* history: ids beside whose process, or under whose clients, a
               \* process of another key or an orphan has run on the same session

restartVars == <<crashes, orphans, disturbed>>
allVars     == <<vars, restartVars>>

Runs(i) == launched[i] # None /\ end[i] = "running"

\* While process i works, or a client relies on what it has granted, process j
\* changes the same access-control lists, and the registry does not keep the
\* two apart: they serve different keys, or one of them is an orphan.
Conflict(i, j) ==
  /\ i # j /\ launched[i] # None /\ (Runs(i) \/ Active(i)) /\ Runs(j)
  /\ SessionOf[launched[i]] = SessionOf[launched[j]]
  /\ key[i] # key[j] \/ i \in orphans \/ j \in orphans
Disturbed == {i \in Ids : \E j \in Ids : Conflict(i, j)}

RInit ==
  /\ PWInit
  /\ crashes = 0 /\ orphans = {} /\ disturbed = {}

-----------------------------------------------------------------------------

\* The memory of the server is lost: its objects, its maps, its list.
Crash ==
  /\ crashes < MaxCrashes /\ crashes' = crashes + 1
  /\ orphans' = orphans \cup {i \in Ids : comm[i] = "attached" /\ Runs(i)}
  /\ live' = {} /\ prepOf' = [e \in Execs |-> None]
  /\ byId' = {} /\ byKey' = [k \in Keys |-> None]
  /\ running' = [k \in Keys |-> 0]
  /\ comm' = [i \in Ids |-> IF comm[i] = "attached" THEN "destroyed" ELSE comm[i]]
  /\ startedOn' = [e \in Execs |-> None]
  /\ UNCHANGED <<console, key, isPrepared, launched, pc, end, acl, original, dacl, had>>

\* GetData and PreparationCompleted of an orphan fail, and it leaves; so it does
\* when a call on an object fails.
OrphanAborts(i) ==
  /\ i \in orphans /\ Runs(i)
  /\ Op(i) \in {"GetData", "PreparationCompleted"} \/ Kind(i) \in MayFail
  /\ Exit(i, "aborted")
  /\ UNCHANGED regVars

\* Mutant: the process waits for an answer of the server that it served.
OrphanWaits(i) ==
  /\ i \in orphans /\ At(i, "Return") /\ comm[i] = "attached"
  /\ Exit(i, "returned")
  /\ UNCHANGED regVars

OrphanReturns(i) ==
  /\ i \in orphans /\ At(i, "Return")
  /\ Exit(i, "returned")
  /\ UNCHANGED regVars

\* WaitWhileActive catches the error of IsActive and goes on to revoke, so the
\* remaining steps of an orphan are those of PrepareWindowStation.
OrphanStep(i) == OrphanAborts(i) \/ OrphanReturns(i)

RNext ==
  /\ \/ PWNext /\ UNCHANGED <<crashes, orphans>>
     \/ (\E i \in Ids : OrphanStep(i)) /\ UNCHANGED <<crashes, orphans>>
     \/ Crash
  /\ disturbed' = disturbed \cup Disturbed'

RSpec == RInit /\ [][RNext]_allVars

-----------------------------------------------------------------------------
(* Properties.                                                             *)

\* What a prepared preparation promises survives crashes of the server and
\* failing calls, as long as its process has the lists to itself: only the
\* process of another key, whose registry entry is another one, or an orphan of
\* a former server, which the new server knows nothing of, can take the access
\* away.  (The desktop of a process terminated from outside is deleted.)
AccessUnlessDisturbed ==
  \A i \in Ids : Active(i) /\ isPrepared[i] /\ i \notin disturbed =>
    HasAccess(User(i), SessionOf[launched[i]], Lasting(i))

\* An orphan is nowhere stuck for want of its server: at each of its positions
\* it can go on, and since it never goes back, it ends.
OrphanGoesOn ==
  \A i \in orphans : Runs(i) => ENABLED (ProcessStep(i) \/ OrphanStep(i))
=============================================================================
