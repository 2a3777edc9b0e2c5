------------------------ MODULE PrepareWindowStation ------------------------
(***************************************************************************)
(* PrepareWindowStation.exe, composed with the registry that launches it.  *)
(* The process runs on the console session; for the user of its            *)
(* preparation it grants access to the window station, to the user's own   *)
(* desktop and to the object directory of the session, reports completion, *)
(* stays while the preparation is active, and revokes what it granted.     *)
(*                                                                         *)
(* The processes run concurrently with each other and with the server.     *)
(* Every access-control list is changed by reading it whole, editing the   *)
(* copy and writing the copy back; the read and the write are two steps.   *)
(*                                                                         *)
(* Abstracted: an access-control list is the set of users that have some   *)
(* entry in it (access masks and the order of entries are left out), of    *)
(* the handles only the one that keeps a desktop in being is modelled, and *)
(* the polling of console events is not part of this module.               *)
(***************************************************************************)
EXTENDS Preparation, Sequences

CONSTANTS
  Sessions,       \* sessions the console can be
  SessionOf,      \* the session of a console
  OwnEntries,     \* bound: the shared objects with entries of the users' own
  MayFail,        \* bound: the kinds of objects on which calls may fail
  ProcessMayDie   \* TRUE: the process may be terminated from outside

ASSUME PrepareWindowStationAssumption ==
  /\ SessionOf \in [Consoles -> Sessions]
  /\ OwnEntries \subseteq Sessions \X {"winsta", "directory"}
  /\ MayFail \subseteq {"winsta", "desktop", "directory"}
  /\ ProcessMayDie \in BOOLEAN
  /\ None \notin Sids \cup Sessions

VARIABLES
  pc,         \* position of the process of an id in Program
  end,        \* how the process ended, or "running"
  acl,        \* the users in the access-control list of each object
  original,   \* those lists before the first client came
  dacl,       \* the copy a process has read and not yet written back
  had,        \* hadWinstaAce and hadObjDirectoryAce of each process
  startedOn   \* the session a CExec's client process was started on

procVars == <<pc, end, acl, original, dacl, had, startedOn>>
vars     == <<regVars, procVars>>

Kinds  == {"winsta", "desktop", "directory"}
Shared == {"winsta", "directory"}

\* The desktop is named after the user (GetDesktopName), so it is private.
Objects == {<<s, t, None>> : s \in Sessions, t \in Shared}
             \cup {<<s, "desktop", u>> : s \in Sessions, u \in Sids}
Object(s, t, u) == <<s, t, IF t = "desktop" THEN u ELSE None>>
ObjectOf(i, t) == Object(SessionOf[launched[i]], t, key[i][1])

\* The program of _tWinMain, in the order of its calls.
Do(op, t) == <<op, t>>
Program == <<
  Do("Attach", ""), Do("GetData", ""),
  \* PrepareDesktop
  Do("HasSidAce", "winsta"),
  Do("ReadToGrant", "winsta"), Do("Grant", "winsta"),
  Do("ReadToGrant", "winsta"), Do("Grant", "winsta"),
  Do("OpenDesktop", "desktop"),
  Do("ReadToGrant", "desktop"), Do("Grant", "desktop"),
  \* PrepareObjectDirectory
  Do("HasSidAce", "directory"),
  Do("ReadToGrant", "directory"), Do("Grant", "directory"),
  Do("PreparationCompleted", ""), Do("WaitWhileActive", ""),
  \* UnprepareObjectDirectory, UnprepareDesktop
  Do("ReadToRevoke", "directory"), Do("Revoke", "directory"),
  Do("ReadToRevoke", "desktop"), Do("Revoke", "desktop"),
  Do("ReadToRevoke", "winsta"), Do("Revoke", "winsta"),
  Do("Return", "") >>

Positions == 1..Len(Program)

ProcTypeOK ==
  /\ pc \in [Ids -> Positions]
  /\ end \in [Ids -> {"running", "returned", "aborted", "died"}]
  /\ acl \in [Objects -> SUBSET Sids]
  /\ original \in [Objects -> SUBSET Sids]
  /\ dacl \in [Ids -> SUBSET Sids]
  /\ had \in [Ids -> SUBSET Shared]
  /\ startedOn \in [Execs -> Sessions \cup {None}]

\* A user may have entries of his own on shared objects.
PWInit ==
  /\ Init
  /\ pc = [i \in Ids |-> 1]
  /\ end = [i \in Ids |-> "running"]
  /\ original \in {a \in [Objects -> SUBSET Sids] :
                     \A o \in Objects : <<o[1], o[2]>> \notin OwnEntries => a[o] = {}}
  /\ acl = original
  /\ dacl = [i \in Ids |-> {}]
  /\ had = [i \in Ids |-> {}]
  /\ startedOn = [e \in Execs |-> None]

-----------------------------------------------------------------------------
(* Steps of the process launched for preparation i.                        *)

Op(i)   == Program[pc[i]][1]
Kind(i) == Program[pc[i]][2]
User(i) == key[i][1]

At(i, op)   == launched[i] # None /\ end[i] = "running" /\ Op(i) = op
Advance(i)  == pc' = [pc EXCEPT ![i] = @ + 1]
Skip(i)     == pc' = [pc EXCEPT ![i] = @ + 2]

\* The handle on the desktop is open from OpenDesktop to the end of the process.
HasDesktop(i) ==
  /\ launched[i] # None /\ end[i] = "running"
  /\ \E n \in 1..(pc[i] - 1) : Program[n] = Do("OpenDesktop", "desktop")
KeptOpen(i) ==
  \E j \in Ids \ {i} : HasDesktop(j) /\ ObjectOf(j, "desktop") = ObjectOf(i, "desktop")

\* The process ends, and its handles are closed with it.  A desktop is deleted
\* with the last handle on it, and with the desktop its access-control list.
\* (The client processes that run on it are left out: they would keep it, too.)
Exit(i, how) ==
  /\ end' = [end EXCEPT ![i] = how]
  /\ acl' = IF KeptOpen(i) THEN acl ELSE [acl EXCEPT ![ObjectOf(i, "desktop")] = {}]
  /\ UNCHANGED <<pc, original, dacl, had, startedOn>>

ProcessAttaches(i) ==
  /\ At(i, "Attach")
  /\ \/ Attach(i) /\ Advance(i) /\ UNCHANGED end
     \/ AttachFails(i) /\ end' = [end EXCEPT ![i] = "aborted"] /\ UNCHANGED pc
  /\ UNCHANGED <<acl, original, dacl, had, startedOn>>

\* An exception reaches _tWinMain, which returns at once; nothing is revoked.
\* The global pComm is released while the process exits.
Abort(i) ==
  /\ CommDestroyed(i)
  /\ Exit(i, "aborted")

\* GetData and PreparationCompleted fail when the preparation has expired.
GetData(i) ==
  /\ At(i, "GetData")
  /\ \/ /\ Active(i)
        /\ Advance(i)
        /\ UNCHANGED <<regVars, end, acl, original, dacl, had, startedOn>>
     \/ ~Active(i) /\ Abort(i)

\* Mutant: completion is never recorded.
ReportNothing(i) ==
  /\ At(i, "PreparationCompleted")
  /\ \/ /\ Active(i)
        /\ Advance(i)
        /\ UNCHANGED <<regVars, end, acl, original, dacl, had, startedOn>>
     \/ ~Active(i) /\ Abort(i)

ReportCompleted(i) ==
  /\ At(i, "PreparationCompleted")
  /\ \/ /\ PreparationCompleted(i)
        /\ Advance(i)
        /\ UNCHANGED <<end, acl, original, dacl, had, startedOn>>
     \/ ~Active(i) /\ Abort(i)

\* OpenDesktop, or CreateDesktop when there is no such desktop.
OpenDesktop(i) ==
  /\ At(i, "OpenDesktop")
  /\ Advance(i)
  /\ UNCHANGED <<regVars, end, acl, original, dacl, had, startedOn>>

HasSidAce(i) ==
  /\ At(i, "HasSidAce")
  /\ had' = [had EXCEPT ![i] =
               IF User(i) \in acl[ObjectOf(i, Kind(i))] THEN @ \cup {Kind(i)} ELSE @]
  /\ Advance(i)
  /\ UNCHANGED <<regVars, end, acl, original, dacl, startedOn>>

\* Mutant: the entries of the user are removed although he had some before.
ReadDaclAlways(i) ==
  /\ At(i, "ReadToGrant") \/ At(i, "ReadToRevoke")
  /\ dacl' = [dacl EXCEPT ![i] = acl[ObjectOf(i, Kind(i))]]
  /\ Advance(i)
  /\ UNCHANGED <<regVars, end, acl, original, had, startedOn>>

\* GetHandleSecurity or GetObjectSecurity, for a grant and for a revocation.
\* A shared object on which the user had an entry before is not revoked.
ReadDacl(i) ==
  /\ \/ /\ \/ At(i, "ReadToGrant")
           \/ At(i, "ReadToRevoke") /\ Kind(i) \notin had[i]
        /\ dacl' = [dacl EXCEPT ![i] = acl[ObjectOf(i, Kind(i))]]
        /\ Advance(i)
     \/ /\ At(i, "ReadToRevoke") /\ Kind(i) \in had[i]
        /\ Skip(i)
        /\ UNCHANGED dacl
  /\ UNCHANGED <<regVars, end, acl, original, had, startedOn>>

WriteDacl(i, users) ==
  /\ acl' = [acl EXCEPT ![ObjectOf(i, Kind(i))] = users]
  /\ dacl' = [dacl EXCEPT ![i] = {}]
  /\ Advance(i)
  /\ UNCHANGED <<regVars, end, original, had, startedOn>>

\* Mutant: the list is replaced by the new entry.
GrantOnly(i) == At(i, "Grant") /\ WriteDacl(i, {User(i)})

GrantAccess(i)  == At(i, "Grant")  /\ WriteDacl(i, dacl[i] \cup {User(i)})
RevokeAccess(i) == At(i, "Revoke") /\ WriteDacl(i, dacl[i] \ {User(i)})

\* Any of the calls on the window station, desktop or directory may throw.
CallFails(i) ==
  /\ launched[i] # None /\ end[i] = "running" /\ Kind(i) \in MayFail
  /\ Abort(i)

\* Mutant: does not wait.
WaitNever(i) ==
  /\ At(i, "WaitWhileActive")
  /\ Advance(i)
  /\ UNCHANGED <<regVars, end, acl, original, dacl, had, startedOn>>

WaitWhileActive(i) ==
  /\ At(i, "WaitWhileActive")
  /\ ~Active(i)
  /\ Advance(i)
  /\ UNCHANGED <<regVars, end, acl, original, dacl, had, startedOn>>

\* Mutant: the communication object is never released.
ReturnUnreleased(i) ==
  /\ At(i, "Return")
  /\ Exit(i, "returned")
  /\ UNCHANGED regVars

Return(i) ==
  /\ At(i, "Return")
  /\ CommDestroyed(i)
  /\ Exit(i, "returned")

\* The process is terminated at any point; COM notices later and releases its
\* communication object.
Die(i) ==
  /\ ProcessMayDie
  /\ launched[i] # None /\ end[i] = "running"
  /\ Exit(i, "died")
  /\ UNCHANGED regVars

Rundown(i) ==
  /\ end[i] = "died"
  /\ CommDestroyed(i)
  /\ UNCHANGED procVars

-----------------------------------------------------------------------------
(* Calls of the clients.                                                   *)

IsWindowStationPrepared(e) == prepOf[e] # None /\ isPrepared[prepOf[e]]

\* Mutant: the preparation is not checked before the process is started.
StartUnprepared(e) ==
  /\ e \in live /\ startedOn[e] = None
  /\ prepOf[e] # None
  /\ ConsoleFound
  /\ startedOn' = [startedOn EXCEPT ![e] = SessionOf[console]]
  /\ UNCHANGED <<regVars, pc, end, acl, original, dacl, had>>

\* CExec::DoStartProcess: the preparation is checked, then the client process
\* is started on the session that is the console now.
StartProcess(e) ==
  /\ e \in live /\ startedOn[e] = None
  /\ IsWindowStationPrepared(e)
  /\ ConsoleFound
  /\ startedOn' = [startedOn EXCEPT ![e] = SessionOf[console]]
  /\ UNCHANGED <<regVars, pc, end, acl, original, dacl, had>>

\* ~CExec kills the client process before the preparation is released.  (A
\* process that ends earlier counts as running until then.)
KillAndDestroyExec(e) ==
  /\ DestroyExec(e)
  /\ startedOn' = [startedOn EXCEPT ![e] = None]
  /\ UNCHANGED <<pc, end, acl, original, dacl, had>>

\* The unused ids are interchangeable, so the first of them is taken.
NextId(i) == key[i] = None /\ i = CHOOSE j \in Ids : key[j] = None

\* OnConsole asks for a preparation only before it starts its process.
PrepareWindowStation(e) ==
  /\ startedOn[e] = None
  /\ \/ ReusePreparation(e)
     \/ \E i \in Ids, c \in Consoles : NextId(i) /\ CreatePreparation(e, i, c)
  /\ UNCHANGED procVars

ClientStep(e) ==
  \/ CreateExec(e) /\ UNCHANGED procVars
  \/ PrepareWindowStation(e)
  \/ StartProcess(e)
  \/ KillAndDestroyExec(e)

\* What the process does by itself, and COM after its death.
ProcessStep(i) ==
  \/ ProcessAttaches(i) \/ GetData(i) \/ OpenDesktop(i) \/ ReportCompleted(i)
  \/ HasSidAce(i) \/ ReadDacl(i) \/ GrantAccess(i) \/ RevokeAccess(i)
  \/ WaitWhileActive(i) \/ Return(i) \/ Rundown(i)

PWNext ==
  \/ \E e \in Execs : ClientStep(e)
  \/ \E i \in Ids : ProcessStep(i) \/ CallFails(i) \/ Die(i)
  \/ \E c \in Consoles \cup {None} : SwitchConsole(c) /\ UNCHANGED procVars

PWSpec == PWInit /\ [][PWNext]_vars

\* A launched process keeps running, and COM eventually notices its death; a
\* client need not do anything.
FairSpec == PWSpec /\ \A i \in Ids : WF_vars(ProcessStep(i))

-----------------------------------------------------------------------------
(* Properties.                                                             *)

\* What a user needs to run on the desktop of a session: an entry on the
\* window station, on the desktop and on the object directory.
HasAccess(u, s, kinds) == \A t \in kinds : u \in acl[Object(s, t, u)]

\* What a process leaves to the clients: when it was terminated from outside,
\* the desktop is gone with it, unless something else had it open.
Lasting(i) == IF end[i] = "died" THEN Shared ELSE Kinds

\* A preparation that answers IsWindowStationPrepared with true really gives
\* its user access, for as long as any client holds it: the revocations of an
\* earlier process, or of a process that outlives its clients, never hit the
\* preparation that the present clients rely on, nor does the end of another
\* process delete their desktop.
AccessWhileActive ==
  \A i \in Ids : Active(i) /\ isPrepared[i] =>
    HasAccess(User(i), SessionOf[launched[i]], Lasting(i))

\* A client process never outlives the preparation it was started under; and
\* when the console was still, or again, the session of that preparation as it
\* was started (the code does not check this), its user has access to that
\* session for as long as it runs.
RunningHasAccess ==
  \A e \in Execs : startedOn[e] # None =>
    /\ prepOf[e] # None
    /\ startedOn[e] = SessionOf[launched[prepOf[e]]] =>
         HasAccess(SidOf[e], startedOn[e], Lasting(prepOf[e]))

\* A prepared preparation is served by its process: while clients hold it, its
\* process waits on the desktop unless it was terminated from outside, so the
\* desktop is not deleted under the clients.
PreparedIsServed ==
  \A i \in Ids : Active(i) /\ isPrepared[i] =>
    end[i] = "died" \/ At(i, "WaitWhileActive")

\* However the processes of several users interleave their reads and writes of
\* one access-control list, and whatever fails, a user never loses an access
\* to a shared object that he had before the first client came.
OriginalAccessKept ==
  \A o \in Objects : original[o] \subseteq acl[o]

AllReturned == \A i \in Ids : launched[i] # None => end[i] = "returned"

\* Once every process has returned by itself, the access-control lists of the
\* shared objects are what they were: the two had-flags, remembered across the
\* whole life of a process, revoke neither too little nor too much.
RestoredAfterReturn ==
  AllReturned =>
    \A s \in Sessions, t \in Shared : acl[<<s, t, None>>] = original[<<s, t, None>>]

\* A preparation whose clients are gone does not block its successor for ever:
\* its process, if attached, ends and its communication object is destroyed.
LeftoverTerminates ==
  \A i \in Ids : (comm[i] = "attached" /\ ~Active(i)) ~> (comm[i] = "destroyed")

\* A client that waits for a preparation whose process was launched sees it
\* completed, unless the process fails, dies, or the preparation is released.
PreparationCompletes ==
  \A i \in Ids : (Active(i) /\ launched[i] # None) ~>
    (isPrepared[i] \/ ~Active(i) \/ end[i] \in {"aborted", "died"})

=============================================================================
