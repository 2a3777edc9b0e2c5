--------------------- MODULE PrepareWindowStationProofs ---------------------
(***************************************************************************)
(* Proofs about preparations.  First the registry, for any number of       *)
(* clients, users, consoles and preparations: its invariants, and that it  *)
(* implements DesktopLease.  Then the processes of preparations, for any   *)
(* number of sessions too, whichever calls fail and processes die; and     *)
(* those about a server that crashes, for any number of crashes.           *)
(***************************************************************************)
EXTENDS ServerRestart, TLAPS

-----------------------------------------------------------------------------
(* The registry (Preparation).                                             *)

\* The inductive invariant.  None of the three properties is inductive alone:
\* that a new preparation meets no leftover process needs the list of running
\* processes to be exact, and that the list stays exact when a process
\* attaches needs both the maps and the absence of leftover processes.
IInv == TypeOK /\ MapsMatchObjects /\ RunningIsExact /\ NoLeftoverProcess

-----------------------------------------------------------------------------
\* Replacing the preparation of a CExec by none or by an existing one: the
\* maps still match the objects, and no object comes to life.
LEMMA SetPreparationKeepsMaps ==
  ASSUME TypeOK, MapsMatchObjects,
         NEW e \in Execs, NEW i \in Ids \cup {None},
         i # None => Active(i),
         SetPreparation(e, i, byId, byKey), UNCHANGED key
  PROVE  /\ prepOf' \in [Execs -> Ids \cup {None}]
         /\ byId' \subseteq Ids
         /\ byKey' \in [Keys -> Ids \cup {None}]
         /\ MapsMatchObjects'
         /\ \A j \in Ids : Active(j)' => Active(j)
<1> DEFINE old == prepOf[e]
           destructed == /\ old # None /\ old # i
                         /\ \A f \in Execs \ {e} : prepOf[f] # old
<1>1. /\ prepOf' = [prepOf EXCEPT ![e] = i]
      /\ byId' = IF destructed THEN byId \ {old} ELSE byId
      /\ byKey' = IF destructed THEN [byKey EXCEPT ![key[old]] = None] ELSE byKey
  BY DEF SetPreparation
<1>2. None \notin Ids /\ None \notin Keys
  BY PreparationAssumption DEF Keys
<1>3. old \in Ids \cup {None}
  BY DEF TypeOK
<1>4. old # None => key[old] \in Keys /\ byKey[key[old]] = old
  BY <1>2, <1>3 DEF TypeOK, MapsMatchObjects, Active
<1>5. /\ prepOf' \in [Execs -> Ids \cup {None}]
      /\ byId' \subseteq Ids
      /\ byKey' \in [Keys -> Ids \cup {None}]
  BY <1>1 DEF TypeOK
<1>6. \A j \in Ids : Active(j)' <=> Active(j) /\ ~(destructed /\ j = old)
  <2> TAKE j \in Ids
  <2>1. CASE destructed
    BY <1>1, <1>2, <1>3, <2>1 DEF TypeOK, Active
  <2>2. CASE ~destructed
    <3>1. Active(j)' => Active(j)
      BY <1>1, <1>2 DEF TypeOK, Active
    <3>2. ASSUME Active(j) PROVE Active(j)'
      <4>1. PICK f \in Execs : prepOf[f] = j
        BY <3>2 DEF Active
      <4>2. CASE f # e
        BY <1>1, <4>1, <4>2 DEF TypeOK, Active
      <4>3. CASE f = e /\ j = i
        BY <1>1, <4>1, <4>3 DEF TypeOK, Active
      <4>4. CASE f = e /\ j # i
        <5>1. PICK g \in Execs \ {e} : prepOf[g] = j
          BY <1>2, <2>2, <4>1, <4>4
        <5>2. QED
          BY <1>1, <5>1 DEF TypeOK, Active
      <4>5. QED
        BY <4>2, <4>3, <4>4
    <3>3. QED
      BY <2>2, <3>1, <3>2
  <2>3. QED
    BY <2>1, <2>2
<1>7. MapsMatchObjects'
  <2>1. ASSUME NEW j \in Ids PROVE (j \in byId <=> Active(j))'
    BY <1>1, <1>6 DEF MapsMatchObjects
  <2>2. ASSUME NEW j \in Ids, Active(j)'
        PROVE  (key[j] # None /\ byKey[key[j]] = j)'
    <3>1. Active(j) /\ ~(destructed /\ j = old)
      BY <1>6, <2>2
    <3>2. key[j] \in Keys /\ byKey[key[j]] = j
      BY <3>1 DEF TypeOK, MapsMatchObjects
    <3>3. destructed => key[old] # key[j]
      BY <1>4, <3>1, <3>2
    <3>4. QED
      BY <1>1, <1>2, <3>2, <3>3 DEF TypeOK
  <2>3. ASSUME NEW k \in Keys, byKey'[k] # None
        PROVE  (Active(byKey[k]) /\ key[byKey[k]] = k)'
    <3>1. byKey'[k] = byKey[k] /\ byKey[k] # None /\ (destructed => k # key[old])
      BY <1>1, <1>4, <2>3 DEF TypeOK
    <3>2. byKey[k] \in Ids /\ Active(byKey[k]) /\ key[byKey[k]] = k
      BY <3>1 DEF TypeOK, MapsMatchObjects
    <3>3. ~(destructed /\ byKey[k] = old)
      BY <3>1, <3>2
    <3>4. Active(byKey[k])'
      BY <1>6, <3>1, <3>2, <3>3
    <3>5. QED
      BY <3>1, <3>2, <3>4
  <2>4. QED
    BY <2>1, <2>2, <2>3 DEF MapsMatchObjects
<1>8. QED
  BY <1>5, <1>6, <1>7

-----------------------------------------------------------------------------
\* The inductive invariant holds initially.
LEMMA InitIInv == Init => IInv
<1> SUFFICES ASSUME Init PROVE IInv
  OBVIOUS
<1>1. None \notin Ids /\ None \notin Keys
  BY PreparationAssumption DEF Keys
<1>2. TypeOK
  BY DEF Init, TypeOK, CommStates
<1>3. \A i \in Ids : ~Active(i)
  BY <1>1 DEF Init, Active
<1>4. MapsMatchObjects
  BY <1>3 DEF Init, MapsMatchObjects
<1>5. RunningIsExact /\ NoLeftoverProcess
  BY DEF Init, RunningIsExact, NoLeftoverProcess
<1>6. QED
  BY <1>2, <1>4, <1>5 DEF IInv

\* Steps that only replace the preparation of a CExec by none or by a live one.
LEMMA ReplacementKeepsIInv ==
  ASSUME IInv, NEW e \in Execs, NEW i \in Ids \cup {None},
         i # None => Active(i),
         SetPreparation(e, i, byId, byKey),
         live' \subseteq Execs,
         UNCHANGED <<console, key, isPrepared, running, launched, comm>>
  PROVE  IInv'
<1> USE DEF IInv
<1>1. /\ prepOf' \in [Execs -> Ids \cup {None}]
      /\ byId' \subseteq Ids
      /\ byKey' \in [Keys -> Ids \cup {None}]
      /\ MapsMatchObjects'
      /\ \A j \in Ids : Active(j)' => Active(j)
  BY SetPreparationKeepsMaps
<1>2. TypeOK'
  BY <1>1 DEF TypeOK
<1>3. RunningIsExact'
  BY DEF RunningIsExact
<1>4. NoLeftoverProcess'
  BY <1>1 DEF NoLeftoverProcess
<1>5. QED
  BY <1>1, <1>2, <1>3, <1>4

\* Steps that change neither an object nor a map nor a communication object.
LEMMA IrrelevantKeepsIInv ==
  ASSUME IInv, TypeOK',
         UNCHANGED <<prepOf, key, byId, byKey, running, comm>>
  PROVE  IInv'
<1>1. MapsMatchObjects'
  BY DEF IInv, MapsMatchObjects, Active
<1>2. RunningIsExact'
  BY DEF IInv, RunningIsExact
<1>3. NoLeftoverProcess'
  BY DEF IInv, NoLeftoverProcess, Active
<1>4. QED
  BY <1>1, <1>2, <1>3 DEF IInv

\* A new preparation replaces whatever the CExec held: it takes the entry of
\* its key, which no live preparation and no attached process has.
LEMMA CreatePreparationKeepsIInv ==
  ASSUME IInv, NEW e \in Execs, NEW i \in Ids, NEW c \in Consoles,
         CreatePreparation(e, i, c)
  PROVE  IInv'
<1> DEFINE k == ClientConsoleString(e, console)
           old == prepOf[e]
           destructed == /\ old # None /\ old # i
                         /\ \A f \in Execs \ {e} : prepOf[f] # old
<1>1. None \notin Ids /\ None \notin Keys
  BY PreparationAssumption DEF Keys
<1>2. k \in Keys
  BY PreparationAssumption
     DEF CreatePreparation, StartPreparation, ConsoleFound, ClientConsoleString, Keys,
         IInv, TypeOK
<1>3. /\ key[i] = None /\ running[k] = 0
      /\ key' = [key EXCEPT ![i] = k]
      /\ prepOf' = [prepOf EXCEPT ![e] = i]
      /\ byId' = IF destructed THEN (byId \cup {i}) \ {old} ELSE byId \cup {i}
      /\ byKey' = IF destructed
                  THEN [[byKey EXCEPT ![k] = i] EXCEPT ![key[old]] = None]
                  ELSE [byKey EXCEPT ![k] = i]
      /\ UNCHANGED <<live, isPrepared, running, comm>>
  BY DEF CreatePreparation, SetPreparation
<1>4. old \in Ids \cup {None}
  BY DEF IInv, TypeOK
<1>5. ~Active(i)
  BY <1>3 DEF IInv, MapsMatchObjects
<1>6. \A j \in Ids : Active(j) => key[j] \in Keys /\ key[j] # k /\ byKey[key[j]] = j
  <2> SUFFICES ASSUME NEW j \in Ids, Active(j)
               PROVE  key[j] \in Keys /\ key[j] # k /\ byKey[key[j]] = j
    OBVIOUS
  <2>1. key[j] \in Keys /\ byKey[key[j]] = j
    BY DEF IInv, TypeOK, MapsMatchObjects
  <2>2. Lock(k) = None
    BY DEF CreatePreparation, StartPreparation
  <2>3. ~(byKey[k] # None /\ Active(byKey[k]))
    BY <2>2 DEF Lock
  <2>4. QED
    BY <1>1, <2>1, <2>3
<1>7. old # None => Active(old) /\ key[old] \in Keys /\ key[old] # k /\ byKey[key[old]] = old
  BY <1>4, <1>6 DEF Active
<1>8. old # i
  BY <1>1, <1>5, <1>7
<1>9. \A j \in Ids : Active(j)' <=> j = i \/ (Active(j) /\ ~(destructed /\ j = old))
  <2> TAKE j \in Ids
  <2>1. CASE j = i
    BY <1>3, <2>1 DEF IInv, TypeOK, Active
  <2>2. CASE j # i
    <3>1. Active(j)' <=> \E f \in Execs \ {e} : prepOf[f] = j
      BY <1>3, <2>2 DEF IInv, TypeOK, Active
    <3>2. Active(j) <=> (j = old \/ \E f \in Execs \ {e} : prepOf[f] = j)
      BY DEF Active
    <3>3. CASE j = old
      BY <1>1, <1>8, <3>1, <3>2, <3>3, <2>2
    <3>4. CASE j # old
      BY <3>1, <3>2, <3>4, <2>2
    <3>5. QED
      BY <3>3, <3>4
  <2>3. QED
    BY <2>1, <2>2
<1>10. TypeOK'
  <2>1. launched' \in [Ids -> Consoles \cup {None}] /\ console' \in Consoles
    BY DEF CreatePreparation, StartPreparation, IInv, TypeOK
  <2>2. byKey' \in [Keys -> Ids \cup {None}]
    BY <1>3 DEF IInv, TypeOK
  <2>3. QED
    BY <1>2, <1>3, <2>1, <2>2 DEF IInv, TypeOK
<1>11. MapsMatchObjects'
  <2>1. ASSUME NEW j \in Ids PROVE (j \in byId <=> Active(j))'
    BY <1>3, <1>8, <1>9 DEF IInv, MapsMatchObjects
  <2>2. ASSUME NEW j \in Ids, Active(j)'
        PROVE  (key[j] # None /\ byKey[key[j]] = j)'
    <3>1. CASE j = i
      <4>1. key'[j] = k
        BY <1>3, <3>1 DEF IInv, TypeOK
      <4>2. byKey'[k] = i
        BY <1>2, <1>3, <1>7 DEF IInv, TypeOK
      <4>3. QED
        BY <1>1, <1>2, <3>1, <4>1, <4>2
    <3>2. CASE j # i
      <4>1. Active(j) /\ ~(destructed /\ j = old)
        BY <1>9, <2>2, <3>2
      <4>2. key'[j] = key[j] /\ key[j] \in Keys /\ key[j] # k /\ byKey[key[j]] = j
        BY <1>3, <1>6, <3>2, <4>1 DEF IInv, TypeOK
      <4>3. destructed => key[old] # key[j]
        BY <1>7, <4>1, <4>2
      <4>4. byKey'[key[j]] = j
        BY <1>3, <4>2, <4>3 DEF IInv, TypeOK
      <4>5. QED
        BY <1>1, <4>2, <4>4
    <3>3. QED
      BY <3>1, <3>2
  <2>3. ASSUME NEW m \in Keys, byKey'[m] # None
        PROVE  (Active(byKey[m]) /\ key[byKey[m]] = m)'
    <3>1. CASE m = k
      <4>1. byKey'[k] = i
        BY <1>2, <1>3, <1>7 DEF IInv, TypeOK
      <4>2. key'[i] = k
        BY <1>3 DEF IInv, TypeOK
      <4>3. Active(i)'
        BY <1>9
      <4>4. QED
        BY <3>1, <4>1, <4>2, <4>3
    <3>2. CASE m # k
      <4>1. byKey'[m] = byKey[m] /\ byKey[m] # None /\ (destructed => m # key[old])
        BY <1>3, <1>7, <2>3, <3>2 DEF IInv, TypeOK
      <4>2. byKey[m] \in Ids /\ Active(byKey[m]) /\ key[byKey[m]] = m
        BY <4>1 DEF IInv, TypeOK, MapsMatchObjects
      <4>3. Active(byKey[m])'
        BY <1>9, <4>1, <4>2
      <4>4. key'[byKey[m]] = m
        BY <1>3, <1>5, <4>2 DEF IInv, TypeOK
      <4>5. QED
        BY <4>1, <4>3, <4>4
    <3>3. QED
      BY <3>1, <3>2
  <2>4. QED
    BY <2>1, <2>2, <2>3 DEF MapsMatchObjects
<1>12. \A j \in Ids : comm[j] = "attached" => j # i /\ key[j] \in Keys /\ key[j] # k
  <2> SUFFICES ASSUME NEW j \in Ids, comm[j] = "attached"
               PROVE  j # i /\ key[j] \in Keys /\ key[j] # k
    OBVIOUS
  <2>1. key[j] # None /\ key[j] \in Keys
    BY DEF IInv, TypeOK, RunningIsExact
  <2>2. key[j] = k => running[k] = 1
    BY <1>2 DEF IInv, RunningIsExact
  <2>3. QED
    BY <1>3, <2>1, <2>2
<1>13. \A j \in Ids : comm'[j] = "attached" => comm[j] = "attached" /\ key'[j] = key[j]
  BY <1>3, <1>12 DEF IInv, TypeOK
<1>14. RunningIsExact'
  <2>1. ASSUME NEW m \in Keys
        PROVE  running'[m] = 1 <=> \E j \in Ids : comm'[j] = "attached" /\ key'[j] = m
    BY <1>3, <1>12, <1>13 DEF IInv, RunningIsExact
  <2>2. \A j \in Ids : comm'[j] = "attached" => key'[j] # None
    BY <1>13 DEF IInv, RunningIsExact
  <2>3. \A m \in Keys : running'[m] \in {0, 1}
    BY <1>3 DEF IInv, RunningIsExact
  <2>4. \A j, l \in Ids :
          comm'[j] = "attached" /\ comm'[l] = "attached" /\ key'[j] = key'[l] => j = l
    BY <1>13 DEF IInv, RunningIsExact
  <2>5. QED
    BY <2>1, <2>2, <2>3, <2>4 DEF RunningIsExact
<1>15. NoLeftoverProcess'
  <2> SUFFICES ASSUME NEW j \in Ids, NEW l \in Ids,
                      Active(j)', comm'[l] = "attached", key'[j] = key'[l]
               PROVE  j = l
    BY DEF NoLeftoverProcess
  <2>1. comm[l] = "attached" /\ key'[l] = key[l] /\ key[l] # k
    BY <1>12, <1>13
  <2>2. j # i
    BY <1>3, <2>1 DEF IInv, TypeOK
  <2>3. Active(j) /\ key'[j] = key[j]
    BY <1>3, <1>9, <2>2 DEF IInv, TypeOK
  <2>4. QED
    BY <2>1, <2>3 DEF IInv, NoLeftoverProcess
<1>16. QED
  BY <1>10, <1>11, <1>14, <1>15 DEF IInv

\* A process attaches only to a preparation that is alive; no process of an
\* earlier one with the same key is then attached.
LEMMA AttachKeepsIInv ==
  ASSUME IInv, NEW i \in Ids, Attach(i)
  PROVE  IInv'
<1>1. /\ comm[i] = "none" /\ Active(i)
      /\ comm' = [comm EXCEPT ![i] = "attached"]
      /\ running' = [running EXCEPT ![key[i]] = @ + 1]
      /\ UNCHANGED <<console, live, prepOf, key, isPrepared, byId, byKey, launched>>
  BY DEF Attach, Findable, objects
<1>2. key[i] # None /\ key[i] \in Keys
  BY <1>1 DEF IInv, TypeOK, MapsMatchObjects
<1>3. \A j \in Ids : comm[j] = "attached" => key[j] # key[i]
  BY <1>1 DEF IInv, NoLeftoverProcess
<1>4. running[key[i]] = 0
  BY <1>2, <1>3 DEF IInv, RunningIsExact
<1>5. /\ running' \in [Keys -> Nat]
      /\ \A m \in Keys : running'[m] = IF m = key[i] THEN 1 ELSE running[m]
  BY <1>1, <1>2, <1>4 DEF IInv, TypeOK
<1>6. \A j \in Ids : comm'[j] = IF j = i THEN "attached" ELSE comm[j]
  BY <1>1 DEF IInv, TypeOK
<1>7. TypeOK'
  BY <1>1, <1>5 DEF IInv, TypeOK, CommStates
<1>8. MapsMatchObjects'
  BY <1>1 DEF IInv, MapsMatchObjects, Active
<1>9. RunningIsExact'
  <2>1. ASSUME NEW m \in Keys
        PROVE  running'[m] = 1 <=> \E j \in Ids : comm'[j] = "attached" /\ key[j] = m
    <3>1. CASE m = key[i]
      BY <1>5, <1>6, <3>1
    <3>2. CASE m # key[i]
      BY <1>5, <1>6, <3>2 DEF IInv, RunningIsExact
    <3>3. QED
      BY <3>1, <3>2
  <2>2. \A m \in Keys : running'[m] \in {0, 1}
    BY <1>5 DEF IInv, RunningIsExact
  <2>3. \A j \in Ids : comm'[j] = "attached" => key[j] # None
    BY <1>2, <1>6 DEF IInv, RunningIsExact
  <2>4. \A j, l \in Ids :
          comm'[j] = "attached" /\ comm'[l] = "attached" /\ key[j] = key[l] => j = l
    BY <1>3, <1>6 DEF IInv, RunningIsExact
  <2>5. QED
    BY <1>1, <2>1, <2>2, <2>3, <2>4 DEF RunningIsExact
<1>10. NoLeftoverProcess'
  <2> SUFFICES ASSUME NEW j \in Ids, NEW l \in Ids,
                      Active(j), comm'[l] = "attached", key[j] = key[l]
               PROVE  j = l
    BY <1>1 DEF NoLeftoverProcess, Active
  <2>1. CASE l = i
    BY <1>1, <2>1 DEF IInv, MapsMatchObjects
  <2>2. CASE l # i
    BY <1>6, <2>2 DEF IInv, NoLeftoverProcess
  <2>3. QED
    BY <2>1, <2>2
<1>11. QED
  BY <1>7, <1>8, <1>9, <1>10 DEF IInv

\* The communication object of a process goes: its string was in the list once.
LEMMA CommDestroyedKeepsIInv ==
  ASSUME IInv, NEW i \in Ids, CommDestroyed(i)
  PROVE  IInv'
<1>1. /\ comm[i] = "attached"
      /\ comm' = [comm EXCEPT ![i] = "destroyed"]
      /\ running' = [running EXCEPT ![key[i]] = 0]
      /\ UNCHANGED <<console, live, prepOf, key, isPrepared, byId, byKey, launched>>
  BY DEF CommDestroyed, objects
<1>2. key[i] # None /\ key[i] \in Keys
  BY <1>1 DEF IInv, TypeOK, RunningIsExact
<1>3. \A j \in Ids : comm'[j] = "attached" <=> comm[j] = "attached" /\ j # i
  BY <1>1 DEF IInv, TypeOK
<1>4. \A j \in Ids : comm'[j] = "attached" => key[j] # key[i]
  BY <1>1, <1>3 DEF IInv, RunningIsExact
<1>5. /\ running' \in [Keys -> Nat]
      /\ \A m \in Keys : running'[m] = IF m = key[i] THEN 0 ELSE running[m]
  BY <1>1, <1>2 DEF IInv, TypeOK
<1>6. TypeOK'
  BY <1>1, <1>5 DEF IInv, TypeOK, CommStates
<1>7. MapsMatchObjects'
  BY <1>1 DEF IInv, MapsMatchObjects, Active
<1>8. RunningIsExact'
  <2>1. ASSUME NEW m \in Keys
        PROVE  running'[m] = 1 <=> \E j \in Ids : comm'[j] = "attached" /\ key[j] = m
    <3>1. CASE m = key[i]
      BY <1>4, <1>5, <3>1
    <3>2. CASE m # key[i]
      <4>1. running[m] = 1 <=> \E j \in Ids : comm[j] = "attached" /\ key[j] = m
        BY DEF IInv, RunningIsExact
      <4>2. QED
        BY <1>3, <1>5, <3>2, <4>1
    <3>3. QED
      BY <3>1, <3>2
  <2>2. \A m \in Keys : running'[m] \in {0, 1}
    BY <1>5 DEF IInv, RunningIsExact
  <2>3. \A j \in Ids : comm'[j] = "attached" => key[j] # None
    BY <1>3 DEF IInv, RunningIsExact
  <2>4. \A j, l \in Ids :
          comm'[j] = "attached" /\ comm'[l] = "attached" /\ key[j] = key[l] => j = l
    BY <1>3 DEF IInv, RunningIsExact
  <2>5. QED
    BY <1>1, <2>1, <2>2, <2>3, <2>4 DEF RunningIsExact
<1>9. NoLeftoverProcess'
  BY <1>1, <1>3 DEF IInv, NoLeftoverProcess, Active
<1>10. QED
  BY <1>6, <1>7, <1>8, <1>9 DEF IInv

\* A process that finds its preparation gone changes only its own object.
LEMMA AttachFailsKeepsIInv ==
  ASSUME IInv, NEW i \in Ids, AttachFails(i)
  PROVE  IInv'
<1>1. /\ comm[i] = "none"
      /\ comm' = [comm EXCEPT ![i] = "destroyed"]
      /\ UNCHANGED <<console, live, prepOf, key, isPrepared, byId, byKey, running, launched>>
  BY DEF AttachFails, objects, maps
<1>2. \A j \in Ids : comm'[j] = "attached" <=> comm[j] = "attached"
  BY <1>1 DEF IInv, TypeOK
<1>3. TypeOK'
  BY <1>1 DEF IInv, TypeOK, CommStates
<1>4. MapsMatchObjects'
  BY <1>1 DEF IInv, MapsMatchObjects, Active
<1>5. RunningIsExact'
  BY <1>1, <1>2 DEF IInv, RunningIsExact
<1>6. NoLeftoverProcess'
  BY <1>1, <1>2 DEF IInv, NoLeftoverProcess, Active
<1>7. QED
  BY <1>3, <1>4, <1>5, <1>6 DEF IInv

-----------------------------------------------------------------------------
\* Every step of the registry preserves the inductive invariant.
LEMMA NextKeepsIInv == IInv /\ [Next]_regVars => IInv'
<1> SUFFICES ASSUME IInv, [Next]_regVars PROVE IInv'
  OBVIOUS
<1>1. ASSUME NEW e \in Execs, CreateExec(e) PROVE IInv'
  <2>1. UNCHANGED <<prepOf, key, byId, byKey, running, comm>> /\ TypeOK'
    BY <1>1 DEF CreateExec, maps, IInv, TypeOK
  <2>2. QED
    BY <2>1, IrrelevantKeepsIInv
<1>2. ASSUME NEW e \in Execs, DestroyExec(e) PROVE IInv'
  <2>1. /\ SetPreparation(e, None, byId, byKey)
        /\ UNCHANGED <<console, key, isPrepared, running, comm>>
        /\ launched' = launched /\ live' \subseteq Execs
    BY <1>2 DEF DestroyExec, IInv, TypeOK
  <2>2. QED
    BY <2>1, ReplacementKeepsIInv
<1>3. ASSUME NEW e \in Execs, ReusePreparation(e) PROVE IInv'
  <2> DEFINE i == Lock(ClientConsoleString(e, console))
  <2>1. /\ i # None /\ SetPreparation(e, i, byId, byKey)
        /\ UNCHANGED <<console, key, isPrepared, running, comm>>
        /\ launched' = launched /\ live' \subseteq Execs
    BY <1>3 DEF ReusePreparation, IInv, TypeOK
  <2>2. ClientConsoleString(e, console) \in Keys
    BY <1>3, PreparationAssumption
       DEF ReusePreparation, ConsoleFound, ClientConsoleString, Keys, IInv, TypeOK
  <2>3. i \in Ids /\ Active(i)
    BY <2>1, <2>2 DEF Lock, IInv, TypeOK
  <2>4. QED
    BY <2>1, <2>3, ReplacementKeepsIInv
<1>4. ASSUME NEW e \in Execs, NEW i \in Ids, NEW c \in Consoles, CreatePreparation(e, i, c)
      PROVE  IInv'
  BY <1>4, CreatePreparationKeepsIInv
<1>5. ASSUME NEW i \in Ids, Attach(i) PROVE IInv'
  BY <1>5, AttachKeepsIInv
<1>6. ASSUME NEW i \in Ids, AttachFails(i) PROVE IInv'
  BY <1>6, AttachFailsKeepsIInv
<1>7. ASSUME NEW i \in Ids, PreparationCompleted(i) PROVE IInv'
  <2>1. UNCHANGED <<prepOf, key, byId, byKey, running, comm>> /\ TypeOK'
    BY <1>7 DEF PreparationCompleted, maps, IInv, TypeOK
  <2>2. QED
    BY <2>1, IrrelevantKeepsIInv
<1>8. ASSUME NEW i \in Ids, CommDestroyed(i) PROVE IInv'
  BY <1>8, CommDestroyedKeepsIInv
<1>9. ASSUME NEW c \in Consoles \cup {None}, SwitchConsole(c) PROVE IInv'
  <2>1. UNCHANGED <<prepOf, key, byId, byKey, running, comm>> /\ TypeOK'
    BY <1>9 DEF SwitchConsole, objects, maps, IInv, TypeOK
  <2>2. QED
    BY <2>1, IrrelevantKeepsIInv
<1>10. CASE UNCHANGED regVars
  <2>1. UNCHANGED <<prepOf, key, byId, byKey, running, comm>> /\ TypeOK'
    BY <1>10 DEF regVars, objects, maps, IInv, TypeOK
  <2>2. QED
    BY <2>1, IrrelevantKeepsIInv
<1>11. QED
  BY <1>1, <1>2, <1>3, <1>4, <1>5, <1>6, <1>7, <1>8, <1>9, <1>10
     DEF Next, ClientNext, ProcessNext

\* Every reachable state of the registry satisfies the inductive invariant.
THEOREM IInvHolds == Spec => []IInv
<1>1. Init => IInv
  BY InitIInv
<1>2. IInv /\ [Next]_regVars => IInv'
  BY NextKeepsIInv
<1>3. QED
  BY <1>1, <1>2, PTL DEF Spec

-----------------------------------------------------------------------------
\* The variables of the registry keep their types.
THEOREM TypeCorrect == Spec => []TypeOK
<1>1. IInv => TypeOK
  BY DEF IInv
<1>2. QED
  BY <1>1, IInvHolds, PTL

\* The maps of the registry and the preparation objects agree: no entry
\* outlives its object and no destructor erases the entry of a successor.
THEOREM MapsCorrect == Spec => []MapsMatchObjects
<1>1. IInv => MapsMatchObjects
  BY DEF IInv
<1>2. QED
  BY <1>1, IInvHolds, PTL

\* The list of running prepare processes has exactly one entry for each
\* attached process and none besides.
THEOREM RunningCorrect == Spec => []RunningIsExact
<1>1. IInv => RunningIsExact
  BY DEF IInv
<1>2. QED
  BY <1>1, IInvHolds, PTL

\* No process of an earlier preparation is attached under an active one.
THEOREM LeftoverCorrect == Spec => []NoLeftoverProcess
<1>1. IInv => NoLeftoverProcess
  BY DEF IInv
<1>2. QED
  BY <1>1, IInvHolds, PTL

\* There is at most one active preparation for a client and a console.
THEOREM SharingCorrect == Spec => []SharedPreparation
<1>1. IInv => SharedPreparation
  BY DEF IInv, MapsMatchObjects, SharedPreparation
<1>2. QED
  BY <1>1, IInvHolds, PTL

-----------------------------------------------------------------------------
(* The registry implements DesktopLease.                                   *)

\* A place is occupied if a preparation for it is active.
LEMMA ActiveIsOccupied ==
  ASSUME NEW i \in Ids, Active(i)
  PROVE  Lease!Occupied(key[i])
<1>1. PICK e \in Execs : prepOf[e] = i
  BY DEF Active
<1>2. Tenancy[e] = key[i]
  BY <1>1, PreparationAssumption DEF Tenancy
<1>3. QED
  BY <1>2 DEF Lease!Occupied

\* The holder of a place is the one process that serves it.
LEMMA HolderServes ==
  IInv => \A k \in Keys :
            /\ \A i \in Ids : Serves(i, k) => Holder[k] = i
            /\ (\A i \in Ids : ~Serves(i, k)) => Holder[k] = None
<1> SUFFICES ASSUME IInv, NEW k \in Keys
             PROVE  /\ \A i \in Ids : Serves(i, k) => Holder[k] = i
                    /\ (\A i \in Ids : ~Serves(i, k)) => Holder[k] = None
  OBVIOUS
<1>1. \A i, j \in Ids : Serves(i, k) /\ Serves(j, k) => i = j
  BY DEF IInv, RunningIsExact, Serves
<1>2. ASSUME NEW i \in Ids, Serves(i, k)
      PROVE  Holder[k] = i
  <2>1. Holder[k] = CHOOSE j \in Ids : Serves(j, k)
    BY <1>2 DEF Holder
  <2>2. Holder[k] \in Ids /\ Serves(Holder[k], k)
    BY <1>2, <2>1
  <2>3. QED
    BY <1>1, <1>2, <2>2
<1>3. (\A i \in Ids : ~Serves(i, k)) => Holder[k] = None
  BY DEF Holder
<1>4. QED
  BY <1>2, <1>3

\* The same in the next state.
LEMMA HolderServesNext ==
  IInv' => \A k \in Keys :
            /\ \A i \in Ids : Serves(i, k)' => Holder'[k] = i
            /\ (\A i \in Ids : ~Serves(i, k)') => Holder'[k] = None
<1>1. IInv' => (\A k \in Keys :
                 /\ \A i \in Ids : Serves(i, k) => Holder[k] = i
                 /\ (\A i \in Ids : ~Serves(i, k)) => Holder[k] = None)'
  BY HolderServes, PTL
<1>2. QED
  BY <1>1

\* If no process begins or ceases to serve any place, the holders are the same.
LEMMA HolderUnchanged ==
  ASSUME IInv, IInv',
         \A i \in Ids, k \in Keys : Serves(i, k)' <=> Serves(i, k)
  PROVE  Holder' = Holder
<1>1. ASSUME NEW k \in Keys PROVE Holder'[k] = Holder[k]
  <2>1. CASE \E i \in Ids : Serves(i, k)
    BY <2>1, HolderServes, HolderServesNext
  <2>2. CASE \A i \in Ids : ~Serves(i, k)
    BY <2>2, HolderServes, HolderServesNext
  <2>3. QED
    BY <2>1, <2>2
<1>2. Holder = [k \in Keys |-> Holder[k]] /\ Holder' = [k \in Keys |-> Holder'[k]]
  BY DEF Holder
<1>3. QED
  BY <1>1, <1>2

\* If only the servants of place k change, only the holder of k changes.
LEMMA HolderUpdated ==
  ASSUME IInv, IInv', NEW k \in Keys,
         \A i \in Ids, m \in Keys \ {k} : Serves(i, m)' <=> Serves(i, m)
  PROVE  Holder' = [Holder EXCEPT ![k] = Holder'[k]]
<1>1. ASSUME NEW m \in Keys \ {k} PROVE Holder'[m] = Holder[m]
  <2>1. CASE \E i \in Ids : Serves(i, m)
    BY <2>1, HolderServes, HolderServesNext
  <2>2. CASE \A i \in Ids : ~Serves(i, m)
    BY <2>2, HolderServes, HolderServesNext
  <2>3. QED
    BY <2>1, <2>2
<1>2. Holder = [m \in Keys |-> Holder[m]] /\ Holder' = [m \in Keys |-> Holder'[m]]
  BY DEF Holder
<1>3. QED
  BY <1>1, <1>2

-----------------------------------------------------------------------------
\* The registry starts without tenants, holders and spent processes.
LEMMA InitIsLeaseInit == Init => Lease!Init
<1> SUFFICES ASSUME Init PROVE Lease!Init
  OBVIOUS
<1>1. Tenancy = [e \in Execs |-> None]
  BY DEF Init, Tenancy
<1>2. Holder = [k \in Keys |-> None]
  BY DEF Init, Holder, Serves
<1>3. {i \in Ids : comm[i] # "none"} = {}
  BY DEF Init
<1>4. QED
  BY <1>1, <1>2, <1>3 DEF Lease!Init

\* A client that takes a live preparation, new or not, joins its place.
LEMMA JoinStep ==
  ASSUME IInv, IInv', NEW e \in Execs, NEW i \in Ids, NEW k \in Keys,
         prepOf' = [prepOf EXCEPT ![e] = i],
         key'[i] = k,
         \A f \in Execs \ {e} : prepOf[f] # None => key'[prepOf[f]] = key[prepOf[f]],
         \A j \in Ids, m \in Keys : Serves(j, m)' <=> Serves(j, m),
         comm' = comm,
         Lease!Occupied(k) \/ Holder[k] = None
  PROVE  Lease!Join(e, k)
<1>1. prepOf \in [Execs -> Ids \cup {None}] /\ i # None
  BY PreparationAssumption DEF IInv, TypeOK
<1>2. Tenancy' = [Tenancy EXCEPT ![e] = k]
  <2>1. Tenancy'[e] = k
    BY <1>1 DEF Tenancy
  <2>2. ASSUME NEW f \in Execs \ {e} PROVE Tenancy'[f] = Tenancy[f]
    <3>1. prepOf'[f] = prepOf[f]
      BY <1>1
    <3>2. QED
      BY <3>1 DEF Tenancy
  <2>3. Tenancy = [f \in Execs |-> Tenancy[f]] /\ Tenancy' = [f \in Execs |-> Tenancy'[f]]
    BY DEF Tenancy
  <2>4. QED
    BY <2>1, <2>2, <2>3
<1>3. Holder' = Holder
  BY HolderUnchanged
<1>4. QED
  BY <1>2, <1>3 DEF Lease!Join

\* Every step of the registry is a step of the leases, or changes none of them.
LEMMA NextIsLeaseNext ==
  IInv /\ IInv' /\ [Next]_regVars => [Lease!Next]_Lease!leaseVars
<1> SUFFICES ASSUME IInv, IInv', [Next]_regVars
             PROVE  [Lease!Next]_Lease!leaseVars
  OBVIOUS
<1> USE DEF Lease!Next
<1>a. ASSUME UNCHANGED <<prepOf, key, comm>> PROVE UNCHANGED Lease!leaseVars
  <2>1. Tenancy' = Tenancy /\ Holder' = Holder
    BY <1>a DEF Tenancy, Holder, Serves
  <2>2. QED
    BY <1>a, <2>1 DEF Lease!leaseVars
<1>1. ASSUME NEW e \in Execs, CreateExec(e) PROVE UNCHANGED Lease!leaseVars
  BY <1>1, <1>a DEF CreateExec
<1>2. ASSUME NEW e \in Execs, DestroyExec(e) PROVE Lease!Leave(e)
  <2>1. prepOf' = [prepOf EXCEPT ![e] = None] /\ key' = key /\ comm' = comm
    BY <1>2 DEF DestroyExec, SetPreparation
  <2>2. Tenancy' = [Tenancy EXCEPT ![e] = None]
    BY <2>1 DEF Tenancy, IInv, TypeOK
  <2>3. Holder' = Holder
    BY <2>1 DEF Holder, Serves
  <2>4. QED
    BY <2>1, <2>2, <2>3 DEF Lease!Leave
<1>3. ASSUME NEW e \in Execs, ReusePreparation(e)
      PROVE  \E k \in Keys : Lease!Join(e, k)
  <2> DEFINE i == Lock(ClientConsoleString(e, console))
  <2>1. /\ i # None /\ prepOf' = [prepOf EXCEPT ![e] = i]
        /\ key' = key /\ comm' = comm
    BY <1>3 DEF ReusePreparation, SetPreparation
  <2>2. ClientConsoleString(e, console) \in Keys
    BY <1>3, PreparationAssumption
       DEF ReusePreparation, ConsoleFound, ClientConsoleString, Keys, IInv, TypeOK
  <2>3. i \in Ids /\ Active(i)
    BY <2>1, <2>2 DEF Lock, IInv, TypeOK
  <2>4. key[i] \in Keys
    BY <2>3 DEF IInv, TypeOK, MapsMatchObjects
  <2>5. Lease!Occupied(key[i])
    BY <2>3, ActiveIsOccupied
  <2>6. \A j \in Ids, m \in Keys : Serves(j, m)' <=> Serves(j, m)
    BY <2>1 DEF Serves
  <2>7. Lease!Join(e, key[i])
    BY <2>1, <2>3, <2>4, <2>5, <2>6, JoinStep
  <2>8. QED
    BY <2>4, <2>7
<1>4. ASSUME NEW e \in Execs, NEW i \in Ids, NEW c \in Consoles, CreatePreparation(e, i, c)
      PROVE  \E k \in Keys : Lease!Join(e, k)
  <2> DEFINE k == ClientConsoleString(e, console)
  <2>1. /\ key[i] = None /\ running[k] = 0 /\ comm' = comm
        /\ key' = [key EXCEPT ![i] = k]
        /\ prepOf' = [prepOf EXCEPT ![e] = i]
    BY <1>4 DEF CreatePreparation, SetPreparation
  <2>2. k \in Keys
    BY <1>4, PreparationAssumption
       DEF CreatePreparation, StartPreparation, ConsoleFound, ClientConsoleString, Keys,
           IInv, TypeOK
  <2>3. \A j \in Ids : Active(j) \/ comm[j] = "attached" => j # i
    BY <2>1 DEF IInv, MapsMatchObjects, RunningIsExact
  <2>4. \A f \in Execs \ {e} : prepOf[f] # None => key'[prepOf[f]] = key[prepOf[f]]
    <3> SUFFICES ASSUME NEW f \in Execs \ {e}, prepOf[f] # None
                 PROVE  key'[prepOf[f]] = key[prepOf[f]]
      OBVIOUS
    <3>1. prepOf[f] \in Ids /\ Active(prepOf[f])
      BY DEF IInv, TypeOK, Active
    <3>2. QED
      BY <2>1, <2>3, <3>1 DEF IInv, TypeOK
  <2>5. \A j \in Ids, m \in Keys : Serves(j, m)' <=> Serves(j, m)
    <3> SUFFICES ASSUME NEW j \in Ids, NEW m \in Keys
                 PROVE  Serves(j, m)' <=> Serves(j, m)
      OBVIOUS
    <3>1. j # i => key'[j] = key[j]
      BY <2>1 DEF IInv, TypeOK
    <3>2. QED
      BY <2>1, <2>3, <3>1 DEF Serves
  <2>6. Holder[k] = None
    <3>1. \A j \in Ids : ~Serves(j, k)
      BY <2>1, <2>2 DEF Serves, IInv, RunningIsExact
    <3>2. QED
      BY <2>2, <3>1, HolderServes
  <2>7. key'[i] = k
    BY <2>1 DEF IInv, TypeOK
  <2>8. Lease!Join(e, k)
    BY <2>1, <2>2, <2>4, <2>5, <2>6, <2>7, JoinStep
  <2>9. QED
    BY <2>2, <2>8
<1>5. ASSUME NEW i \in Ids, Attach(i) PROVE \E k \in Keys : Lease!Acquire(i, k)
  <2>1. /\ comm[i] = "none" /\ Active(i) /\ key' = key /\ prepOf' = prepOf
        /\ comm' = [comm EXCEPT ![i] = "attached"]
    BY <1>5 DEF Attach, Findable, objects
  <2>2. key[i] \in Keys
    BY <2>1 DEF IInv, TypeOK, MapsMatchObjects
  <2>3. \A j \in Ids : comm'[j] = IF j = i THEN "attached" ELSE comm[j]
    BY <2>1 DEF IInv, TypeOK
  <2>4. \A j \in Ids, m \in Keys \ {key[i]} : Serves(j, m)' <=> Serves(j, m)
    BY <2>1, <2>3 DEF Serves
  <2>5. Holder'[key[i]] = i
    BY <2>1, <2>2, <2>3, HolderServesNext DEF Serves
  <2>6. Holder' = [Holder EXCEPT ![key[i]] = i]
    BY <2>2, <2>4, <2>5, HolderUpdated
  <2>7. Holder[key[i]] = None
    <3>1. \A j \in Ids : ~Serves(j, key[i])
      BY <2>1 DEF Serves, IInv, NoLeftoverProcess
    <3>2. QED
      BY <2>2, <3>1, HolderServes
  <2>8. Lease!Occupied(key[i])
    BY <2>1, ActiveIsOccupied
  <2>9. Tenancy' = Tenancy
    BY <2>1 DEF Tenancy
  <2>10. /\ {j \in Ids : comm'[j] # "none"} = {j \in Ids : comm[j] # "none"} \cup {i}
         /\ i \notin {j \in Ids : comm[j] # "none"}
    BY <2>1, <2>3
  <2>11. Lease!Acquire(i, key[i])
    BY <2>6, <2>7, <2>8, <2>9, <2>10 DEF Lease!Acquire
  <2>12. QED
    BY <2>2, <2>11 DEF Lease!Acquire
<1>6. ASSUME NEW i \in Ids, AttachFails(i) PROVE Lease!TurnAway(i)
  <2>1. /\ comm[i] = "none" /\ key' = key /\ prepOf' = prepOf
        /\ comm' = [comm EXCEPT ![i] = "destroyed"]
    BY <1>6 DEF AttachFails, objects
  <2>2. \A j \in Ids : comm'[j] = IF j = i THEN "destroyed" ELSE comm[j]
    BY <2>1 DEF IInv, TypeOK
  <2>3. \A j \in Ids, m \in Keys : Serves(j, m)' <=> Serves(j, m)
    BY <2>1, <2>2 DEF Serves
  <2>4. Holder' = Holder
    BY <2>3, HolderUnchanged
  <2>5. Tenancy' = Tenancy
    BY <2>1 DEF Tenancy
  <2>6. {j \in Ids : comm'[j] # "none"} = {j \in Ids : comm[j] # "none"} \cup {i}
    BY <2>2
  <2>7. QED
    BY <2>4, <2>5, <2>6 DEF Lease!TurnAway
<1>7. ASSUME NEW i \in Ids, PreparationCompleted(i) PROVE UNCHANGED Lease!leaseVars
  BY <1>7, <1>a DEF PreparationCompleted
<1>8. ASSUME NEW i \in Ids, CommDestroyed(i) PROVE \E k \in Keys : Lease!Release(k)
  <2>1. /\ comm[i] = "attached" /\ key' = key /\ prepOf' = prepOf
        /\ comm' = [comm EXCEPT ![i] = "destroyed"]
    BY <1>8 DEF CommDestroyed, objects
  <2>2. key[i] \in Keys
    BY <2>1 DEF IInv, TypeOK, RunningIsExact
  <2>3. \A j \in Ids : comm'[j] = IF j = i THEN "destroyed" ELSE comm[j]
    BY <2>1 DEF IInv, TypeOK
  <2>4. \A j \in Ids, m \in Keys \ {key[i]} : Serves(j, m)' <=> Serves(j, m)
    BY <2>1, <2>3 DEF Serves
  <2>5. \A j \in Ids : ~(comm'[j] = "attached" /\ key'[j] = key[i])
    BY <2>1, <2>3 DEF IInv, RunningIsExact
  <2>6. Holder'[key[i]] = None
    BY <2>2, <2>5, HolderServesNext DEF Serves
  <2>7. Holder' = [Holder EXCEPT ![key[i]] = None]
    BY <2>2, <2>4, <2>6, HolderUpdated
  <2>8. Tenancy' = Tenancy
    BY <2>1 DEF Tenancy
  <2>9. {j \in Ids : comm'[j] # "none"} = {j \in Ids : comm[j] # "none"}
    BY <2>1, <2>3
  <2>10. Lease!Release(key[i])
    BY <2>7, <2>8, <2>9 DEF Lease!Release
  <2>11. QED
    BY <2>2, <2>10
<1>9. ASSUME NEW c \in Consoles \cup {None}, SwitchConsole(c)
      PROVE  UNCHANGED Lease!leaseVars
  BY <1>9, <1>a DEF SwitchConsole, objects
<1>10. CASE UNCHANGED regVars
  BY <1>10, <1>a DEF regVars, objects
<1>11. QED
  BY <1>1, <1>2, <1>3, <1>4, <1>5, <1>6, <1>7, <1>8, <1>9, <1>10
     DEF Next, ClientNext, ProcessNext

\* The registry implements the leases.
THEOREM RegistryImplementsLease == Spec => LeaseSpec
<1>1. Init => Lease!Init
  BY InitIsLeaseInit
<1>2. IInv /\ IInv' /\ [Next]_regVars => [Lease!Next]_Lease!leaseVars
  BY NextIsLeaseNext
<1>3. Spec => []IInv
  BY IInvHolds
<1>4. QED
  BY <1>1, <1>2, <1>3, PTL DEF Spec, LeaseSpec, Lease!Spec

-----------------------------------------------------------------------------
(* The program of a process.                                               *)

\* The positions of each kind of call, and of each kind of object.
LEMMA ProgramPositions ==
  /\ Positions = 1..22
  /\ \A n \in Positions :
       /\ Program[n][1] = "Attach"               <=> n = 1
       /\ Program[n][1] = "GetData"              <=> n = 2
       /\ Program[n][1] = "HasSidAce"            <=> n \in {3, 11}
       /\ Program[n][1] = "OpenDesktop"          <=> n = 8
       /\ Program[n][1] = "ReadToGrant"          <=> n \in {4, 6, 9, 12}
       /\ Program[n][1] = "Grant"                <=> n \in {5, 7, 10, 13}
       /\ Program[n][1] = "PreparationCompleted" <=> n = 14
       /\ Program[n][1] = "WaitWhileActive"      <=> n = 15
       /\ Program[n][1] = "ReadToRevoke"         <=> n \in {16, 18, 20}
       /\ Program[n][1] = "Revoke"               <=> n \in {17, 19, 21}
       /\ Program[n][1] = "Return"               <=> n = 22
       /\ Program[n][2] = "winsta"               <=> n \in 3..7 \cup 20..21
       /\ Program[n][2] = "desktop"              <=> n \in {8, 9, 10, 18, 19}
       /\ Program[n][2] = "directory"            <=> n \in {11, 12, 13, 16, 17}
<1>1. Positions = 1..22
  BY DEF Positions, Program, Do
<1>2. QED
  BY <1>1 DEF Program, Do

-----------------------------------------------------------------------------
(* What a step does to the registry.                                       *)

\* Every step of the composed system is a step of the registry or leaves the
\* registry as it is.
LEMMA StepOfRegistry == PWNext => [Next]_regVars
<1> SUFFICES ASSUME PWNext PROVE [Next]_regVars
  OBVIOUS
<1>1. ASSUME NEW e \in Execs, ClientStep(e) PROVE [Next]_regVars
  BY <1>1 DEF ClientStep, KillAndDestroyExec, PrepareWindowStation, StartProcess, Next, ClientNext
<1>2. ASSUME NEW i \in Ids, ProcessStep(i) PROVE [Next]_regVars
  <2> USE <1>2 DEF Next, ProcessNext
  <2>1. CASE ProcessAttaches(i)
    BY <2>1 DEF ProcessAttaches
  <2>2. CASE GetData(i)
    BY <2>2 DEF GetData, Abort
  <2>3. CASE ReportCompleted(i)
    BY <2>3 DEF ReportCompleted, Abort
  <2>4. CASE OpenDesktop(i) \/ HasSidAce(i) \/ ReadDacl(i) \/ WaitWhileActive(i)
    BY <2>4 DEF OpenDesktop, HasSidAce, ReadDacl, WaitWhileActive
  <2>5. CASE GrantAccess(i) \/ RevokeAccess(i)
    BY <2>5 DEF GrantAccess, RevokeAccess, WriteDacl
  <2>6. CASE Return(i) \/ Rundown(i)
    BY <2>6 DEF Return, Rundown
  <2>7. QED
    BY <2>1, <2>2, <2>3, <2>4, <2>5, <2>6 DEF ProcessStep
<1>3. ASSUME NEW i \in Ids, CallFails(i) \/ Die(i) PROVE [Next]_regVars
  BY <1>3 DEF CallFails, Die, Abort, Next, ProcessNext
<1>4. ASSUME NEW c \in Consoles \cup {None}, SwitchConsole(c) PROVE [Next]_regVars
  BY <1>4 DEF Next
<1>5. QED
  BY <1>1, <1>2, <1>3, <1>4 DEF PWNext

-----------------------------------------------------------------------------
(* What the steps do, in the form the invariants need.                     *)

\* A step of the process of id i, also when its server has crashed.
MoveOf(i) == ProcessStep(i) \/ CallFails(i) \/ Die(i) \/ OrphanStep(i)

\* A step of anybody else: a client, the console, the end of the server.
Outside ==
  \/ \E e \in Execs : ClientStep(e)
  \/ \E c \in Consoles \cup {None} : SwitchConsole(c) /\ UNCHANGED procVars
  \/ Crash
  \/ UNCHANGED vars

Step == Outside \/ \E i \in Ids : MoveOf(i)

\* The position of a process and what it does there.
LEMMA AtPosition ==
  ASSUME ProcTypeOK, NEW i \in Ids
  PROVE  /\ pc[i] \in 1..22
         /\ Op(i) = "Attach"               <=> pc[i] = 1
         /\ Op(i) = "GetData"              <=> pc[i] = 2
         /\ Op(i) = "HasSidAce"            <=> pc[i] \in {3, 11}
         /\ Op(i) = "OpenDesktop"          <=> pc[i] = 8
         /\ Op(i) = "ReadToGrant"          <=> pc[i] \in {4, 6, 9, 12}
         /\ Op(i) = "Grant"                <=> pc[i] \in {5, 7, 10, 13}
         /\ Op(i) = "PreparationCompleted" <=> pc[i] = 14
         /\ Op(i) = "WaitWhileActive"      <=> pc[i] = 15
         /\ Op(i) = "ReadToRevoke"         <=> pc[i] \in {16, 18, 20}
         /\ Op(i) = "Revoke"               <=> pc[i] \in {17, 19, 21}
         /\ Op(i) = "Return"               <=> pc[i] = 22
         /\ Kind(i) = "winsta"             <=> pc[i] \in 3..7 \cup 20..21
         /\ Kind(i) = "desktop"            <=> pc[i] \in {8, 9, 10, 18, 19}
         /\ Kind(i) = "directory"          <=> pc[i] \in {11, 12, 13, 16, 17}
BY ProgramPositions DEF ProcTypeOK, Op, Kind

\* A launched process works for a user, on objects of a session.
LEMMA WorksOnObjects ==
  ASSUME TypeOK, NEW i \in Ids, launched[i] # None, key[i] # None
  PROVE  /\ User(i) \in Sids
         /\ SessionOf[launched[i]] \in Sessions
         /\ \A t \in Kinds : ObjectOf(i, t) \in Objects
<1>1. User(i) \in Sids
  BY DEF TypeOK, Keys, User
<1>2. SessionOf[launched[i]] \in Sessions
  BY PrepareWindowStationAssumption DEF TypeOK
<1>3. QED
  BY <1>1, <1>2 DEF ObjectOf, Object, Objects, Kinds, Shared, User

\* A process changes nothing of another process and nothing of the clients.
LEMMA MoveIsLocal ==
  ASSUME TypeOK, ProcTypeOK, NEW i \in Ids, MoveOf(i)
  PROVE  /\ launched[i] # None \/ end[i] = "died"
         /\ UNCHANGED <<live, prepOf, key, launched, original, startedOn>>
         /\ \A j \in Ids \ {i} :
              /\ pc'[j] = pc[j] /\ end'[j] = end[j]
              /\ dacl'[j] = dacl[j] /\ had'[j] = had[j]
              /\ comm'[j] = comm[j] /\ isPrepared'[j] = isPrepared[j]
<1> USE DEF TypeOK, ProcTypeOK, regVars, objects, Advance, Exit, At
<1>1. CASE ProcessAttaches(i)
  BY <1>1 DEF ProcessAttaches, Attach, AttachFails
<1>2. CASE GetData(i)
  BY <1>2 DEF GetData, Abort, CommDestroyed
<1>3. CASE ReportCompleted(i)
  BY <1>3 DEF ReportCompleted, PreparationCompleted, Abort, CommDestroyed
<1>4. CASE OpenDesktop(i) \/ HasSidAce(i)
  BY <1>4 DEF OpenDesktop, HasSidAce
<1>5. CASE ReadDacl(i)
  BY <1>5 DEF ReadDacl, Skip
<1>6. CASE GrantAccess(i)
  BY <1>6 DEF GrantAccess, WriteDacl
<1>7. CASE RevokeAccess(i)
  BY <1>7 DEF RevokeAccess, WriteDacl
<1>8. CASE WaitWhileActive(i)
  BY <1>8 DEF WaitWhileActive
<1>9. CASE Return(i)
  BY <1>9 DEF Return, CommDestroyed
<1>10. CASE Rundown(i)
  BY <1>10 DEF Rundown, CommDestroyed, procVars
<1>11. CASE CallFails(i)
  BY <1>11 DEF CallFails, Abort, CommDestroyed
<1>12. CASE Die(i)
  BY <1>12 DEF Die
<1>13. CASE OrphanStep(i)
  BY <1>13 DEF OrphanStep, OrphanAborts, OrphanReturns, Runs
<1>14. QED
  BY <1>1, <1>2, <1>3, <1>4, <1>5, <1>6, <1>7, <1>8, <1>9, <1>10, <1>11, <1>12, <1>13
     DEF MoveOf, ProcessStep

\* Clients, the console and the end of the server leave the processes where
\* they are.
LEMMA OutsideIsNoMove ==
  ASSUME Outside
  PROVE  UNCHANGED <<pc, end, acl, original, dacl, had, isPrepared>>
<1> USE DEF regVars, objects, procVars
<1>1. ASSUME NEW e \in Execs, ClientStep(e)
      PROVE  UNCHANGED <<pc, end, acl, original, dacl, had, isPrepared>>
  BY <1>1 DEF ClientStep, CreateExec, KillAndDestroyExec, DestroyExec, PrepareWindowStation, ReusePreparation,
              CreatePreparation, StartProcess
<1>2. QED
  BY <1>1 DEF Outside, SwitchConsole, Crash, vars

-----------------------------------------------------------------------------
(* The registry beside its processes.                                      *)

\* A new server has empty maps and no preparation.
LEMMA CrashKeepsIInv == ASSUME IInv, Crash PROVE IInv'
<1>1. None \notin Ids /\ None \notin Keys
  BY PreparationAssumption DEF Keys
<1>2. TypeOK'
  BY DEF IInv, TypeOK, Crash, CommStates
<1>3. \A i \in Ids : ~Active(i)' /\ comm'[i] # "attached"
  BY <1>1 DEF Crash, Active, IInv, TypeOK
<1>4. MapsMatchObjects'
  BY <1>1, <1>3 DEF MapsMatchObjects, Crash
<1>5. RunningIsExact' /\ NoLeftoverProcess'
  BY <1>3 DEF RunningIsExact, NoLeftoverProcess, Crash
<1>6. QED
  BY <1>2, <1>4, <1>5 DEF IInv

\* The inductive invariant of the registry also holds beside the processes,
\* and across crashes.
LEMMA StepKeepsIInv == ASSUME IInv, Step PROVE IInv'
<1>1. CASE [Next]_regVars
  BY <1>1, NextKeepsIInv
<1>2. CASE PWNext
  BY <1>1, <1>2, StepOfRegistry
<1>3. CASE Crash
  BY <1>3, CrashKeepsIInv
<1>4. CASE UNCHANGED vars
  BY <1>1, <1>4 DEF vars
<1>5. ASSUME NEW i \in Ids, OrphanStep(i) PROVE IInv'
  BY <1>1, <1>5 DEF OrphanStep, OrphanAborts, OrphanReturns
<1>6. QED
  BY <1>2, <1>3, <1>4, <1>5 DEF Step, Outside, MoveOf, PWNext

\* A preparation keeps its key and its console, and once it is inactive it
\* never becomes active again.
LEMMA PreparationStays ==
  ASSUME IInv, ProcTypeOK, Step, NEW i \in Ids, key[i] # None
  PROVE  key'[i] = key[i] /\ launched'[i] = launched[i] /\ (Active(i)' => Active(i))
<1> DEFINE Stays == key'[i] = key[i] /\ launched'[i] = launched[i] /\ (Active(i)' => Active(i))
<1>1. None \notin Ids
  BY PreparationAssumption
<1>2. CASE UNCHANGED <<prepOf, key, launched>>
  BY <1>2 DEF Active
<1>3. ASSUME NEW e \in Execs, ClientStep(e) PROVE Stays
  <2>1. CASE CreateExec(e)
    BY <1>2, <2>1 DEF CreateExec
  <2>2. CASE KillAndDestroyExec(e)
    <3>1. SetPreparation(e, None, byId, byKey) /\ UNCHANGED <<key, launched>>
      BY <2>2 DEF KillAndDestroyExec, DestroyExec
    <3>2. QED
      BY <3>1, SetPreparationKeepsMaps DEF IInv
  <2>3. CASE ReusePreparation(e)
    <3> DEFINE j == Lock(ClientConsoleString(e, console))
    <3>1. j # None /\ SetPreparation(e, j, byId, byKey) /\ UNCHANGED <<key, launched>>
      BY <2>3 DEF ReusePreparation
    <3>2. ClientConsoleString(e, console) \in Keys
      BY <2>3, PreparationAssumption
         DEF ReusePreparation, ConsoleFound, ClientConsoleString, Keys, IInv, TypeOK
    <3>3. j \in Ids /\ Active(j)
      BY <3>1, <3>2 DEF Lock, IInv, TypeOK
    <3>4. QED
      BY <3>1, <3>3, SetPreparationKeepsMaps DEF IInv
  <2>4. ASSUME NEW j \in Ids, NEW c \in Consoles, CreatePreparation(e, j, c) PROVE Stays
    <3>1. /\ key[j] = None /\ prepOf' = [prepOf EXCEPT ![e] = j]
          /\ \E k : key' = [key EXCEPT ![j] = k]
          /\ launched' = [launched EXCEPT ![j] = c] \/ UNCHANGED launched
      BY <2>4 DEF CreatePreparation, SetPreparation, StartPreparation
    <3>2. i # j
      BY <3>1
    <3>3. QED
      BY <3>1, <3>2 DEF Active, IInv, TypeOK
  <2>5. CASE StartProcess(e)
    BY <1>2, <2>5 DEF StartProcess, regVars, objects
  <2>6. QED
    BY <1>3, <2>1, <2>2, <2>3, <2>4, <2>5 DEF ClientStep, PrepareWindowStation
<1>4. CASE \E c \in Consoles \cup {None} : SwitchConsole(c) /\ UNCHANGED procVars
  BY <1>2, <1>4 DEF SwitchConsole, objects
<1>5. CASE Crash
  BY <1>1, <1>5 DEF Crash, Active, IInv, TypeOK
<1>6. CASE UNCHANGED vars
  BY <1>2, <1>6 DEF vars, regVars, objects
<1>7. ASSUME NEW j \in Ids, MoveOf(j) PROVE Stays
  BY <1>2, <1>7, MoveIsLocal DEF IInv
<1>8. QED
  BY <1>3, <1>4, <1>5, <1>6, <1>7 DEF Step, Outside

-----------------------------------------------------------------------------
(* Where a process is, and what its preparation is then.                   *)

\* What is launched has a key; a preparation is completed from the position of
\* waiting on; a process goes on from there only without clients.
PositionInv ==
  \A i \in Ids :
    /\ key[i] = None => launched[i] = None
    /\ launched[i] = None => pc[i] = 1 /\ end[i] = "running" /\ comm[i] = "none"
    /\ isPrepared[i] => pc[i] >= 15
    /\ pc[i] > 15 => ~Active(i)
    /\ end[i] = "aborted" => pc[i] # 15
    /\ end[i] = "returned" => pc[i] = 22

PlaceInv == IInv /\ ProcTypeOK /\ PositionInv

\* The invariant of positions holds initially.
LEMMA InitPlaceInv == PWInit => PlaceInv
<1> SUFFICES ASSUME PWInit PROVE PlaceInv
  OBVIOUS
<1>1. IInv
  BY InitIInv DEF PWInit
<1>2. ProcTypeOK
  BY ProgramPositions DEF PWInit, ProcTypeOK
<1>3. PositionInv
  BY DEF PWInit, Init, PositionInv
<1>4. QED
  BY <1>1, <1>2, <1>3 DEF PlaceInv

\* The types of the process variables are kept.
LEMMA MoveKeepsTypes ==
  ASSUME PlaceInv, NEW i \in Ids, MoveOf(i)
  PROVE  ProcTypeOK'
<1> USE AtPosition, ProgramPositions DEF PlaceInv, IInv, ProcTypeOK, At, Advance, Exit
<1>1. (key[i] # None /\ launched[i] # None) \/ end[i] = "died"
  BY MoveIsLocal DEF PositionInv
<1>2. CASE ProcessAttaches(i)
  BY <1>2 DEF ProcessAttaches
<1>3. CASE GetData(i) \/ OpenDesktop(i)
  BY <1>3 DEF GetData, OpenDesktop, Abort
<1>4. CASE ReportCompleted(i)
  BY <1>4 DEF ReportCompleted, Abort
<1>5. CASE HasSidAce(i)
  <2>1. Kind(i) \in Shared
    BY <1>5 DEF HasSidAce, Shared
  <2>2. QED
    BY <1>5, <2>1 DEF HasSidAce
<1>6. CASE ReadDacl(i)
  <2>1. launched[i] # None /\ key[i] # None /\ Kind(i) \in Kinds
    BY <1>6 DEF ReadDacl, PositionInv, Kinds
  <2>2. acl[ObjectOf(i, Kind(i))] \subseteq Sids
    BY <2>1, WorksOnObjects
  <2>3. CASE At(i, "ReadToRevoke") /\ Kind(i) \in had[i] /\ Skip(i) /\ UNCHANGED dacl
    <3>1. pc[i] \in {16, 20}
      BY <2>3 DEF Shared
    <3>2. pc' \in [Ids -> Positions]
      BY <2>3, <3>1 DEF Skip
    <3>3. QED
      BY <1>6, <2>3, <3>2 DEF ReadDacl
  <2>4. CASE /\ At(i, "ReadToGrant") \/ At(i, "ReadToRevoke")
             /\ dacl' = [dacl EXCEPT ![i] = acl[ObjectOf(i, Kind(i))]]
             /\ Advance(i)
    BY <1>6, <2>2, <2>4 DEF ReadDacl
  <2>5. QED
    BY <1>6, <2>3, <2>4 DEF ReadDacl
<1>7. ASSUME GrantAccess(i) \/ RevokeAccess(i) PROVE ProcTypeOK'
  <2>1. launched[i] # None /\ key[i] # None
    BY <1>7 DEF GrantAccess, RevokeAccess, PositionInv
  <2>2. User(i) \in Sids
    BY <2>1, WorksOnObjects
  <2>3. dacl[i] \cup {User(i)} \in SUBSET Sids /\ dacl[i] \ {User(i)} \in SUBSET Sids
    BY <2>2
  <2>4. acl' \in [Objects -> SUBSET Sids]
    BY <1>7, <2>3 DEF GrantAccess, RevokeAccess, WriteDacl
  <2>5. QED
    BY <1>7, <2>4 DEF GrantAccess, RevokeAccess, WriteDacl
<1>8. CASE WaitWhileActive(i)
  BY <1>8 DEF WaitWhileActive
<1>9. CASE Return(i) \/ Rundown(i)
  BY <1>9 DEF Return, Rundown, procVars
<1>10. CASE CallFails(i) \/ Die(i)
  BY <1>10 DEF CallFails, Die, Abort
<1>11. CASE OrphanStep(i)
  BY <1>11 DEF OrphanStep, OrphanAborts, OrphanReturns
<1>12. QED
  BY <1>2, <1>3, <1>4, <1>5, <1>6, <1>7, <1>8, <1>9, <1>10, <1>11
     DEF MoveOf, ProcessStep

\* A process that a client has started runs on a session.
LEMMA OutsideKeepsTypes == ASSUME PlaceInv, Outside PROVE ProcTypeOK'
<1>1. UNCHANGED <<pc, end, acl, original, dacl, had>>
  BY OutsideIsNoMove
<1>2. ASSUME NEW e \in Execs, ClientStep(e)
      PROVE  startedOn' \in [Execs -> Sessions \cup {None}]
  BY <1>2, PrepareWindowStationAssumption
     DEF ClientStep, KillAndDestroyExec, PrepareWindowStation, StartProcess, procVars,
         ConsoleFound, PlaceInv, IInv, TypeOK, ProcTypeOK
<1>3. startedOn' \in [Execs -> Sessions \cup {None}]
  BY <1>2 DEF Outside, Crash, procVars, vars, PlaceInv, ProcTypeOK
<1>4. QED
  BY <1>1, <1>3 DEF PlaceInv, ProcTypeOK

\* A process completes its preparation before it waits, and does not go on from
\* there under a client.
LEMMA MoveKeepsPosition ==
  ASSUME PlaceInv, NEW i \in Ids, MoveOf(i)
  PROVE  PositionInv'
<1> DEFINE Placed(j) ==
      /\ key[j] = None => launched[j] = None
      /\ launched[j] = None => pc[j] = 1 /\ end[j] = "running" /\ comm[j] = "none"
      /\ isPrepared[j] => pc[j] >= 15
      /\ pc[j] > 15 => ~Active(j)
      /\ end[j] = "aborted" => pc[j] # 15
      /\ end[j] = "returned" => pc[j] = 22
<1>1. \A j \in Ids : Placed(j)
  BY DEF PlaceInv, PositionInv
<1>2. TypeOK /\ ProcTypeOK
  BY DEF PlaceInv, IInv
<1>3. UNCHANGED <<prepOf, key, launched>>
  BY <1>2, MoveIsLocal
<1>4. ASSUME NEW j \in Ids \ {i} PROVE Placed(j)'
  <2>1. /\ pc'[j] = pc[j] /\ end'[j] = end[j]
        /\ comm'[j] = comm[j] /\ isPrepared'[j] = isPrepared[j]
    BY <1>2, MoveIsLocal
  <2>2. QED
    BY <1>1, <1>3, <2>1 DEF Active
<1>5. Placed(i)'
  <2> USE <1>1, <1>2, <1>3, AtPosition DEF TypeOK, ProcTypeOK, At, Advance, Exit, Active
  <2>1. launched[i] # None /\ key[i] # None
    BY MoveIsLocal
  <2>2. CASE ProcessAttaches(i)
    BY <2>1, <2>2 DEF ProcessAttaches, Attach, AttachFails, objects
  <2>3. CASE GetData(i) \/ OpenDesktop(i)
    BY <2>1, <2>3 DEF GetData, OpenDesktop, Abort, CommDestroyed, objects, regVars
  <2>4. CASE ReportCompleted(i)
    BY <2>1, <2>4 DEF ReportCompleted, PreparationCompleted, Abort, CommDestroyed, objects
  <2>5. CASE HasSidAce(i)
    BY <2>1, <2>5 DEF HasSidAce, regVars, objects
  <2>6. CASE ReadDacl(i)
    BY <2>1, <2>6 DEF ReadDacl, Skip, regVars, objects
  <2>7. CASE GrantAccess(i) \/ RevokeAccess(i)
    BY <2>1, <2>7 DEF GrantAccess, RevokeAccess, WriteDacl, regVars, objects
  <2>8. CASE WaitWhileActive(i)
    BY <2>1, <2>8 DEF WaitWhileActive, regVars, objects
  <2>9. CASE Return(i)
    BY <2>1, <2>9 DEF Return, CommDestroyed, objects
  <2>10. CASE Rundown(i)
    BY <2>1, <2>10 DEF Rundown, CommDestroyed, procVars, objects
  <2>11. CASE CallFails(i)
    <3>1. Kind(i) \in {"winsta", "desktop", "directory"}
      BY <2>11, PrepareWindowStationAssumption DEF CallFails
    <3>2. QED
      BY <2>1, <2>11, <3>1 DEF CallFails, Abort, CommDestroyed, objects
  <2>12. CASE Die(i)
    BY <2>1, <2>12 DEF Die, regVars, objects
  <2>13. CASE OrphanStep(i)
    <3>1. Kind(i) \in MayFail => Kind(i) \in {"winsta", "desktop", "directory"}
      BY PrepareWindowStationAssumption
    <3>2. QED
      BY <2>1, <2>13, <3>1 DEF OrphanStep, OrphanAborts, OrphanReturns, regVars, objects
  <2>14. QED
    BY <2>2, <2>3, <2>4, <2>5, <2>6, <2>7, <2>8, <2>9, <2>10, <2>11, <2>12, <2>13
       DEF MoveOf, ProcessStep
<1>6. \A j \in Ids : Placed(j)'
  BY <1>4, <1>5
<1>7. QED
  BY <1>6 DEF PositionInv

\* Nobody but the server launches a process, and for a new preparation only.
LEMMA OutsideKeepsPosition ==
  ASSUME PlaceInv, Outside
  PROVE  PositionInv'
<1>1. UNCHANGED <<pc, end, isPrepared>>
  BY OutsideIsNoMove
<1>2. ASSUME NEW j \in Ids, launched[j] = None
      PROVE  comm'[j] = "none" /\ (key'[j] = None => launched'[j] = None)
  <2>1. comm[j] = "none" /\ (key[j] = None => launched[j] = None)
    BY <1>2 DEF PlaceInv, PositionInv
  <2>2. ASSUME NEW e \in Execs, NEW i \in Ids, NEW c \in Consoles, CreatePreparation(e, i, c)
        PROVE  key'[j] = None => launched'[j] = None
    <3>1. ClientConsoleString(e, console) # None
      BY <2>2, PreparationAssumption
         DEF CreatePreparation, ConsoleFound, ClientConsoleString, PlaceInv, IInv, TypeOK
    <3>2. QED
      BY <1>2, <2>2, <3>1 DEF CreatePreparation, StartPreparation, PlaceInv, IInv, TypeOK
  <2>3. ASSUME NEW e \in Execs, ClientStep(e)
        PROVE  comm'[j] = comm[j] /\ (key'[j] = None => launched'[j] = None)
    BY <1>2, <2>1, <2>2, <2>3
       DEF ClientStep, CreateExec, KillAndDestroyExec, DestroyExec, PrepareWindowStation, ReusePreparation,
           CreatePreparation, StartProcess, regVars, objects
  <2>4. CASE Crash
    BY <1>2, <2>1, <2>4 DEF Crash, PlaceInv, IInv, TypeOK
  <2>5. QED
    BY <1>2, <2>1, <2>3, <2>4 DEF Outside, SwitchConsole, vars, regVars, objects
<1>3. \A j \in Ids : key[j] # None =>
        key'[j] = key[j] /\ launched'[j] = launched[j] /\ (Active(j)' => Active(j))
  BY PreparationStays DEF PlaceInv, Step
<1>4. ASSUME NEW j \in Ids
      PROVE  /\ key'[j] = None => launched'[j] = None
             /\ launched'[j] = None => pc'[j] = 1 /\ end'[j] = "running" /\ comm'[j] = "none"
  BY <1>1, <1>2, <1>3 DEF PlaceInv, PositionInv
<1>5. ASSUME NEW j \in Ids, pc'[j] > 15 PROVE ~Active(j)'
  <2>1. pc[j] > 15 /\ ~Active(j) /\ key[j] # None
    BY <1>1, <1>5 DEF PlaceInv, PositionInv
  <2>2. QED
    BY <1>3, <2>1
<1>6. QED
  BY <1>1, <1>4, <1>5 DEF PlaceInv, PositionInv

\* Every step keeps the invariant of positions, also when the server crashes.
LEMMA StepKeepsPlaceInv == ASSUME PlaceInv, Step PROVE PlaceInv'
<1>1. IInv'
  BY StepKeepsIInv DEF PlaceInv
<1>2. QED
  BY <1>1, MoveKeepsTypes, MoveKeepsPosition, OutsideKeepsTypes, OutsideKeepsPosition
     DEF Step, PlaceInv

\* The steps of the two specifications.
LEMMA StepOfPW == [PWNext]_vars => Step
BY DEF PWNext, Step, Outside, MoveOf

\* A step with crashes is one of those the lemmas below are about.
LEMMA StepOfRestart == [RNext]_allVars => Step
BY DEF RNext, allVars, PWNext, Step, Outside, MoveOf

\* Every reachable state satisfies the invariant of positions.
LEMMA PlaceInvHolds == PWSpec => []PlaceInv
<1>1. PlaceInv /\ [PWNext]_vars => PlaceInv'
  BY StepOfPW, StepKeepsPlaceInv
<1>2. QED
  BY <1>1, InitPlaceInv, PTL DEF PWSpec

\* A prepared preparation is served: while clients hold it, its process waits
\* on the desktop or was terminated from outside.
THEOREM PreparedServed == PWSpec => []PreparedIsServed
<1>1. PlaceInv => PreparedIsServed
  BY AtPosition DEF PlaceInv, PositionInv, PreparedIsServed, IInv, TypeOK, ProcTypeOK, At
<1>2. QED
  BY <1>1, PlaceInvHolds, PTL

-----------------------------------------------------------------------------
(* Nobody loses an access that he had before the first client came.        *)

\* The position of HasSidAce for a shared object.
HadAt == [t \in Shared |-> IF t = "winsta" THEN 3 ELSE 11]

\* A process past HasSidAce remembers an original entry of its user; the copy
\* it is about to write back holds the original entries; and what it is about
\* to revoke is not among them.
KeepsOriginal(i) ==
  /\ \A t \in Shared :
       pc[i] > HadAt[t] /\ User(i) \in original[ObjectOf(i, t)] => t \in had[i]
  /\ pc[i] \in {5, 7, 10, 13, 17, 19, 21} => original[ObjectOf(i, Kind(i))] \subseteq dacl[i]
  /\ pc[i] \in {17, 19, 21} => User(i) \notin original[ObjectOf(i, Kind(i))]

\* Desktops are made by the process: nobody had an entry on one before.
OriginalInv ==
  /\ OriginalAccessKept
  /\ \A o \in Objects : o[2] = "desktop" => original[o] = {}
  /\ \A i \in Ids : launched[i] # None => KeepsOriginal(i)

\* The original entries are there initially.
LEMMA InitOriginalInv == PWInit => OriginalInv
<1> SUFFICES ASSUME PWInit PROVE OriginalInv
  OBVIOUS
<1>1. \A o \in Objects : o[2] = "desktop" => <<o[1], o[2]>> \notin OwnEntries
  BY PrepareWindowStationAssumption
<1>2. QED
  BY <1>1 DEF PWInit, Init, OriginalInv, OriginalAccessKept

\* A step that leaves a process where it is, or only moves it on between two
\* positions that are no calls on objects, leaves its objects to it as well.
LEMMA SameObjects ==
  ASSUME PlaceInv, Step, NEW i \in Ids, launched[i] # None
  PROVE  /\ launched'[i] = launched[i] /\ User(i)' = User(i)
         /\ \A t \in Kinds : ObjectOf(i, t)' = ObjectOf(i, t)
<1>1. key[i] # None
  BY DEF PlaceInv, PositionInv
<1>2. key'[i] = key[i] /\ launched'[i] = launched[i]
  BY <1>1, PreparationStays DEF PlaceInv
<1>3. QED
  BY <1>2 DEF User, ObjectOf, Object

\* The last handle on a desktop is closed: nothing but its list is cleared.
Closes(i) ==
  /\ ~KeptOpen(i) /\ end'[i] # "running"
  /\ acl' = [acl EXCEPT ![ObjectOf(i, "desktop")] = {}]

\* The moves of a process that are no calls on an access-control list and touch
\* no copy of one and no had-flag.
Quiet(i) ==
  /\ UNCHANGED <<dacl, had>>
  /\ \/ pc'[i] = pc[i] /\ (acl' = acl \/ Closes(i))
     \/ /\ pc'[i] = pc[i] + 1 /\ pc[i] \in {1, 2, 8, 14, 15}
        /\ end'[i] = end[i] /\ acl' = acl

\* A move of a process is quiet or a call on an access-control list.
LEMMA QuietMoves ==
  ASSUME PlaceInv, NEW i \in Ids, MoveOf(i)
  PROVE  Quiet(i) \/ HasSidAce(i) \/ ReadDacl(i) \/ GrantAccess(i) \/ RevokeAccess(i)
<1> USE AtPosition DEF PlaceInv, ProcTypeOK, At, Advance, Quiet
<1>1. ASSUME Exit(i, "aborted") \/ Exit(i, "returned") \/ Exit(i, "died") PROVE Quiet(i)
  BY <1>1 DEF Exit, Closes
<1>2. CASE ProcessAttaches(i) \/ GetData(i) \/ OpenDesktop(i) \/ ReportCompleted(i)
  BY <1>1, <1>2 DEF ProcessAttaches, GetData, OpenDesktop, ReportCompleted, Abort
<1>3. CASE WaitWhileActive(i) \/ Return(i) \/ Rundown(i)
  BY <1>1, <1>3 DEF WaitWhileActive, Return, Rundown, procVars
<1>4. CASE CallFails(i) \/ Die(i) \/ OrphanStep(i)
  BY <1>1, <1>4 DEF CallFails, Die, Abort, OrphanStep, OrphanAborts, OrphanReturns
<1>5. QED
  BY <1>2, <1>3, <1>4 DEF MoveOf, ProcessStep

\* The end of a process changes no list of a shared object, and no desktop that
\* a running process has open.
LEMMA ClosingKeepsLists ==
  ASSUME ProcTypeOK, NEW i \in Ids, Quiet(i)
  PROVE  /\ \A o \in Objects : o[2] # "desktop" => acl'[o] = acl[o]
         /\ \A o \in Objects : acl'[o] = acl[o] \/ (o[2] = "desktop" /\ acl'[o] = {})
         /\ \A j \in Ids \ {i} : HasDesktop(j) /\ ObjectOf(j, "desktop") \in Objects =>
              acl'[ObjectOf(j, "desktop")] = acl[ObjectOf(j, "desktop")]
<1>1. CASE acl' = acl
  BY <1>1
<1>2. CASE Closes(i)
  <2>1. ObjectOf(i, "desktop")[2] = "desktop"
    BY DEF ObjectOf, Object
  <2>2. \A o \in Objects : acl'[o] = IF o = ObjectOf(i, "desktop") THEN {} ELSE acl[o]
    BY <1>2 DEF Closes, ProcTypeOK
  <2>3. \A j \in Ids \ {i} : HasDesktop(j) => ObjectOf(j, "desktop") # ObjectOf(i, "desktop")
    BY <1>2 DEF Closes, KeptOpen
  <2>4. QED
    BY <2>1, <2>2, <2>3
<1>3. QED
  BY <1>1, <1>2 DEF Quiet

\* Whatever a process reads, grants or revokes, and whatever others have written
\* since it read: the original entries stay.
LEMMA MoveKeepsOriginal ==
  ASSUME PlaceInv, OriginalInv, NEW i \in Ids, MoveOf(i)
  PROVE  OriginalInv'
<1>1. TypeOK /\ ProcTypeOK
  BY DEF PlaceInv, IInv
<1>2. UNCHANGED <<key, launched, original>>
  BY <1>1, MoveIsLocal
<1>3. \A j \in Ids, t \in Kinds : ObjectOf(j, t)' = ObjectOf(j, t) /\ User(j)' = User(j)
  BY <1>2 DEF ObjectOf, Object, User
<1>4. ASSUME NEW j \in Ids \ {i}, launched'[j] # None PROVE KeepsOriginal(j)'
  <2>1. pc'[j] = pc[j] /\ dacl'[j] = dacl[j] /\ had'[j] = had[j]
    BY <1>1, MoveIsLocal
  <2>2. KeepsOriginal(j)
    BY <1>2, <1>4 DEF OriginalInv
  <2>3. Kind(j)' = Kind(j)
    BY <2>1 DEF Kind
  <2>4. pc[j] \in {5, 7, 10, 13, 17, 19, 21} => Kind(j) \in Kinds
    BY <1>1, AtPosition DEF Kinds
  <2>5. QED
    BY <1>2, <1>3, <2>1, <2>2, <2>3, <2>4 DEF KeepsOriginal, Shared, Kinds
<1>5. CASE Quiet(i)
  <2>1. launched[i] # None => KeepsOriginal(i)'
    <3>1. CASE pc'[i] = pc[i]
      BY <1>1, <1>2, <1>3, <1>5, <3>1, AtPosition
         DEF Quiet, OriginalInv, KeepsOriginal, Kind, Kinds, Shared
    <3>2. CASE pc'[i] = pc[i] + 1 /\ pc[i] \in {1, 2, 8, 14, 15}
      BY <1>1, <1>2, <1>3, <1>5, <3>2
         DEF Quiet, OriginalInv, KeepsOriginal, Kinds, Shared, HadAt
    <3>3. QED
      BY <1>5, <3>1, <3>2 DEF Quiet
  <2>2. OriginalAccessKept'
    BY <1>1, <1>2, <1>5, ClosingKeepsLists DEF OriginalInv, OriginalAccessKept
  <2>3. QED
    BY <1>2, <1>4, <2>1, <2>2 DEF OriginalInv
<1>6. CASE HasSidAce(i)
  <2>1. launched[i] # None /\ end[i] = "running" /\ pc[i] \in {3, 11} /\ pc'[i] = pc[i] + 1
    BY <1>1, <1>6, AtPosition DEF HasSidAce, At, Advance, ProcTypeOK
  <2>2. KeepsOriginal(i)'
    <3>1. Kind(i) \in Shared /\ pc[i] = HadAt[Kind(i)]
      BY <1>1, <2>1, AtPosition DEF Shared, HadAt
    <3>2. ObjectOf(i, Kind(i)) \in Objects
      BY <1>1, <2>1, <3>1, WorksOnObjects DEF PlaceInv, PositionInv, Shared, Kinds
    <3>3. original[ObjectOf(i, Kind(i))] \subseteq acl[ObjectOf(i, Kind(i))]
      BY <3>2 DEF OriginalInv, OriginalAccessKept
    <3>4. User(i) \in original[ObjectOf(i, Kind(i))] => Kind(i) \in had'[i]
      BY <1>1, <1>6, <3>3 DEF HasSidAce, ProcTypeOK
    <3>5. \A t \in Shared : t \in had[i] => t \in had'[i]
      BY <1>1, <1>6 DEF HasSidAce, ProcTypeOK
    <3>6. \A t \in Shared : pc'[i] > HadAt[t] => pc[i] > HadAt[t] \/ t = Kind(i)
      BY <2>1, <3>1 DEF Shared, HadAt
    <3>7. KeepsOriginal(i)
      BY <2>1 DEF OriginalInv
    <3>8. QED
      BY <1>2, <1>3, <2>1, <3>4, <3>5, <3>6, <3>7 DEF KeepsOriginal, Shared, Kinds
  <2>3. OriginalAccessKept'
    BY <1>2, <1>6 DEF HasSidAce, OriginalInv, OriginalAccessKept
  <2>4. QED
    BY <1>2, <1>4, <2>2, <2>3 DEF OriginalInv
<1>7. CASE ReadDacl(i)
  <2>1. launched[i] # None /\ KeepsOriginal(i) /\ Kind(i) \in Kinds
    BY <1>1, <1>7, AtPosition DEF ReadDacl, At, OriginalInv, Kinds
  <2>2. ObjectOf(i, Kind(i)) \in Objects
    BY <1>1, <2>1, WorksOnObjects DEF PlaceInv, PositionInv
  <2>3. KeepsOriginal(i)'
    <3>1. CASE At(i, "ReadToRevoke") /\ Kind(i) \in had[i] /\ Skip(i) /\ UNCHANGED dacl
      <4>1. pc[i] \in {16, 20} /\ pc'[i] = pc[i] + 2
        BY <1>1, <3>1, AtPosition DEF At, Skip, ProcTypeOK, Shared
      <4>2. QED
        BY <1>2, <1>3, <1>7, <2>1, <4>1 DEF ReadDacl, KeepsOriginal, Shared, Kinds, HadAt
    <3>2. CASE /\ At(i, "ReadToGrant") \/ (At(i, "ReadToRevoke") /\ Kind(i) \notin had[i])
               /\ dacl' = [dacl EXCEPT ![i] = acl[ObjectOf(i, Kind(i))]]
               /\ Advance(i)
      <4>1. pc[i] \in {4, 6, 9, 12, 16, 18, 20} /\ pc'[i] = pc[i] + 1
        BY <1>1, <3>2, AtPosition DEF At, Advance, ProcTypeOK
      <4>2. Kind(i)' = Kind(i)
        BY <1>1, <4>1, ProgramPositions DEF Kind, ProcTypeOK
      <4>3. original[ObjectOf(i, Kind(i))] \subseteq dacl'[i]
        BY <1>1, <2>2, <3>2 DEF OriginalInv, OriginalAccessKept, ProcTypeOK
      <4>4. pc[i] \in {16, 18, 20} => User(i) \notin original[ObjectOf(i, Kind(i))]
        <5>1. CASE pc[i] \in {16, 20}
          <6>1. Kind(i) \in Shared /\ Kind(i) \notin had[i] /\ pc[i] > HadAt[Kind(i)]
            BY <1>1, <3>2, <5>1, AtPosition DEF At, Shared, HadAt
          <6>2. QED
            BY <2>1, <6>1 DEF KeepsOriginal
        <5>2. CASE pc[i] = 18
          <6>1. ObjectOf(i, Kind(i))[2] = "desktop"
            BY <1>1, <5>2, AtPosition DEF ObjectOf, Object
          <6>2. QED
            BY <2>2, <6>1 DEF OriginalInv
        <5>3. QED
          BY <5>1, <5>2
      <4>5. had' = had
        BY <1>7 DEF ReadDacl
      <4>6. QED
        BY <1>2, <1>3, <2>1, <4>1, <4>2, <4>3, <4>4, <4>5
           DEF KeepsOriginal, Shared, Kinds, HadAt
    <3>3. QED
      BY <1>7, <3>1, <3>2 DEF ReadDacl
  <2>4. OriginalAccessKept'
    BY <1>2, <1>7 DEF ReadDacl, OriginalInv, OriginalAccessKept
  <2>5. QED
    BY <1>2, <1>4, <2>3, <2>4 DEF OriginalInv
<1>8. ASSUME GrantAccess(i) \/ RevokeAccess(i) PROVE OriginalInv'
  <2>1. /\ launched[i] # None /\ KeepsOriginal(i) /\ Kind(i) \in Kinds
        /\ pc[i] \in {5, 7, 10, 13, 17, 19, 21} /\ pc'[i] = pc[i] + 1
    BY <1>1, <1>8, AtPosition
       DEF GrantAccess, RevokeAccess, WriteDacl, Advance, At, ProcTypeOK, OriginalInv, Kinds
  <2>2. ObjectOf(i, Kind(i)) \in Objects
    BY <1>1, <2>1, WorksOnObjects DEF PlaceInv, PositionInv
  <2>3. original[ObjectOf(i, Kind(i))] \subseteq acl'[ObjectOf(i, Kind(i))]
    <3>1. CASE GrantAccess(i)
      BY <1>1, <2>1, <2>2, <3>1 DEF GrantAccess, WriteDacl, KeepsOriginal, ProcTypeOK
    <3>2. CASE RevokeAccess(i)
      <4>1. pc[i] \in {17, 19, 21}
        BY <1>1, <3>2, AtPosition DEF RevokeAccess, At
      <4>2. QED
        BY <1>1, <2>1, <2>2, <3>2, <4>1 DEF RevokeAccess, WriteDacl, KeepsOriginal, ProcTypeOK
    <3>3. QED
      BY <1>8, <3>1, <3>2
  <2>4. \A o \in Objects : o # ObjectOf(i, Kind(i)) => acl'[o] = acl[o]
    BY <1>1, <1>8 DEF GrantAccess, RevokeAccess, WriteDacl, ProcTypeOK
  <2>5. OriginalAccessKept'
    BY <1>2, <2>3, <2>4 DEF OriginalInv, OriginalAccessKept
  <2>6. KeepsOriginal(i)'
    <3>1. had' = had
      BY <1>8 DEF GrantAccess, RevokeAccess, WriteDacl
    <3>2. QED
      BY <1>2, <1>3, <2>1, <3>1 DEF KeepsOriginal, Shared, Kinds, HadAt
  <2>7. QED
    BY <1>2, <1>4, <2>5, <2>6 DEF OriginalInv
<1>9. QED
  BY <1>5, <1>6, <1>7, <1>8, QuietMoves

\* Every step keeps the original entries, also when the server crashes.
LEMMA StepKeepsOriginal ==
  ASSUME PlaceInv, OriginalInv, Step
  PROVE  OriginalInv'
<1>1. CASE Outside
  <2>1. UNCHANGED <<pc, acl, original, dacl, had>>
    BY <1>1, OutsideIsNoMove
  <2>2. ASSUME NEW i \in Ids, launched'[i] # None PROVE KeepsOriginal(i)'
    <3>1. Kind(i)' = Kind(i)
      BY <2>1 DEF Kind
    <3>2. CASE launched[i] # None
      <4>1. User(i)' = User(i) /\ \A t \in Kinds : ObjectOf(i, t)' = ObjectOf(i, t)
        BY <3>2, SameObjects
      <4>2. KeepsOriginal(i)
        BY <3>2 DEF OriginalInv
      <4>3. pc[i] \in {5, 7, 10, 13, 17, 19, 21} => Kind(i) \in Kinds
        BY AtPosition DEF PlaceInv, Kinds
      <4>4. QED
        BY <2>1, <3>1, <4>1, <4>2, <4>3 DEF KeepsOriginal, Shared, Kinds
    <3>3. CASE launched[i] = None
      <4>1. pc[i] = 1
        BY <3>3 DEF PlaceInv, PositionInv
      <4>2. QED
        BY <2>1, <4>1 DEF KeepsOriginal, HadAt, Shared
    <3>4. QED
      BY <3>2, <3>3
  <2>3. QED
    BY <2>1, <2>2 DEF OriginalInv, OriginalAccessKept
<1>2. QED
  BY <1>1, MoveKeepsOriginal DEF Step

\* Every reachable state has the original entries.
LEMMA OriginalInvHolds == PWSpec => []OriginalInv
<1>1. PWInit => OriginalInv
  BY InitOriginalInv
<1>2. PlaceInv /\ OriginalInv /\ [PWNext]_vars => OriginalInv'
  BY StepOfPW, StepKeepsOriginal
<1>3. QED
  BY <1>1, <1>2, PlaceInvHolds, PTL DEF PWSpec

\* However many processes of however many users read and write the lists at the
\* same time, and whatever fails, an original entry is never lost.
THEOREM OriginalKept == PWSpec => []OriginalAccessKept
<1>1. OriginalInv => OriginalAccessKept
  BY DEF OriginalInv
<1>2. QED
  BY <1>1, OriginalInvHolds, PTL

\* The invariant of positions survives crashes of the server.
LEMMA RestartPlaceInvHolds == RSpec => []PlaceInv
<1>1. PlaceInv /\ [RNext]_allVars => PlaceInv'
  BY StepOfRestart, StepKeepsPlaceInv
<1>2. RInit => PlaceInv
  BY InitPlaceInv DEF RInit
<1>3. QED
  BY <1>1, <1>2, PTL DEF RSpec

\* The same when the server crashes any number of times, and its orphans go on.
THEOREM OriginalKeptAcrossCrashes == RSpec => []OriginalAccessKept
<1>1. RInit => OriginalInv
  BY InitOriginalInv DEF RInit
<1>2. PlaceInv /\ OriginalInv /\ [RNext]_allVars => OriginalInv'
  BY StepOfRestart, StepKeepsOriginal
<1>3. OriginalInv => OriginalAccessKept
  BY DEF OriginalInv
<1>4. QED
  BY <1>1, <1>2, <1>3, RestartPlaceInvHolds, PTL DEF RSpec

-----------------------------------------------------------------------------
(* A process that has the lists of its session to itself.                  *)

\* The positions up to WaitWhileActive at which the user has an entry: on the
\* window station from the first of the two grants on.
GrantedAt == [t \in Kinds |-> IF t = "winsta" THEN 6..15
                              ELSE IF t = "desktop" THEN 11..15 ELSE 14..15]

\* What the process of i has granted so far is there; its desktop, for as long
\* as the process runs.
AccessOf(i) ==
  \A t \in Kinds : pc[i] \in GrantedAt[t] /\ (t = "desktop" => end[i] = "running") =>
    User(i) \in acl[ObjectOf(i, t)]

\* No other process has begun to work on the session of i.
Works(j) == Runs(j) /\ pc[j] > 1
Alone(i) == \A j \in Ids \ {i} : Works(j) => SessionOf[launched[j]] # SessionOf[launched[i]]

\* From the first grant on its desktop on, a process has it open.
LEMMA GrantedIsOpen ==
  ASSUME ProcTypeOK, NEW i \in Ids, Runs(i), pc[i] \in GrantedAt["desktop"]
  PROVE  HasDesktop(i)
<1>1. 8 \in 1..(pc[i] - 1)
  BY DEF GrantedAt, Kinds
<1>2. Program[8] = Do("OpenDesktop", "desktop")
  BY DEF Program
<1>3. QED
  BY <1>1, <1>2 DEF HasDesktop, Runs

\* A process that has ended does not come back.
LEMMA EndIsFinal ==
  ASSUME PlaceInv, Step, NEW i \in Ids, end[i] # "running"
  PROVE  end'[i] = end[i]
<1>1. TypeOK /\ ProcTypeOK
  BY DEF PlaceInv, IInv
<1>2. CASE Outside
  BY <1>2, OutsideIsNoMove
<1>3. ASSUME NEW j \in Ids \ {i}, MoveOf(j) PROVE end'[i] = end[i]
  BY <1>1, <1>3, MoveIsLocal
<1>4. ASSUME MoveOf(i) PROVE end'[i] = end[i]
  BY <1>4 DEF MoveOf, ProcessStep, ProcessAttaches, GetData, OpenDesktop, ReportCompleted,
      HasSidAce, ReadDacl, GrantAccess, RevokeAccess, WaitWhileActive, Return, Rundown, CallFails, Die,
      OrphanStep, OrphanAborts, OrphanReturns, At, Runs, procVars
<1>5. QED
  BY <1>2, <1>3, <1>4 DEF Step

\* A process that has the lists to itself keeps what it has granted.
LEMMA AloneKeepsAccess ==
  ASSUME PlaceInv, Step, NEW i \in Ids, launched[i] # None,
         pc[i] > 1 => Alone(i), AccessOf(i)
  PROVE  AccessOf(i)'
<1>1. TypeOK /\ ProcTypeOK
  BY DEF PlaceInv, IInv
<1>2. User(i)' = User(i) /\ \A t \in Kinds : ObjectOf(i, t)' = ObjectOf(i, t)
  BY SameObjects
<1>3. CASE Outside
  BY <1>2, <1>3, OutsideIsNoMove DEF AccessOf
<1>4. ASSUME NEW j \in Ids \ {i}, MoveOf(j) PROVE AccessOf(i)'
  <2>1. pc'[i] = pc[i] /\ end'[i] = end[i]
    BY <1>1, <1>4, MoveIsLocal
  <2>2. CASE acl' = acl
    BY <1>2, <2>1, <2>2 DEF AccessOf
  <2>3. CASE pc[i] = 1
    BY <2>1, <2>3 DEF AccessOf, GrantedAt, Kinds
  <2>4. ASSUME pc[i] # 1, GrantAccess(j) \/ RevokeAccess(j) PROVE AccessOf(i)'
    <3>1. Alone(i)
      BY <1>1, <2>4, AtPosition
    <3>2. Works(j)
      BY <1>1, <2>4, AtPosition DEF GrantAccess, RevokeAccess, At, Works, Runs
    <3>3. \A t \in Kinds : ObjectOf(j, Kind(j)) # ObjectOf(i, t)
      BY <3>1, <3>2 DEF Alone, ObjectOf, Object
    <3>4. \E users : acl' = [acl EXCEPT ![ObjectOf(j, Kind(j))] = users]
      BY <2>4 DEF GrantAccess, RevokeAccess, WriteDacl
    <3>5. \A t \in Kinds : ObjectOf(i, t) \in Objects
      BY <1>1, WorksOnObjects DEF PlaceInv, PositionInv
    <3>6. \A t \in Kinds : acl'[ObjectOf(i, t)] = acl[ObjectOf(i, t)]
      BY <1>1, <3>3, <3>4, <3>5 DEF ProcTypeOK
    <3>7. QED
      BY <1>2, <2>1, <3>6 DEF AccessOf
  <2>5. CASE HasSidAce(j) \/ ReadDacl(j)
    BY <2>2, <2>5 DEF HasSidAce, ReadDacl
  <2>6. CASE Quiet(j)
    <3>1. \A t \in Kinds : ObjectOf(i, t) \in Objects /\ ObjectOf(i, t)[2] = t
      BY <1>1, WorksOnObjects DEF PlaceInv, PositionInv, ObjectOf, Object
    <3>2. ASSUME NEW t \in Kinds, pc[i] \in GrantedAt[t], t = "desktop" => end[i] = "running"
          PROVE  acl'[ObjectOf(i, t)] = acl[ObjectOf(i, t)]
      BY <1>1, <2>6, <3>1, <3>2, ClosingKeepsLists, GrantedIsOpen DEF Runs
    <3>3. QED
      BY <1>2, <2>1, <3>2 DEF AccessOf
  <2>7. QED
    BY <1>4, <2>3, <2>4, <2>5, <2>6, QuietMoves
<1>5. ASSUME MoveOf(i) PROVE AccessOf(i)'
  <2>0. end'[i] = "running" => end[i] = "running"
    BY EndIsFinal
  <2>1. CASE Quiet(i)
    <3>1. \A t \in Kinds : ObjectOf(i, t) \in Objects /\ ObjectOf(i, t)[2] = t
      BY <1>1, WorksOnObjects DEF PlaceInv, PositionInv, ObjectOf, Object
    <3>2. \A t \in Kinds : pc'[i] \in GrantedAt[t] => pc[i] \in GrantedAt[t]
      BY <1>1, <2>1 DEF Quiet, GrantedAt, Kinds
    <3>3. ASSUME NEW t \in Kinds, t = "desktop" => end'[i] = "running"
          PROVE  acl'[ObjectOf(i, t)] = acl[ObjectOf(i, t)]
      <4>1. CASE t = "desktop"
        BY <2>1, <3>3, <4>1 DEF Quiet, Closes
      <4>2. CASE t # "desktop"
        BY <1>1, <2>1, <3>1, <4>2, ClosingKeepsLists
      <4>3. QED
        BY <4>1, <4>2
    <3>4. QED
      BY <1>2, <2>0, <3>2, <3>3 DEF AccessOf
  <2>2. CASE HasSidAce(i)
    <3>1. pc[i] \in {3, 11} /\ pc'[i] = pc[i] + 1 /\ acl' = acl
      BY <1>1, <2>2, AtPosition DEF HasSidAce, At, Advance, ProcTypeOK
    <3>2. QED
      BY <1>2, <2>0, <3>1 DEF AccessOf, GrantedAt, Kinds
  <2>3. CASE ReadDacl(i)
    <3>1. /\ (pc[i] \in {4, 6, 9, 12} /\ pc'[i] = pc[i] + 1) \/ pc'[i] > 15
          /\ acl' = acl
      BY <1>1, <2>3, AtPosition DEF ReadDacl, At, Advance, Skip, ProcTypeOK
    <3>2. QED
      BY <1>2, <2>0, <3>1 DEF AccessOf, GrantedAt, Kinds
  <2>4. CASE GrantAccess(i)
    <3>1. pc[i] \in {5, 7, 10, 13} /\ pc'[i] = pc[i] + 1 /\ Kind(i) \in Kinds
      BY <1>1, <2>4, AtPosition DEF GrantAccess, WriteDacl, At, Advance, ProcTypeOK, Kinds
    <3>2. \A t \in Kinds : ObjectOf(i, t) \in Objects
      BY <1>1, WorksOnObjects DEF PlaceInv, PositionInv
    <3>3. User(i) \in acl'[ObjectOf(i, Kind(i))]
      BY <1>1, <2>4, <3>1, <3>2 DEF GrantAccess, WriteDacl, ProcTypeOK
    <3>4. \A t \in Kinds : t # Kind(i) => ObjectOf(i, t) # ObjectOf(i, Kind(i))
      BY DEF ObjectOf, Object
    <3>5. \A t \in Kinds : t # Kind(i) => acl'[ObjectOf(i, t)] = acl[ObjectOf(i, t)]
      BY <1>1, <2>4, <3>2, <3>4 DEF GrantAccess, WriteDacl, ProcTypeOK
    <3>6. \A t \in Kinds : pc'[i] \in GrantedAt[t] => pc[i] \in GrantedAt[t] \/ t = Kind(i)
      BY <1>1, <3>1, AtPosition DEF GrantedAt, Kinds
    <3>7. QED
      BY <1>2, <2>0, <3>3, <3>5, <3>6 DEF AccessOf
  <2>5. CASE RevokeAccess(i)
    <3>1. pc'[i] > 15
      BY <1>1, <2>5, AtPosition DEF RevokeAccess, WriteDacl, At, Advance, ProcTypeOK
    <3>2. QED
      BY <3>1 DEF AccessOf, GrantedAt, Kinds
  <2>6. QED
    BY <1>5, <2>1, <2>2, <2>3, <2>4, <2>5, QuietMoves
<1>6. QED
  BY <1>3, <1>4, <1>5 DEF Step

\* A process that works has attached, and stays so until it ends, unless the
\* server crashes.
LEMMA WorksAttached ==
  ASSUME PlaceInv, NEW i \in Ids, Works(i) => comm[i] = "attached", Works(i)',
         PWNext \/ (\E j \in Ids : OrphanStep(j)) \/ UNCHANGED vars
  PROVE  comm'[i] = "attached"
<1>1. TypeOK /\ ProcTypeOK
  BY DEF PlaceInv, IInv
<1>2. pc'[i] > 1 /\ end'[i] = "running"
  BY DEF Works, Runs
<1>3. CASE pc'[i] = pc[i] /\ end'[i] = end[i] /\ comm'[i] = comm[i]
  BY <1>2, <1>3 DEF Works, Runs, PlaceInv, PositionInv
<1>4. ASSUME NEW e \in Execs, ClientStep(e) PROVE comm'[i] = "attached"
  BY <1>3, <1>4
     DEF ClientStep, CreateExec, KillAndDestroyExec, DestroyExec, PrepareWindowStation, ReusePreparation,
         CreatePreparation, StartProcess, regVars, procVars
<1>5. ASSUME NEW j \in Ids \ {i}, MoveOf(j) PROVE comm'[i] = "attached"
  BY <1>1, <1>3, <1>5, MoveIsLocal DEF Works, Runs, PlaceInv, PositionInv
<1>6. ASSUME MoveOf(i) PROVE comm'[i] = "attached"
  <2> USE <1>1, <1>2, AtPosition DEF At, Advance, Exit, ProcTypeOK, TypeOK
  <2>1. CASE ProcessAttaches(i)
    BY <2>1 DEF ProcessAttaches, Attach
  <2>2. CASE GetData(i) \/ OpenDesktop(i) \/ ReportCompleted(i)
    BY <2>2 DEF GetData, OpenDesktop, ReportCompleted, PreparationCompleted, Abort, regVars, Works, Runs
  <2>3. CASE HasSidAce(i) \/ ReadDacl(i) \/ GrantAccess(i) \/ RevokeAccess(i)
    BY <2>3 DEF HasSidAce, ReadDacl, GrantAccess, RevokeAccess, WriteDacl, regVars, Works, Runs
  <2>4. CASE WaitWhileActive(i)
    BY <2>4 DEF WaitWhileActive, regVars, Works, Runs
  <2>5. CASE Return(i) \/ Rundown(i)
    BY <2>5 DEF Return, Rundown, procVars
  <2>6. CASE CallFails(i) \/ Die(i) \/ OrphanStep(i)
    BY <2>6 DEF CallFails, Die, Abort, OrphanStep, OrphanAborts, OrphanReturns
  <2>7. QED
    BY <1>6, <2>1, <2>2, <2>3, <2>4, <2>5, <2>6 DEF MoveOf, ProcessStep
<1>7. CASE \E c \in Consoles \cup {None} : SwitchConsole(c) /\ UNCHANGED procVars
  BY <1>3, <1>7 DEF SwitchConsole, procVars
<1>8. CASE UNCHANGED vars
  BY <1>3, <1>8 DEF vars, regVars, procVars
<1>9. QED
  BY <1>4, <1>5, <1>6, <1>7, <1>8 DEF PWNext, MoveOf

-----------------------------------------------------------------------------
(* Access beside crashes: nothing but a disturbance takes it away.         *)

\* What is said of i holds while its process works or a client relies on it.
Guarded(i) == /\ launched[i] # None /\ i \notin disturbed \cup orphans
              /\ Runs(i) \/ Active(i)

GuardInv ==
  /\ Disturbed \subseteq disturbed
  /\ \A i \in Ids : i \notin orphans /\ Works(i) => comm[i] = "attached"
  /\ \A i \in Ids : i \in orphans => ~Active(i) /\ key[i] # None
  /\ \A i \in Ids : Guarded(i) => AccessOf(i)

\* The registry lets one process work for a key at a time; the history knows of
\* every process of another key and of every orphan.
LEMMA GuardedIsAlone ==
  ASSUME PlaceInv, GuardInv, NEW i \in Ids, Guarded(i), pc[i] > 1
  PROVE  Alone(i)
<1> SUFFICES ASSUME NEW j \in Ids \ {i}, Works(j),
                    SessionOf[launched[j]] = SessionOf[launched[i]]
             PROVE  FALSE
  BY DEF Alone
<1>1. ~Conflict(i, j)
  BY DEF GuardInv, Disturbed, Guarded
<1>2. key[i] = key[j] /\ j \notin orphans
  BY <1>1 DEF Conflict, Guarded, Works
<1>3. comm[j] = "attached"
  BY <1>2 DEF GuardInv
<1>4. CASE Active(i)
  BY <1>2, <1>3, <1>4 DEF PlaceInv, IInv, NoLeftoverProcess
<1>5. CASE Runs(i)
  <2>1. comm[i] = "attached"
    BY <1>5 DEF GuardInv, Guarded, Works
  <2>2. QED
    BY <1>2, <1>3, <2>1 DEF PlaceInv, IInv, RunningIsExact
<1>6. QED
  BY <1>4, <1>5 DEF Guarded

\* The invariant of undisturbed processes holds initially.
LEMMA InitGuardInv == RInit => GuardInv
<1> SUFFICES ASSUME RInit PROVE GuardInv
  OBVIOUS
<1>1. \A i \in Ids : launched[i] = None /\ pc[i] = 1
  BY DEF RInit, PWInit, Init
<1>2. Disturbed = {}
  BY <1>1 DEF Disturbed, Conflict
<1>3. QED
  BY <1>1, <1>2 DEF RInit, GuardInv, Guarded, Works

\* Every step keeps what undisturbed processes have granted.
LEMMA NextKeepsGuardInv ==
  ASSUME PlaceInv, GuardInv, [RNext]_allVars
  PROVE  GuardInv'
<1>1. Step /\ PlaceInv' /\ PositionInv /\ PositionInv'
  BY StepOfRestart, StepKeepsPlaceInv DEF PlaceInv
<1>2. TypeOK /\ ProcTypeOK
  BY DEF PlaceInv, IInv
<1>3. disturbed \subseteq disturbed' /\ orphans \subseteq orphans'
  BY DEF RNext, Crash, allVars, restartVars
<1>4. CASE UNCHANGED allVars
  BY <1>4 DEF allVars, restartVars, vars, regVars, objects, maps, procVars, GuardInv, Guarded,
      Disturbed, Conflict, Runs, Works, AccessOf, Active, ObjectOf, Object, User
<1>5. CASE RNext
  <2>1. Disturbed' \subseteq disturbed'
    BY <1>5 DEF RNext
  <2>2. ASSUME NEW i \in Ids, i \notin orphans', Works(i)' PROVE comm'[i] = "attached"
    <3>1. Works(i) => comm[i] = "attached"
      BY <1>3, <2>2 DEF GuardInv
    <3>2. CASE Crash
      <4>1. Works(i) /\ Runs(i)
        BY <2>2, <3>2 DEF Crash, Works, Runs, PlaceInv, PositionInv
      <4>2. QED
        BY <2>2, <3>1, <3>2, <4>1 DEF Crash
    <3>3. CASE PWNext \/ \E j \in Ids : OrphanStep(j)
      BY <2>2, <3>1, <3>3, WorksAttached
    <3>4. QED
      BY <1>5, <3>2, <3>3 DEF RNext
  <2>3. ASSUME NEW i \in Ids, i \in orphans' PROVE ~Active(i)' /\ key'[i] # None
    <3>1. CASE i \in orphans
      <4>1. ~Active(i) /\ key[i] # None
        BY <3>1 DEF GuardInv
      <4>2. QED
        BY <1>1, <4>1, PreparationStays DEF PlaceInv
    <3>2. CASE i \notin orphans
      <4>1. Crash /\ Runs(i)
        BY <1>5, <2>3, <3>2 DEF RNext, Crash
      <4>2. ~Active(i)'
        BY <4>1, PreparationAssumption DEF Crash, Active
      <4>3. key'[i] # None
        BY <4>1 DEF Crash, Runs, PlaceInv, PositionInv
      <4>4. QED
        BY <4>2, <4>3
    <3>3. QED
      BY <3>1, <3>2
  <2>4. ASSUME NEW i \in Ids, Guarded(i)' PROVE AccessOf(i)'
    <3>1. CASE launched[i] = None
      <4>1. pc[i] = 1 /\ pc'[i] = 1
        <5>1. pc[i] = 1 /\ launched[i] = None /\ end[i] = "running"
          BY <1>1, <3>1 DEF PositionInv
        <5>2. ASSUME NEW j \in Ids, MoveOf(j) PROVE pc'[i] = pc[i]
          BY <1>2, <5>1, <5>2, MoveIsLocal
        <5>3. Outside => pc' = pc
          BY OutsideIsNoMove
        <5>4. QED
          BY <1>1, <5>1, <5>2, <5>3 DEF Step
      <4>2. QED
        BY <4>1 DEF AccessOf, GrantedAt, Kinds
    <3>2. CASE launched[i] # None
      <4>1. key[i] # None
        BY <1>1, <3>2 DEF PositionInv
      <4>2. Active(i)' => Active(i)
        BY <1>1, <4>1, PreparationStays DEF PlaceInv
      <4>3. Runs(i)' => Runs(i)
        BY <1>1, <3>2, EndIsFinal DEF Runs
      <4>4. Guarded(i)
        BY <1>3, <2>4, <3>2, <4>2, <4>3 DEF Guarded
      <4>5. AccessOf(i) /\ (pc[i] > 1 => Alone(i))
        BY <4>4, GuardedIsAlone DEF GuardInv
      <4>6. QED
        BY <1>1, <3>2, <4>5, AloneKeepsAccess
    <3>3. QED
      BY <3>1, <3>2
  <2>5. QED
    BY <2>1, <2>2, <2>3, <2>4 DEF GuardInv
<1>6. QED
  BY <1>4, <1>5

\* What a completed preparation has granted is what its users have: everything,
\* or what is shared when its process was terminated from outside.
LEMMA AccessLasts ==
  ASSUME PlaceInv, NEW i \in Ids, launched[i] # None, pc[i] = 15, AccessOf(i)
  PROVE  HasAccess(User(i), SessionOf[launched[i]], Lasting(i))
<1>1. end[i] \in {"running", "died"}
  BY DEF PlaceInv, PositionInv, ProcTypeOK
<1>2. \A t \in Lasting(i) : t \in Kinds /\ (t = "desktop" => end[i] = "running")
  BY <1>1 DEF Lasting, Kinds, Shared
<1>3. \A t \in Lasting(i) : User(i) \in acl[ObjectOf(i, t)]
  BY <1>2 DEF AccessOf, GrantedAt, Kinds
<1>4. QED
  BY <1>3 DEF HasAccess, ObjectOf, User

\* A client that was told that its window station is prepared has access,
\* through any number of crashes of the server and failing calls, unless a
\* process that the registry does not keep apart has worked on the same session.
\* When the process that prepared it was terminated from outside, that is access
\* to the shared objects; the desktop is deleted.
THEOREM AccessKeptUnlessDisturbed == RSpec => []AccessUnlessDisturbed
<1>1. RInit => GuardInv
  BY InitGuardInv
<1>2. PlaceInv /\ GuardInv /\ [RNext]_allVars => GuardInv'
  BY NextKeepsGuardInv
<1>3. PlaceInv /\ GuardInv => AccessUnlessDisturbed
  <2> SUFFICES ASSUME PlaceInv, GuardInv, NEW i \in Ids,
                      Active(i), isPrepared[i], i \notin disturbed
               PROVE  HasAccess(User(i), SessionOf[launched[i]], Lasting(i))
    BY DEF AccessUnlessDisturbed
  <2>1. pc[i] = 15 /\ launched[i] # None
    BY DEF PlaceInv, PositionInv, ProcTypeOK, Positions
  <2>2. i \notin orphans
    BY DEF GuardInv
  <2>3. AccessOf(i)
    BY <2>1, <2>2 DEF GuardInv, Guarded
  <2>4. QED
    BY <2>1, <2>3, AccessLasts
<1>4. QED
  BY <1>1, <1>2, <1>3, RestartPlaceInvHolds, PTL DEF RSpec

-----------------------------------------------------------------------------
(* All clients act for one user of one logon session.                      *)

\* Every Prepare asks for the same key: the registry then lets one process work
\* at a time.
OneKey == \A e, f \in Execs, c, d \in Consoles :
            ClientConsoleString(e, c) = ClientConsoleString(f, d)

\* A key is that of some call.
KeyInv ==
  \A i \in Ids : key[i] # None =>
    \E e \in Execs, c \in Consoles : key[i] = ClientConsoleString(e, c)

AttachedInv == \A i \in Ids : Works(i) => comm[i] = "attached"

OneKeyInv == KeyInv /\ AttachedInv

\* The invariant of a single key holds initially.
LEMMA InitOneKeyInv == PWInit => OneKeyInv
BY DEF PWInit, Init, OneKeyInv, KeyInv, AttachedInv, Works

\* Every step keeps the invariant of a single key.
LEMMA NextKeepsOneKeyInv ==
  ASSUME PlaceInv, OneKeyInv, [PWNext]_vars
  PROVE  OneKeyInv'
<1>1. Step
  BY StepOfPW
<1>2. TypeOK /\ ProcTypeOK
  BY DEF PlaceInv, IInv
<1>3. AttachedInv'
  <2> SUFFICES ASSUME NEW i \in Ids, Works(i)' PROVE comm'[i] = "attached"
    BY DEF AttachedInv
  <2>1. QED
    BY WorksAttached DEF OneKeyInv, AttachedInv
<1>4. ASSUME NEW i \in Ids, key[i] = None, key'[i] # None
      PROVE  \E e \in Execs, c \in Consoles : key'[i] = ClientConsoleString(e, c)
  <2>1. PICK e \in Execs : ClientStep(e)
    BY <1>2, <1>4, MoveIsLocal
       DEF PWNext, MoveOf, SwitchConsole, vars, regVars, objects
  <2>2. PICK j \in Ids, c \in Consoles : CreatePreparation(e, j, c)
    BY <1>4, <2>1 DEF ClientStep, CreateExec, KillAndDestroyExec, DestroyExec,
        PrepareWindowStation, ReusePreparation, StartProcess, regVars, objects
  <2>3. console \in Consoles /\ key' = [key EXCEPT ![j] = ClientConsoleString(e, console)]
    BY <1>2, <2>2 DEF CreatePreparation, ConsoleFound, TypeOK
  <2>4. key'[i] = ClientConsoleString(e, console)
    BY <1>2, <1>4, <2>3 DEF TypeOK
  <2>5. QED
    BY <2>3, <2>4
<1>5. KeyInv'
  <2> SUFFICES ASSUME NEW i \in Ids, key'[i] # None
               PROVE  \E e \in Execs, c \in Consoles : key'[i] = ClientConsoleString(e, c)
    BY DEF KeyInv, ClientConsoleString
  <2>1. CASE key[i] # None
    BY <1>1, <2>1, PreparationStays DEF PlaceInv, OneKeyInv, KeyInv
  <2>2. CASE key[i] = None
    BY <1>4, <2>2
  <2>3. QED
    BY <2>1, <2>2
<1>6. QED
  BY <1>3, <1>5 DEF OneKeyInv

\* Two processes that work, or a process that works and a preparation that is
\* active, belong to one preparation.
LEMMA OneKeyIsAlone ==
  ASSUME OneKey, PlaceInv, OneKeyInv, NEW i \in Ids, NEW j \in Ids,
         Works(i) \/ Active(i), Works(j)
  PROVE  i = j
<1>1. key[i] # None /\ key[j] # None
  BY DEF PlaceInv, PositionInv, IInv, MapsMatchObjects, Works, Runs
<1>2. key[i] = key[j]
  BY <1>1 DEF OneKey, OneKeyInv, KeyInv
<1>3. comm[j] = "attached"
  BY DEF OneKeyInv, AttachedInv
<1>4. CASE Active(i)
  BY <1>2, <1>3, <1>4 DEF PlaceInv, IInv, NoLeftoverProcess
<1>5. CASE Works(i)
  BY <1>2, <1>3, <1>5 DEF PlaceInv, IInv, RunningIsExact, OneKeyInv, AttachedInv
<1>6. QED
  BY <1>4, <1>5

\* Every reachable state satisfies the invariant of a single key.
LEMMA OneKeyInvHolds == PWSpec => []OneKeyInv
<1>1. PWInit => OneKeyInv
  BY InitOneKeyInv
<1>2. PlaceInv /\ OneKeyInv /\ [PWNext]_vars => OneKeyInv'
  BY NextKeepsOneKeyInv
<1>3. QED
  BY <1>1, <1>2, PlaceInvHolds, PTL DEF PWSpec

\* What has been granted is there while a process works or a client relies on it.
AccessInv ==
  \A i \in Ids : launched[i] # None /\ (Runs(i) \/ Active(i)) => AccessOf(i)

\* With a single key every step keeps what the processes have granted.
LEMMA NextKeepsAccessInv ==
  ASSUME OneKey, PlaceInv, OneKeyInv, AccessInv, [PWNext]_vars
  PROVE  AccessInv'
<1> SUFFICES ASSUME NEW i \in Ids, (launched[i] # None /\ (Runs(i) \/ Active(i)))'
             PROVE  AccessOf(i)'
  BY DEF AccessInv
<1>1. Step /\ PlaceInv'
  BY StepOfPW, StepKeepsPlaceInv
<1>2. CASE launched[i] = None
  <2>1. TypeOK /\ ProcTypeOK /\ pc[i] = 1 /\ end[i] = "running"
    BY <1>2 DEF PlaceInv, IInv, PositionInv
  <2>2. ASSUME NEW j \in Ids, MoveOf(j) PROVE pc'[i] = 1
    BY <1>2, <2>1, <2>2, MoveIsLocal
  <2>3. pc'[i] = 1
    BY <1>1, <2>1, <2>2, OutsideIsNoMove DEF Step
  <2>4. QED
    BY <2>3 DEF AccessOf, GrantedAt, Kinds
<1>3. CASE launched[i] # None
  <2>1. key[i] # None
    BY <1>3 DEF PlaceInv, PositionInv
  <2>2. Runs(i) \/ Active(i)
    BY <1>1, <1>3, <2>1, PreparationStays, EndIsFinal DEF PlaceInv, Runs
  <2>3. pc[i] > 1 => Alone(i)
    BY <2>2, OneKeyIsAlone DEF Alone, Works
  <2>4. AccessOf(i)
    BY <1>3, <2>2 DEF AccessInv
  <2>5. QED
    BY <1>1, <1>3, <2>3, <2>4, AloneKeepsAccess
<1>4. QED
  BY <1>2, <1>3

\* With a single key what a process has granted is there.
LEMMA AccessInvHolds == OneKey => (PWSpec => []AccessInv)
<1> SUFFICES ASSUME OneKey PROVE PWSpec => []AccessInv
  OBVIOUS
<1>1. PWInit => AccessInv
  BY DEF PWInit, Init, AccessInv
<1>2. PlaceInv /\ OneKeyInv /\ AccessInv /\ [PWNext]_vars => AccessInv'
  BY NextKeepsAccessInv
<1>3. QED
  BY <1>1, <1>2, PlaceInvHolds, OneKeyInvHolds, PTL DEF PWSpec

\* A completed preparation that has clients has given its user access.
LEMMA AccessOfPrepared ==
  ASSUME PlaceInv, AccessInv, NEW i \in Ids, Active(i), isPrepared[i]
  PROVE  HasAccess(User(i), SessionOf[launched[i]], Lasting(i))
<1>1. pc[i] = 15 /\ launched[i] # None
  BY DEF PlaceInv, PositionInv, ProcTypeOK, Positions
<1>2. QED
  BY <1>1, AccessLasts DEF AccessInv

\* When all clients act for one user of one logon session, a client that was told
\* that its window station is prepared has access as long as it holds the
\* preparation, but for the desktop of a process terminated from outside.  (With
\* several users the run lost_update shows the opposite.)
THEOREM AccessKept == OneKey => (PWSpec => []AccessWhileActive)
<1> SUFFICES ASSUME OneKey PROVE PWSpec => []AccessWhileActive
  OBVIOUS
<1>1. PlaceInv /\ AccessInv => AccessWhileActive
  BY AccessOfPrepared DEF AccessWhileActive
<1>2. QED
  BY <1>1, PlaceInvHolds, AccessInvHolds, PTL

\* A client process runs under a completed preparation, and a preparation is
\* for the user of its clients.
StartedInv ==
  /\ \A e \in Execs : startedOn[e] # None => prepOf[e] # None /\ isPrepared[prepOf[e]]
  /\ \A e \in Execs : prepOf[e] # None => User(prepOf[e]) = SidOf[e]

\* A client keeps its preparation from the start of its process on.
LEMMA NextKeepsStartedInv ==
  ASSUME PlaceInv, StartedInv, [PWNext]_vars
  PROVE  StartedInv'
<1>1. TypeOK /\ ProcTypeOK /\ MapsMatchObjects
  BY DEF PlaceInv, IInv
<1>2. ASSUME NEW i \in Ids, MoveOf(i) PROVE StartedInv'
  <2>1. UNCHANGED <<prepOf, key, startedOn>>
    BY <1>1, <1>2, MoveIsLocal
  <2>2. isPrepared[i] => isPrepared'[i]
    BY <1>1, <1>2
       DEF MoveOf, ProcessStep, ProcessAttaches, Attach, AttachFails, GetData, OpenDesktop,
           ReportCompleted, PreparationCompleted, HasSidAce, ReadDacl, GrantAccess,
           RevokeAccess, WriteDacl, WaitWhileActive, Return, Rundown, CallFails, Die, Abort,
           CommDestroyed, OrphanStep, OrphanAborts, OrphanReturns, TypeOK, regVars, objects
  <2>3. \A j \in Ids : isPrepared[j] => isPrepared'[j]
    BY <1>1, <1>2, <2>2, MoveIsLocal
  <2>4. QED
    BY <1>1, <2>1, <2>3 DEF StartedInv, TypeOK, User
<1>3. ASSUME NEW e \in Execs, ClientStep(e) PROVE StartedInv'
  <2>1. isPrepared' = isPrepared
    BY <1>3, OutsideIsNoMove DEF Outside
  <2>2. CASE CreateExec(e) /\ UNCHANGED procVars
    BY <2>2 DEF CreateExec, procVars, StartedInv, User
  <2>3. CASE KillAndDestroyExec(e)
    BY <1>1, <2>1, <2>3
       DEF KillAndDestroyExec, DestroyExec, SetPreparation, StartedInv, TypeOK, ProcTypeOK, User
  <2>4. CASE StartProcess(e)
    BY <1>1, <2>1, <2>4
       DEF StartProcess, IsWindowStationPrepared, StartedInv, TypeOK, ProcTypeOK, regVars,
           objects, User
  <2>5. ASSUME NEW i \in Ids, startedOn[e] = None, prepOf' = [prepOf EXCEPT ![e] = i],
               UNCHANGED startedOn, User(i)' = SidOf[e],
               \A j \in Ids : key[j] # None => key'[j] = key[j]
        PROVE  StartedInv'
    <3>1. \A f \in Execs \ {e} : prepOf'[f] = prepOf[f]
      BY <1>1, <2>5 DEF TypeOK
    <3>2. prepOf'[e] = i
      BY <1>1, <2>5 DEF TypeOK
    <3>3. \A f \in Execs : prepOf[f] # None =>
            prepOf[f] \in Ids /\ key[prepOf[f]] # None
      BY <1>1 DEF TypeOK, MapsMatchObjects, Active
    <3>4. QED
      BY <2>1, <2>5, <3>1, <3>2, <3>3 DEF StartedInv, User
  <2>6. CASE startedOn[e] = None /\ ReusePreparation(e) /\ UNCHANGED procVars
    <3>1. ClientConsoleString(e, console) \in Keys
      BY <1>1, <2>6, PreparationAssumption
         DEF ReusePreparation, ConsoleFound, ClientConsoleString, Keys, TypeOK
    <3>2. PICK i \in Ids : /\ prepOf' = [prepOf EXCEPT ![e] = i] /\ UNCHANGED key
                          /\ key[i] = ClientConsoleString(e, console)
      <4> DEFINE k == ClientConsoleString(e, console)
      <4>1. Lock(k) # None /\ prepOf' = [prepOf EXCEPT ![e] = Lock(k)] /\ UNCHANGED key
        BY <2>6 DEF ReusePreparation, SetPreparation
      <4>2. Lock(k) \in Ids /\ key[Lock(k)] = k
        BY <1>1, <3>1, <4>1 DEF Lock, TypeOK, MapsMatchObjects
      <4>3. QED
        BY <4>1, <4>2
    <3>3. User(i)' = SidOf[e]
      BY <3>2 DEF User, ClientConsoleString
    <3>4. QED
      BY <2>5, <2>6, <3>2, <3>3 DEF procVars
  <2>7. ASSUME NEW i \in Ids, NEW c \in Consoles, startedOn[e] = None,
               CreatePreparation(e, i, c), UNCHANGED procVars
        PROVE  StartedInv'
    <3>1. /\ key[i] = None /\ prepOf' = [prepOf EXCEPT ![e] = i]
          /\ key' = [key EXCEPT ![i] = ClientConsoleString(e, console)]
      BY <2>7 DEF CreatePreparation, SetPreparation
    <3>2. User(i)' = SidOf[e]
      BY <1>1, <3>1 DEF User, ClientConsoleString, TypeOK
    <3>3. \A j \in Ids : key[j] # None => key'[j] = key[j]
      BY <1>1, <3>1 DEF TypeOK
    <3>4. QED
      BY <2>5, <2>7, <3>1, <3>2, <3>3 DEF procVars
  <2>8. QED
    BY <1>3, <2>2, <2>3, <2>4, <2>6, <2>7 DEF ClientStep, PrepareWindowStation
<1>4. ASSUME NEW c \in Consoles \cup {None}, SwitchConsole(c), UNCHANGED procVars
      PROVE  StartedInv'
  BY <1>4 DEF SwitchConsole, objects, procVars, StartedInv, User
<1>5. CASE UNCHANGED vars
  BY <1>5 DEF vars, regVars, objects, procVars, StartedInv, User
<1>6. QED
  BY <1>2, <1>3, <1>4, <1>5 DEF PWNext, MoveOf

\* When all clients act for one user of one logon session, a client process that
\* was started on the session of its preparation has access to it for as long as
\* it runs, on however many sessions the console was before and after.
THEOREM RunningKeepsAccess == OneKey => (PWSpec => []RunningHasAccess)
<1> SUFFICES ASSUME OneKey PROVE PWSpec => []RunningHasAccess
  OBVIOUS
<1>1. PWInit => StartedInv
  BY DEF PWInit, Init, StartedInv
<1>2. PlaceInv /\ StartedInv /\ [PWNext]_vars => StartedInv'
  BY NextKeepsStartedInv
<1>3. PlaceInv /\ AccessInv /\ StartedInv => RunningHasAccess
  <2> SUFFICES ASSUME PlaceInv, AccessInv, StartedInv, NEW e \in Execs, startedOn[e] # None
               PROVE  /\ prepOf[e] # None
                      /\ startedOn[e] = SessionOf[launched[prepOf[e]]] =>
                           HasAccess(SidOf[e], startedOn[e], Lasting(prepOf[e]))
    BY DEF RunningHasAccess
  <2>1. prepOf[e] \in Ids /\ Active(prepOf[e]) /\ isPrepared[prepOf[e]]
    BY DEF StartedInv, Active, PlaceInv, IInv, TypeOK
  <2>2. User(prepOf[e]) = SidOf[e]
    BY <2>1, PreparationAssumption DEF StartedInv
  <2>3. HasAccess(User(prepOf[e]), SessionOf[launched[prepOf[e]]], Lasting(prepOf[e]))
    BY <2>1, AccessOfPrepared
  <2>4. QED
    BY <2>1, <2>2, <2>3, PreparationAssumption
<1>4. QED
  BY <1>1, <1>2, <1>3, PlaceInvHolds, AccessInvHolds, PTL DEF PWSpec

-----------------------------------------------------------------------------
(* Everything is taken back, and nothing more.                             *)

\* Positions at which the user has an entry on a shared object that he may not
\* have had before.
Between == [t \in Shared |-> IF t = "winsta" THEN 6..21 ELSE 14..17]

\* A list of the session of i is the original one but for the entry granted; the
\* copy about to be written back is up to date; the had-flag is exact.
Borrows(i, t) ==
  LET o == ObjectOf(i, t)
  IN  /\ acl[o] = IF pc[i] \in Between[t] THEN original[o] \cup {User(i)} ELSE original[o]
      /\ pc[i] \in {5, 7, 13, 17, 21} /\ Kind(i) = t => dacl[i] = acl[o]
      /\ t \in had[i] <=> pc[i] > HadAt[t] /\ User(i) \in original[o]

\* The shared objects of a session on which no process works are as they were.
Free(s) == \A i \in Ids : Works(i) => SessionOf[launched[i]] # s
Restored(s) == \A t \in Shared : acl[<<s, t, None>>] = original[<<s, t, None>>]

NoneFailed == \A i \in Ids : end[i] \in {"running", "returned"}

RestoredInv ==
  /\ \A i \in Ids : pc[i] = 1 => had[i] = {}
  /\ NoneFailed => /\ \A i \in Ids : Works(i) => \A t \in Shared : Borrows(i, t)
                   /\ \A s \in Sessions : Free(s) => Restored(s)

\* A process whose copies are up to date goes on borrowing.
LEMMA MoveKeepsBorrowing ==
  ASSUME PlaceInv, OriginalInv, NEW i \in Ids, MoveOf(i), Works(i), NEW t \in Shared,
         Borrows(i, t)
  PROVE  Borrows(i, t)'
<1> DEFINE o == ObjectOf(i, t)
<1>1. TypeOK /\ ProcTypeOK
  BY DEF PlaceInv, IInv
<1>2. UNCHANGED <<key, launched, original>>
  BY <1>1, MoveIsLocal
<1>3. o' = o /\ User(i)' = User(i)
  BY <1>2 DEF ObjectOf, Object, User
<1>4. launched[i] # None /\ key[i] # None /\ KeepsOriginal(i)
  BY DEF Works, Runs, PlaceInv, PositionInv, OriginalInv
<1>5. o \in Objects /\ \A u \in Kinds : ObjectOf(i, u) \in Objects
  BY <1>1, <1>4, WorksOnObjects DEF Shared, Kinds
<1>6. \A u \in Kinds : ObjectOf(i, u) = o <=> u = t
  BY DEF ObjectOf, Object
<1>7. /\ acl[o] = IF pc[i] \in Between[t] THEN original[o] \cup {User(i)} ELSE original[o]
      /\ pc[i] \in {5, 7, 13, 17, 21} /\ Kind(i) = t => dacl[i] = acl[o]
      /\ t \in had[i] <=> pc[i] > HadAt[t] /\ User(i) \in original[o]
  BY DEF Borrows
<1> SUFFICES
      /\ acl'[o] = IF pc'[i] \in Between[t] THEN original[o] \cup {User(i)} ELSE original[o]
      /\ pc'[i] \in {5, 7, 13, 17, 21} /\ Kind(i)' = t => dacl'[i] = acl'[o]
      /\ t \in had'[i] <=> pc'[i] > HadAt[t] /\ User(i) \in original[o]
  BY <1>2, <1>3 DEF Borrows
<1>8. CASE Quiet(i)
  <2>0. acl'[o] = acl[o]
    BY <1>1, <1>5, <1>8, ClosingKeepsLists DEF ObjectOf, Object, Shared
  <2>1. CASE pc'[i] = pc[i]
    BY <1>7, <1>8, <2>0, <2>1 DEF Quiet, Kind
  <2>2. CASE pc'[i] = pc[i] + 1 /\ pc[i] \in {1, 2, 8, 14, 15}
    BY <1>7, <1>8, <2>0, <2>2 DEF Quiet, Between, HadAt, Shared
  <2>3. QED
    BY <1>8, <2>1, <2>2 DEF Quiet
<1>9. CASE HasSidAce(i)
  <2>1. pc[i] \in {3, 11} /\ pc'[i] = pc[i] + 1 /\ acl' = acl /\ Kind(i) \in Shared
    BY <1>1, <1>9, AtPosition DEF HasSidAce, At, Advance, ProcTypeOK, Shared
  <2>2. had'[i] = IF User(i) \in acl[ObjectOf(i, Kind(i))] THEN had[i] \cup {Kind(i)} ELSE had[i]
    BY <1>1, <1>9 DEF HasSidAce, ProcTypeOK
  <2>3. CASE t = Kind(i)
    <3>1. pc[i] \notin Between[t] /\ pc[i] = HadAt[t]
      BY <1>1, <2>1, <2>3, AtPosition DEF Between, HadAt, Shared
    <3>2. pc'[i] \notin Between[t] /\ pc'[i] > HadAt[t]
      BY <2>1, <3>1 DEF Between, HadAt, Shared
    <3>3. t \in had'[i] <=> User(i) \in original[o]
      BY <1>7, <2>2, <2>3, <3>1
    <3>4. pc'[i] \notin {5, 7, 13, 17, 21}
      BY <2>1
    <3>5. QED
      BY <1>7, <2>1, <3>1, <3>2, <3>3, <3>4
  <2>4. CASE t # Kind(i)
    <3>1. /\ pc[i] \in Between[t] <=> pc'[i] \in Between[t]
          /\ pc[i] > HadAt[t] <=> pc'[i] > HadAt[t]
      BY <1>1, <2>1, <2>4, AtPosition DEF Between, HadAt, Shared
    <3>2. t \in had'[i] <=> t \in had[i]
      BY <2>2, <2>4
    <3>3. pc'[i] \notin {5, 7, 13, 17, 21}
      BY <2>1
    <3>4. QED
      BY <1>7, <2>1, <3>1, <3>2, <3>3
  <2>5. QED
    BY <2>3, <2>4
<1>10. CASE ReadDacl(i)
  <2>1. acl' = acl /\ had' = had
    BY <1>10 DEF ReadDacl
  <2>2. CASE At(i, "ReadToRevoke") /\ Kind(i) \in had[i] /\ Skip(i) /\ UNCHANGED dacl
    <3>1. pc[i] \in {16, 20} /\ pc'[i] = pc[i] + 2
      BY <1>1, <2>2, AtPosition DEF At, Skip, ProcTypeOK, Shared
    <3>2. CASE t = Kind(i)
      <4>1. User(i) \in original[o] /\ acl[o] = original[o]
        BY <1>7, <2>2, <3>2
      <4>2. QED
        BY <1>7, <2>1, <3>1, <4>1 DEF HadAt, Shared
    <3>3. CASE t # Kind(i)
      BY <1>1, <1>7, <2>1, <3>1, <3>3, AtPosition DEF Between, HadAt, Shared
    <3>4. QED
      BY <3>2, <3>3
  <2>3. CASE /\ At(i, "ReadToGrant") \/ At(i, "ReadToRevoke")
             /\ dacl' = [dacl EXCEPT ![i] = acl[ObjectOf(i, Kind(i))]]
             /\ Advance(i)
    <3>1. pc[i] \in {4, 6, 9, 12, 16, 18, 20} /\ pc'[i] = pc[i] + 1
      BY <1>1, <2>3, AtPosition DEF At, Advance, ProcTypeOK
    <3>2. Kind(i)' = Kind(i)
      BY <1>1, <3>1, ProgramPositions DEF Kind, ProcTypeOK
    <3>3. Kind(i) = t => dacl'[i] = acl[o]
      BY <1>1, <2>3 DEF ProcTypeOK
    <3>4. /\ pc[i] \in Between[t] <=> pc'[i] \in Between[t]
          /\ pc[i] > HadAt[t] <=> pc'[i] > HadAt[t]
      BY <3>1 DEF Between, HadAt, Shared
    <3>5. QED
      BY <1>7, <2>1, <3>2, <3>3, <3>4
  <2>4. QED
    BY <1>10, <2>2, <2>3 DEF ReadDacl
<1>11. ASSUME GrantAccess(i) \/ RevokeAccess(i)
       PROVE  /\ acl'[o] = IF pc'[i] \in Between[t] THEN original[o] \cup {User(i)}
                                                     ELSE original[o]
              /\ pc'[i] \in {5, 7, 13, 17, 21} /\ Kind(i)' = t => dacl'[i] = acl'[o]
              /\ t \in had'[i] <=> pc'[i] > HadAt[t] /\ User(i) \in original[o]
  <2>1. /\ pc[i] \in {5, 7, 10, 13, 17, 19, 21} /\ pc'[i] = pc[i] + 1
        /\ Kind(i) \in Kinds /\ had' = had
    BY <1>1, <1>11, AtPosition
       DEF GrantAccess, RevokeAccess, WriteDacl, Advance, At, ProcTypeOK, Kinds
  <2>2. pc[i] > HadAt[t] <=> pc'[i] > HadAt[t]
    BY <2>1 DEF HadAt, Shared
  <2>3. CASE t = Kind(i)
    <3>1. dacl[i] = acl[o]
      BY <1>1, <1>7, <2>1, <2>3, AtPosition DEF Shared
    <3>2. CASE GrantAccess(i)
      <4>1. acl'[o] = dacl[i] \cup {User(i)}
        BY <1>1, <1>5, <2>3, <3>2 DEF GrantAccess, WriteDacl, ProcTypeOK
      <4>2. pc'[i] \in Between[t] \/ pc[i] = 10
        BY <1>1, <2>1, <2>3, <3>2, AtPosition DEF GrantAccess, At, Between, Shared
      <4>3. pc[i] # 10
        BY <1>1, <2>3, AtPosition DEF Shared
      <4>4. QED
        BY <1>7, <2>1, <2>2, <3>1, <4>1, <4>2, <4>3
    <3>3. CASE RevokeAccess(i)
      <4>1. acl'[o] = dacl[i] \ {User(i)}
        BY <1>1, <1>5, <2>3, <3>3 DEF RevokeAccess, WriteDacl, ProcTypeOK
      <4>2. pc[i] \in {17, 21} /\ pc[i] \in Between[t] /\ pc'[i] \notin Between[t]
        BY <1>1, <2>1, <2>3, <3>3, AtPosition DEF RevokeAccess, At, Between, Shared
      <4>3. User(i) \notin original[o]
        BY <1>4, <2>3, <4>2 DEF KeepsOriginal
      <4>4. acl'[o] = original[o]
        BY <1>7, <3>1, <4>1, <4>2, <4>3
      <4>5. QED
        BY <1>7, <2>1, <2>2, <4>2, <4>4
    <3>4. QED
      BY <1>11, <3>2, <3>3
  <2>4. CASE t # Kind(i)
    <3>1. acl'[o] = acl[o]
      BY <1>1, <1>5, <1>6, <1>11, <2>1, <2>4
         DEF GrantAccess, RevokeAccess, WriteDacl, ProcTypeOK
    <3>2. pc[i] \in Between[t] <=> pc'[i] \in Between[t]
      BY <1>1, <2>1, <2>4, AtPosition DEF Between, Shared
    <3>3. pc'[i] \notin {5, 7, 13, 17, 21}
      BY <2>1
    <3>4. QED
      BY <1>7, <2>1, <2>2, <3>1, <3>2, <3>3
  <2>5. QED
    BY <2>3, <2>4
<1>12. QED
  BY <1>8, <1>9, <1>10, <1>11, QuietMoves

\* One process works at a time, so a move of i changes the lists of its session
\* only, and leaves every other session as free as it was.
LEMMA NextKeepsRestoredInv ==
  ASSUME OneKey, PlaceInv, OneKeyInv, OriginalInv, RestoredInv, [PWNext]_vars
  PROVE  RestoredInv'
<1>1. TypeOK /\ ProcTypeOK /\ Step
  BY StepOfPW DEF PlaceInv, IInv
<1>2. NoneFailed' => NoneFailed
  BY <1>1, EndIsFinal DEF NoneFailed
<1>3. CASE UNCHANGED <<pc, end, acl, original, dacl, had>>
  <2>1. \A i \in Ids : launched[i] # None => launched'[i] = launched[i] /\ User(i)' = User(i)
                         /\ \A t \in Kinds : ObjectOf(i, t)' = ObjectOf(i, t)
    BY <1>1, SameObjects
  <2>2. \A i \in Ids : pc[i] > 1 => launched[i] # None
    BY DEF PlaceInv, PositionInv
  <2>3. \A i \in Ids : Works(i)' <=> Works(i)
    BY <1>1, <1>3, <2>1, <2>2 DEF Works, Runs, ProcTypeOK
  <2>4. \A i \in Ids : Kind(i)' = Kind(i)
    BY <1>3 DEF Kind
  <2>5. \A i \in Ids, t \in Shared : Works(i) /\ Borrows(i, t) => Borrows(i, t)'
    BY <1>3, <2>1, <2>4 DEF Works, Runs, Borrows, Shared, Kinds
  <2>6. \A s \in Sessions : Free(s)' => Free(s)
    BY <2>1, <2>3 DEF Free, Works, Runs
  <2>7. QED
    BY <1>2, <1>3, <2>3, <2>5, <2>6 DEF RestoredInv, Restored
<1>4. ASSUME NEW i \in Ids, MoveOf(i) PROVE RestoredInv'
  <2>1. UNCHANGED <<key, launched, original>> /\
        \A j \in Ids \ {i} : pc'[j] = pc[j] /\ end'[j] = end[j] /\ had'[j] = had[j]
    BY <1>1, <1>4, MoveIsLocal
  <2>2. pc'[i] = 1 => pc[i] = 1 /\ had'[i] = had[i]
    BY <1>1, <1>4, QuietMoves, AtPosition
       DEF Quiet, HasSidAce, ReadDacl, GrantAccess, RevokeAccess, WriteDacl, At, Advance, Skip,
           ProcTypeOK
  <2>3. \A j \in Ids : pc'[j] = 1 => had'[j] = {}
    BY <2>1, <2>2 DEF RestoredInv
  <2>4. SUFFICES ASSUME NoneFailed'
                 PROVE  /\ \A j \in Ids : Works(j)' => \A t \in Shared : Borrows(j, t)'
                        /\ \A s \in Sessions : Free(s)' => Restored(s)'
    BY <2>3 DEF RestoredInv
  <2>5. /\ \A j \in Ids : Works(j) => \A t \in Shared : Borrows(j, t)
        /\ \A s \in Sessions : Free(s) => Restored(s)
    BY <1>2, <2>4 DEF RestoredInv
  <2>6. \A j \in Ids \ {i} : Works(j)' <=> Works(j)
    BY <2>1 DEF Works, Runs
  <2>7. CASE Works(i)
    <3>1. \A j \in Ids \ {i} : ~Works(j)
      BY <2>7, OneKeyIsAlone
    <3>2. \A t \in Shared : Borrows(i, t)'
      BY <1>4, <2>5, <2>7, MoveKeepsBorrowing
    <3>3. ASSUME NEW s \in Sessions, Free(s)' PROVE Restored(s)'
      <4>1. CASE s = SessionOf[launched[i]]
        <5>1. ~Works(i)'
          BY <2>1, <3>3, <4>1 DEF Free
        <5>2. end'[i] = "returned" /\ pc'[i] = 22
          <6>1. pc[i] > 1 /\ launched[i] # None
            BY <2>7 DEF Works, Runs
          <6>2. pc'[i] > 1
            BY <1>1, <1>4, <6>1, QuietMoves, AtPosition
               DEF Quiet, HasSidAce, ReadDacl, GrantAccess, RevokeAccess, WriteDacl, At,
                   Advance, Skip, ProcTypeOK
          <6>3. end'[i] = "returned"
            BY <2>1, <2>4, <5>1, <6>1, <6>2 DEF Works, Runs, NoneFailed
          <6>4. QED
            BY <1>1, <6>3, StepKeepsPlaceInv DEF PlaceInv, PositionInv
        <5>3. \A t \in Shared : acl'[ObjectOf(i, t)'] = original'[ObjectOf(i, t)']
          BY <3>2, <5>2 DEF Borrows, Between, Shared
        <5>4. \A t \in Shared : ObjectOf(i, t)' = <<s, t, None>>
          BY <2>1, <4>1 DEF ObjectOf, Object, Shared
        <5>5. QED
          BY <5>3, <5>4 DEF Restored
      <4>2. CASE s # SessionOf[launched[i]]
        <5>1. Free(s)
          BY <3>1, <4>2 DEF Free
        <5>2. ASSUME NEW t \in Shared PROVE acl'[<<s, t, None>>] = acl[<<s, t, None>>]
          <6>1. <<s, t, None>> # ObjectOf(i, Kind(i)) /\ <<s, t, None>> \in Objects
            BY <4>2 DEF ObjectOf, Object, Objects
          <6>2. \/ acl' = acl
                \/ Quiet(i)
                \/ \E users : acl' = [acl EXCEPT ![ObjectOf(i, Kind(i))] = users]
            BY <1>4, QuietMoves
               DEF HasSidAce, ReadDacl, GrantAccess, RevokeAccess, WriteDacl
          <6>3. Quiet(i) => acl'[<<s, t, None>>] = acl[<<s, t, None>>]
            BY <1>1, <6>1, ClosingKeepsLists DEF Shared
          <6>4. QED
            BY <1>1, <6>1, <6>2, <6>3 DEF ProcTypeOK
        <5>3. QED
          BY <2>1, <2>5, <5>1, <5>2 DEF Restored
      <4>3. QED
        BY <4>1, <4>2
    <3>4. QED
      BY <2>6, <3>1, <3>2, <3>3
  <2>8. CASE ~Works(i)
    <3>1. ProcessAttaches(i) /\ Attach(i) /\ pc[i] = 1 /\ pc'[i] = 2
      <4>1. end[i] = "running" /\ launched[i] # None => pc[i] = 1
        BY <1>1, <2>8, AtPosition DEF Works, Runs
      <4>2. end[i] # "died"
        BY <1>2, <2>4 DEF NoneFailed
      <4>3. ProcessAttaches(i) \/ CallFails(i) \/ Die(i) \/ OrphanStep(i)
        BY <1>1, <1>4, <4>1, <4>2, AtPosition
           DEF MoveOf, ProcessStep, GetData, OpenDesktop, ReportCompleted, HasSidAce, ReadDacl,
               GrantAccess,
               RevokeAccess, WaitWhileActive, Return, Rundown, At
      <4>4. end'[i] \in {"running", "returned"}
        BY <2>4 DEF NoneFailed
      <4>5. ~CallFails(i) /\ ~Die(i)
        BY <1>1, <4>4 DEF CallFails, Die, Abort, Exit, ProcTypeOK
      <4>6. ~OrphanStep(i)
        BY <1>1, <4>1, <4>4, AtPosition
           DEF OrphanStep, OrphanAborts, OrphanReturns, Exit, At, Runs, ProcTypeOK
      <4>7. ProcessAttaches(i)
        BY <4>3, <4>5, <4>6
      <4>8. QED
        BY <1>1, <4>1, <4>4, <4>7 DEF ProcessAttaches, At, Advance, Exit, ProcTypeOK
    <3>2. Active(i) /\ UNCHANGED <<acl, dacl, had, end>>
      BY <1>1, <3>1 DEF ProcessAttaches, Attach, Findable, At, Exit, ProcTypeOK
    <3>3. \A j \in Ids : ~Works(j)
      BY <2>8, <3>2, OneKeyIsAlone
    <3>4. \A s \in Sessions : Restored(s)
      BY <2>5, <3>3 DEF Free
    <3>5. \A s \in Sessions : Restored(s)'
      BY <2>1, <3>2, <3>4 DEF Restored
    <3>6. launched[i] # None
      BY <3>1 DEF Attach
    <3>7. \A t \in Shared : Borrows(i, t)'
      <4>1. had'[i] = {}
        BY <3>1, <3>2 DEF RestoredInv
      <4>2. SessionOf[launched[i]] \in Sessions
        BY <1>1, <3>6, WorksOnObjects DEF PlaceInv, PositionInv
      <4>3. \A t \in Shared : acl'[ObjectOf(i, t)'] = original'[ObjectOf(i, t)']
        BY <2>1, <3>5, <4>2 DEF Restored, ObjectOf, Object, Shared
      <4>4. QED
        BY <3>1, <4>1, <4>3 DEF Borrows, Between, HadAt, Shared
    <3>8. QED
      BY <2>6, <3>3, <3>5, <3>7
  <2>9. QED
    BY <2>7, <2>8
<1>5. QED
  BY <1>1, <1>3, <1>4, OutsideIsNoMove DEF Step

\* When all clients act for one user of one logon session and every process has
\* returned by itself, the lists of the shared objects are the original ones:
\* what was granted is taken back, and what the user had before is left to him.
THEOREM RestoredCorrect == OneKey => (PWSpec => []RestoredAfterReturn)
<1> SUFFICES ASSUME OneKey PROVE PWSpec => []RestoredAfterReturn
  OBVIOUS
<1>1. PWInit => RestoredInv
  BY DEF PWInit, Init, RestoredInv, Works, Runs, Restored
<1>2. PlaceInv /\ OneKeyInv /\ OriginalInv /\ RestoredInv /\ [PWNext]_vars => RestoredInv'
  BY NextKeepsRestoredInv
<1>3. PlaceInv /\ RestoredInv => RestoredAfterReturn
  <2> SUFFICES ASSUME PlaceInv, RestoredInv, AllReturned, NEW s \in Sessions, NEW t \in Shared
               PROVE  acl[<<s, t, None>>] = original[<<s, t, None>>]
    BY DEF RestoredAfterReturn
  <2>1. NoneFailed
    BY DEF NoneFailed, AllReturned, PlaceInv, PositionInv
  <2>2. Free(s)
    BY DEF Free, Works, Runs, AllReturned
  <2>3. QED
    BY <2>1, <2>2 DEF RestoredInv, Restored
<1>4. QED
  BY <1>1, <1>2, <1>3, PlaceInvHolds, OneKeyInvHolds, OriginalInvHolds, PTL DEF PWSpec
=============================================================================
