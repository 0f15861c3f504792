-------------------------- MODULE KillSwitchProofs --------------------------
(***************************************************************************)
(* Proofs about the kill switch, for any number of concurrent calls.       *)
(***************************************************************************)
EXTENDS KillSwitch, TLAPS

LEMMA TypeInit == Init => TypeOK
BY DEF Init, TypeOK, Places

LEMMA TypeStep == TypeOK /\ [Next]_vars => TypeOK'
<1> SUFFICES ASSUME TypeOK, [Next]_vars PROVE TypeOK'
  OBVIOUS
<1> USE DEF TypeOK, Places, Arming, Goto
<1>1. ASSUME NEW p \in Actors, ArmDatabase(p) PROVE TypeOK'
  BY <1>1 DEF ArmDatabase
<1>2. ASSUME NEW p \in Actors, ArmWriteTmp(p) PROVE TypeOK'
  BY <1>2 DEF ArmWriteTmp
<1>3. ASSUME NEW p \in Actors, ArmRename(p) PROVE TypeOK'
  BY <1>3 DEF ArmRename
<1>4. ASSUME NEW p \in Actors, ArmNotify(p) PROVE TypeOK'
  BY <1>4 DEF ArmNotify
<1>5. ASSUME NEW p \in Actors, ClearDatabase(p) PROVE TypeOK'
  BY <1>5 DEF ClearDatabase
<1>6. ASSUME NEW p \in Actors, ClearUnlink(p) PROVE TypeOK'
  BY <1>6 DEF ClearUnlink
<1>7. ASSUME NEW p \in Actors, CheckDatabase(p) PROVE TypeOK'
  BY <1>7 DEF CheckDatabase, Armed
<1>8. ASSUME NEW p \in Actors, CheckFile(p) PROVE TypeOK'
  BY <1>8 DEF CheckFile
<1>9. ASSUME NEW p \in Actors, CheckReturn(p) PROVE TypeOK'
  BY <1>9 DEF CheckReturn
<1>10. ASSUME NEW p \in Actors, Crash(p) PROVE TypeOK'
  BY <1>10 DEF Crash
<1>11. CASE Touch
  BY <1>11 DEF Touch
<1>12. CASE UNCHANGED vars
  BY <1>12 DEF vars
<1>13. QED
  BY <1>1, <1>2, <1>3, <1>4, <1>5, <1>6, <1>7, <1>8, <1>9, <1>10, <1>11, <1>12
  DEF Next

\* Type correctness of the switch and of the calls on it (safety.ts 26-78).
THEOREM TypeCorrect == Spec => []TypeOK
BY TypeInit, TypeStep, PTL DEF Spec

-----------------------------------------------------------------------------
\* An arm has set the row from its first step on, until a clear begins.
RowSet(p) ==
    pc[p] \in Arming /\ (~disturbed[p] \/ ~overruled[p]) => dbArmed

\* Before its rename, an undisturbed arm finds its temporary file, or a sentinel
\* into which another arm has renamed it.
FileSet(p) ==
    /\ pc[p] = "armRename" /\ ~disturbed[p] => tmpFile \/ sentinel
    /\ pc[p] = "armNotify" /\ ~disturbed[p] => sentinel

\* Between the two reads of a check the sentinel it began with stays in place.
CheckHolds(p) ==
    /\ pc[p] = "checkFile" /\ ~disturbed[p] /\ wasArmed[p] => sentinel
    /\ pc[p] = "pass" /\ ~disturbed[p] => ~wasArmed[p]

IInv == \A p \in Actors : RowSet(p) /\ FileSet(p) /\ CheckHolds(p)

LEMMA IInvStep == TypeOK /\ IInv /\ [Next]_vars => IInv'
<1> SUFFICES ASSUME TypeOK, IInv, [Next]_vars, NEW q \in Actors
             PROVE  (RowSet(q) /\ FileSet(q) /\ CheckHolds(q))'
  BY DEF IInv
<1>0. RowSet(q) /\ FileSet(q) /\ CheckHolds(q)
  BY DEF IInv
<1> USE DEF TypeOK, Arming, Goto, RowSet, FileSet, CheckHolds
<1>1. ASSUME NEW p \in Actors, ArmDatabase(p)
      PROVE  (RowSet(q) /\ FileSet(q) /\ CheckHolds(q))'
  BY <1>0, <1>1 DEF ArmDatabase
<1>2. ASSUME NEW p \in Actors, ArmWriteTmp(p)
      PROVE  (RowSet(q) /\ FileSet(q) /\ CheckHolds(q))'
  BY <1>0, <1>2 DEF ArmWriteTmp
<1>3. ASSUME NEW p \in Actors, ArmRename(p)
      PROVE  (RowSet(q) /\ FileSet(q) /\ CheckHolds(q))'
  BY <1>0, <1>3 DEF ArmRename
<1>4. ASSUME NEW p \in Actors, ArmNotify(p)
      PROVE  (RowSet(q) /\ FileSet(q) /\ CheckHolds(q))'
  BY <1>0, <1>4 DEF ArmNotify
<1>5. ASSUME NEW p \in Actors, ClearDatabase(p)
      PROVE  (RowSet(q) /\ FileSet(q) /\ CheckHolds(q))'
  BY <1>0, <1>5 DEF ClearDatabase
<1>6. ASSUME NEW p \in Actors, ClearUnlink(p)
      PROVE  (RowSet(q) /\ FileSet(q) /\ CheckHolds(q))'
  BY <1>0, <1>6 DEF ClearUnlink
<1>7. ASSUME NEW p \in Actors, CheckDatabase(p)
      PROVE  (RowSet(q) /\ FileSet(q) /\ CheckHolds(q))'
  BY <1>0, <1>7 DEF CheckDatabase, Armed
<1>8. ASSUME NEW p \in Actors, CheckFile(p)
      PROVE  (RowSet(q) /\ FileSet(q) /\ CheckHolds(q))'
  BY <1>0, <1>8 DEF CheckFile
<1>9. ASSUME NEW p \in Actors, CheckReturn(p)
      PROVE  (RowSet(q) /\ FileSet(q) /\ CheckHolds(q))'
  BY <1>0, <1>9 DEF CheckReturn
<1>10. ASSUME NEW p \in Actors, Crash(p)
      PROVE  (RowSet(q) /\ FileSet(q) /\ CheckHolds(q))'
  BY <1>0, <1>10 DEF Crash
<1>11. CASE Touch
  BY <1>0, <1>11 DEF Touch
<1>12. CASE UNCHANGED vars
  BY <1>0, <1>12 DEF vars
<1>13. QED
  BY <1>1, <1>2, <1>3, <1>4, <1>5, <1>6, <1>7, <1>8, <1>9, <1>10, <1>11, <1>12
  DEF Next

LEMMA Inductive == Spec => []IInv
<1>1. Init => IInv
  BY DEF Init, IInv, RowSet, FileSet, CheckHolds, Arming
<1>2. QED BY <1>1, IInvStep, TypeCorrect, PTL DEF Spec

\* An armed switch is never missed by a check that no clear or file failure
\* overlaps (safety.ts 26-34), for any number of arms in progress.
THEOREM ChecksAreSound == Spec => []CheckSound
<1>1. IInv => CheckSound
  BY DEF IInv, CheckHolds, CheckSound
<1>2. QED BY <1>1, Inductive, PTL

\* The shared temporary file never costs an arm its sentinel (safety.ts 36-49).
THEOREM ArmsReachBoth == Spec => []ArmReachesBoth
<1>1. IInv => ArmReachesBoth
  BY DEF IInv, RowSet, FileSet, ArmReachesBoth, Arming
<1>2. QED BY <1>1, Inductive, PTL

\* A clear never undoes an arm that began after it (safety.ts 65-78).
THEOREM ArmsOutliveEarlierClears == Spec => []ArmOutlivesEarlierClear
<1>1. IInv => ArmOutlivesEarlierClear
  BY DEF IInv, RowSet, ArmOutlivesEarlierClear, Arming, Armed
<1>2. QED BY <1>1, Inductive, PTL
=============================================================================
