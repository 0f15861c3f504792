----------------------------- MODULE KillSwitch -----------------------------
(***************************************************************************)
(* services/safety.ts: the persistent kill switch, kept twice, as a row of *)
(* SQLite and as a sentinel file.  The follower (several promises of it)   *)
(* and the operator's kill-switch.ts are actors that arm, clear and check  *)
(* it; every await is a point where the others run.  Nothing locks the two *)
(* sources together, and all arms share one temporary file.                *)
(***************************************************************************)
CONSTANTS
    Actors,     \* concurrent calls of the controller, in any process
    FsMayFail   \* TRUE: a file operation may fail

ASSUME KillSwitchAssumption == FsMayFail \in BOOLEAN

VARIABLES
    dbArmed,    \* safety_state: value = 'armed'
    sentinel,   \* the sentinel file exists
    tmpFile,    \* the sentinel's .tmp file exists
    pc,         \* where each actor is
    wasArmed,   \* history: either source was set when the actor's check began
    disturbed,  \* history: a clear or a file failure since its call began
    overruled   \* history: a clear began since its arm began

vars == <<dbArmed, sentinel, tmpFile, pc, wasArmed, disturbed, overruled>>

Arming == {"armWrite", "armRename", "armNotify"}
Places == Arming \cup {"idle", "clearUnlink", "checkFile", "pass", "blocked"}

Armed == dbArmed \/ sentinel

TypeOK ==
    /\ dbArmed \in BOOLEAN /\ sentinel \in BOOLEAN /\ tmpFile \in BOOLEAN
    /\ pc \in [Actors -> Places]
    /\ wasArmed \in [Actors -> BOOLEAN]
    /\ disturbed \in [Actors -> BOOLEAN]
    /\ overruled \in [Actors -> BOOLEAN]

Init ==
    /\ dbArmed \in BOOLEAN /\ sentinel \in BOOLEAN /\ tmpFile = FALSE
    /\ pc = [p \in Actors |-> "idle"]
    /\ wasArmed  = [p \in Actors |-> FALSE]
    /\ disturbed = [p \in Actors |-> FALSE]
    /\ overruled = [p \in Actors |-> FALSE]

-----------------------------------------------------------------------------
Goto(p, place) == pc' = [pc EXCEPT ![p] = place]

\* arm: armKillSwitch runs before the first await.
ArmDatabase(p) ==
    /\ pc[p] = "idle"
    /\ dbArmed' = TRUE
    /\ Goto(p, "armWrite")
    /\ disturbed' = [disturbed EXCEPT ![p] = FALSE]
    /\ overruled' = [overruled EXCEPT ![p] = FALSE]
    /\ UNCHANGED <<sentinel, tmpFile, wasArmed>>

\* arm: writeFile of the temporary file; a failure is logged and skips the rename.
ArmWriteTmp(p) ==
    /\ pc[p] = "armWrite"
    /\ \/ /\ tmpFile' = TRUE
          /\ Goto(p, "armRename")
          /\ UNCHANGED disturbed
       \/ /\ FsMayFail
          /\ Goto(p, "armNotify")
          /\ disturbed' = [disturbed EXCEPT ![p] = TRUE]
          /\ UNCHANGED tmpFile
    /\ UNCHANGED <<dbArmed, sentinel, wasArmed, overruled>>

\* Mutant: the temporary file is copied over a sentinel that is removed first,
\* and another arm may have taken it.
ArmRemoveThenRename(p) ==
    /\ pc[p] = "armRename"
    /\ sentinel' = tmpFile
    /\ tmpFile' = FALSE
    /\ Goto(p, "armNotify")
    /\ UNCHANGED <<dbArmed, wasArmed, disturbed, overruled>>

\* arm: rename; it fails when another arm has renamed the shared file already.
ArmRename(p) ==
    /\ pc[p] = "armRename"
    /\ \/ /\ tmpFile
          /\ sentinel' = TRUE
          /\ tmpFile' = FALSE
          /\ UNCHANGED disturbed
       \/ /\ ~tmpFile
          /\ UNCHANGED <<sentinel, tmpFile, disturbed>>
       \/ /\ FsMayFail
          /\ disturbed' = [disturbed EXCEPT ![p] = TRUE]
          /\ UNCHANGED <<sentinel, tmpFile>>
    /\ Goto(p, "armNotify")
    /\ UNCHANGED <<dbArmed, wasArmed, overruled>>

\* arm: the priority-2 alert, whose failure is caught; then the call returns.
ArmNotify(p) ==
    /\ pc[p] = "armNotify"
    /\ Goto(p, "idle")
    /\ UNCHANGED <<dbArmed, sentinel, tmpFile, wasArmed, disturbed, overruled>>

\* clear, after CONFIRM: clearKillSwitch runs before the unlink.
ClearDatabase(p) ==
    /\ pc[p] = "idle"
    /\ dbArmed' = FALSE
    /\ Goto(p, "clearUnlink")
    /\ disturbed' = [q \in Actors |-> TRUE]
    /\ overruled' = [q \in Actors |-> TRUE]
    /\ UNCHANGED <<sentinel, tmpFile, wasArmed>>

\* Mutant: the row is cleared with the file, after whatever armed it meanwhile.
ClearBothAtLast(p) ==
    /\ pc[p] = "clearUnlink"
    /\ sentinel' = FALSE
    /\ dbArmed' = FALSE
    /\ Goto(p, "idle")
    /\ disturbed' = [q \in Actors |-> TRUE]
    /\ UNCHANGED <<tmpFile, wasArmed, overruled>>

\* clear: unlink; a missing file is accepted, any other error is thrown.
ClearUnlink(p) ==
    /\ pc[p] = "clearUnlink"
    /\ \/ sentinel' = FALSE
       \/ FsMayFail /\ UNCHANGED sentinel
    /\ Goto(p, "idle")
    /\ disturbed' = [q \in Actors |-> TRUE]
    /\ UNCHANGED <<dbArmed, tmpFile, wasArmed, overruled>>

\* isArmed: the row is read at once, and the file only if the row is clear.
CheckDatabase(p) ==
    /\ pc[p] = "idle"
    /\ Goto(p, IF dbArmed THEN "blocked" ELSE "checkFile")
    /\ wasArmed'  = [wasArmed EXCEPT ![p] = Armed]
    /\ disturbed' = [disturbed EXCEPT ![p] = FALSE]
    /\ UNCHANGED <<dbArmed, sentinel, tmpFile, overruled>>

\* Mutant: the row alone decides.
CheckRowOnly(p) ==
    /\ pc[p] = "checkFile"
    /\ Goto(p, "pass")
    /\ UNCHANGED <<dbArmed, sentinel, tmpFile, wasArmed, disturbed, overruled>>

\* isArmed: fileExists takes any error of access for a missing file.
CheckFile(p) ==
    /\ pc[p] = "checkFile"
    /\ \/ /\ Goto(p, IF sentinel THEN "blocked" ELSE "pass")
          /\ UNCHANGED disturbed
       \/ /\ FsMayFail
          /\ Goto(p, "pass")
          /\ disturbed' = [disturbed EXCEPT ![p] = TRUE]
    /\ UNCHANGED <<dbArmed, sentinel, tmpFile, wasArmed, overruled>>

\* The caller of assertCanTrade goes on, or gets its error.
CheckReturn(p) ==
    /\ pc[p] \in {"pass", "blocked"}
    /\ Goto(p, "idle")
    /\ UNCHANGED <<dbArmed, sentinel, tmpFile, wasArmed, disturbed, overruled>>

\* The documented manual stop: touch data/LIVE_TRADING_DISABLED.
Touch ==
    /\ sentinel' = TRUE
    /\ UNCHANGED <<dbArmed, tmpFile, pc, wasArmed, disturbed, overruled>>

\* The actor's process dies and comes back; row and files stay.
Crash(p) ==
    /\ pc[p] # "idle"
    /\ Goto(p, "idle")
    /\ UNCHANGED <<dbArmed, sentinel, tmpFile, wasArmed, disturbed, overruled>>

Next ==
    \/ \E p \in Actors :
          \/ ArmDatabase(p) \/ ArmWriteTmp(p) \/ ArmRename(p) \/ ArmNotify(p)
          \/ ClearDatabase(p) \/ ClearUnlink(p)
          \/ CheckDatabase(p) \/ CheckFile(p) \/ CheckReturn(p)
          \/ Crash(p)
    \/ Touch

Spec == Init /\ [][Next]_vars

-----------------------------------------------------------------------------
\* A check lets a trade pass only if neither source was set when it began,
\* unless an operator cleared the switch, or the file system failed, meanwhile:
\* no arm in progress, crashed half way or repeated, opens a gap.
CheckSound ==
    \A p \in Actors : pc[p] = "pass" /\ ~disturbed[p] => ~wasArmed[p]

\* An arm that nobody clears reaches both sources, although another arm may
\* rename, or a crashed one leave behind, the temporary file it shares.
ArmReachesBoth ==
    \A p \in Actors : pc[p] = "armNotify" /\ ~disturbed[p] => dbArmed /\ sentinel

\* A clear cannot undo an arm that begins after it: the second half of the
\* clear removes the file, never the row.
ArmOutlivesEarlierClear ==
    \A p \in Actors : pc[p] = "armNotify" /\ ~overruled[p] => Armed
=============================================================================
