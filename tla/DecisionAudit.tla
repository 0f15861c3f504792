--------------------------- MODULE DecisionAudit ---------------------------
(***************************************************************************)
(* services/decision-audit.ts as reconciler.ts calls it in every cycle:    *)
(* before a plan is traded, each token's decision is compared with the one *)
(* last saved, announced through Alerts, and saved.  Beside the cycle,     *)
(* message handlers of the stream arm the kill switch and announce that.   *)
(* The switch, whose two sources are KillSwitch's, is one flag here: it    *)
(* decides whether a live process that went down starts again.             *)
(* Decisions that differ have different fingerprints.  The key of an       *)
(* announcement holds the id of its run, so that no other run repeats it:  *)
(* here it is the token, whose rows are forgotten when a run begins.       *)
(***************************************************************************)
EXTENDS Naturals, Sequences

CONSTANTS
    Handlers,   \* message handlers that may run at once
    Order,      \* the tokens in the order of the plan's decisions
    Actions,    \* decisions that ask for something: BUY, SELL, SKIP
    Holds,      \* decisions to HOLD, which differ in size or reason
    Nothing,    \* no row in decision_alert_state, nothing announced
    MaxChanges, \* bound: cycles in whose plan a decision has changed
    MaxReports, \* bound: FAILED trades a handler records
    MaxFaults   \* bound: alerts and requests that fail, crashes, arms elsewhere

Tokens    == {Order[i] : i \in DOMAIN Order}
Decisions == Actions \cup Holds
Reasons   == {"decision audit notification failed", "user WebSocket trade reached FAILED"}
Senders   == {"cycle"} \cup Handlers
Keys      == Tokens \cup Reasons

ASSUME AuditAssumption ==
    /\ Nothing \notin Decisions /\ Actions \cap Holds = {}
    /\ Order \in Seq(Tokens) /\ Tokens \cap Reasons = {}
    /\ "cycle" \notin Handlers
    /\ MaxChanges \in Nat /\ MaxReports \in Nat /\ MaxFaults \in Nat

VARIABLES
    deliveries, calls, told, unsure,    \* Alerts
    mode,       \* execution.mode
    first,      \* the cycle is the one monitor.run makes before its loop
    armed,      \* the persistent kill switch
    pc,         \* where the cycle, or the process, is
    plan,       \* the decision of each token
    at,         \* the place of the loop in Order, 1 outside of it
    saved,      \* decision_alert_state
    changes, reports, faults,
    heard,      \* history: what the operator was last told of each token
    unsaved     \* history: tokens whose last announcement was taken and not saved

mail  == <<deliveries, calls, told, unsure>>
process == <<mode, first, armed>>
audit == <<process, pc, plan, at, saved>>
counters == <<changes, reports, faults>>
history == <<heard, unsaved>>
vars  == <<mail, audit, counters, history>>

Mail == INSTANCE Alerts

TypeOK ==
    /\ Mail!AlertsTypeOK
    /\ mode \in {"live", "authenticated-readonly"}
    /\ first \in BOOLEAN /\ armed \in BOOLEAN
    /\ pc \in {"down", "hung", "idle", "audit", "announcing", "arming", "trade"}
    /\ plan \in [Tokens -> Decisions]
    /\ at \in 1..(Len(Order) + 1)
    /\ saved \in [Tokens -> Decisions \cup {Nothing}]
    /\ heard \in [Tokens -> Decisions \cup {Nothing}]
    /\ unsaved \subseteq Tokens
    /\ changes \in 0..MaxChanges /\ reports \in 0..MaxReports /\ faults \in 0..MaxFaults

Init ==
    /\ Mail!AlertsInit
    /\ mode \in {"live", "authenticated-readonly"}
    /\ first = TRUE /\ armed = FALSE /\ pc = "down"
    /\ plan \in [Tokens -> Decisions]
    /\ at = 1
    /\ saved = [t \in Tokens |-> Nothing]
    /\ changes = 0 /\ reports = 0 /\ faults = 0
    /\ heard = [t \in Tokens |-> Nothing]
    /\ unsaved = {}

-----------------------------------------------------------------------------
Live == mode = "live"

Fault == faults < MaxFaults /\ faults' = faults + 1

\* main: in live mode assertCanTrade ends a process that finds the switch armed.
\* The alert of the start has a key of its own; a start whose alert fails is none.
Start ==
    /\ pc = "down" /\ (Live => ~armed)
    /\ pc' = "idle"
    /\ UNCHANGED <<mail, process, plan, at, saved, counters, history>>

\* runOnce returns, and the monitor's loop goes on.
Return == pc' = "idle" /\ first' = FALSE

\* runOnce throws: the loop catches it, but the run before the loop ends
\* monitor.run, which then waits for the stream task.
Throw == pc' = (IF first THEN "hung" ELSE "idle") /\ UNCHANGED first

\* A discovery or a request before the plan fails.  In the loop the next cycle
\* follows; before it, a failed discovery ends the process.
RequestFails ==
    /\ pc = "idle" /\ Fault
    /\ Throw \/ (first /\ pc' = "down" /\ UNCHANGED first)
    /\ UNCHANGED <<mail, mode, armed, plan, at, saved, changes, reports, history>>

\* A plan of a new run: its announcements have keys no row has.
NewPlan ==
    /\ pc = "idle"
    /\ \/ UNCHANGED <<plan, changes>>
       \/ /\ changes < MaxChanges
          /\ changes' = changes + 1
          /\ \E t \in Tokens : \E d \in Decisions \ {plan[t]} :
                plan' = [plan EXCEPT ![t] = d]
    /\ pc' = "audit"
    /\ Mail!Expire(Tokens)
    /\ UNCHANGED <<process, at, saved, reports, faults, history>>

Token == Order[at]

\* Mutant: only what is actionable now is worth a word.
NotifyActions(t) == plan[t] \in Actions

shouldNotify(t) ==
    \/ plan[t] \in Actions
    \/ saved[t] \in Actions

\* Mutant: the loop's save belongs to the branch that notifies.
setDecisionAlertStateIfNotified(t) ==
    saved' = IF shouldNotify(t) THEN [saved EXCEPT ![t] = plan[t]] ELSE saved

setDecisionAlertState(t) == saved' = [saved EXCEPT ![t] = plan[t]]

\* A decision like the saved one, or one nobody needs to hear of.
Pass ==
    /\ pc = "audit" /\ at <= Len(Order)
    /\ IF saved[Token] = plan[Token]
       THEN UNCHANGED saved
       ELSE ~shouldNotify(Token) /\ setDecisionAlertState(Token)
    /\ at' = at + 1
    /\ UNCHANGED <<mail, process, pc, plan, counters, history>>

Announce ==
    /\ pc = "audit" /\ at <= Len(Order)
    /\ saved[Token] # plan[Token] /\ shouldNotify(Token)
    /\ Mail!Send("cycle", Token)
    /\ pc' = "announcing"
    /\ UNCHANGED <<process, plan, at, saved, counters, history>>

\* Mutant: the fingerprints are saved together, after the last announcement.
SaveWithLast ==
    /\ pc = "announcing" /\ calls["cycle"].phase = "ok"
    /\ Mail!Return("cycle")
    /\ saved' = IF at = Len(Order) THEN plan ELSE saved
    /\ unsaved' = unsaved \ {Token}
    /\ pc' = "audit"
    /\ at' = at + 1
    /\ UNCHANGED <<process, plan, counters, heard>>

\* Announced: the fingerprint is saved.
Save ==
    /\ pc = "announcing" /\ calls["cycle"].phase = "ok"
    /\ Mail!Return("cycle")
    /\ setDecisionAlertState(Token)
    /\ unsaved' = unsaved \ {Token}
    /\ pc' = "audit"
    /\ at' = at + 1
    /\ UNCHANGED <<process, plan, counters, heard>>

\* notifyDecisionChanges throws: in live mode the switch is armed first.
AuditFails ==
    /\ pc = "announcing" /\ calls["cycle"].phase = "failed"
    /\ Mail!Return("cycle")
    /\ \/ Live /\ armed' = TRUE /\ pc' = "arming" /\ UNCHANGED first
       \/ ~Live /\ Return /\ UNCHANGED armed
    /\ at' = 1
    /\ UNCHANGED <<mode, plan, saved, counters, history>>

\* arm: after the row, the emergency; its failure is caught.
ArmForAudit ==
    /\ pc = "arming" /\ Mail!Idle("cycle")
    /\ Mail!Send("cycle", "decision audit notification failed")
    /\ UNCHANGED <<process, pc, plan, at, saved, counters, history>>

ArmReturns ==
    /\ pc = "arming"
    /\ Mail!Return("cycle")
    /\ Return
    /\ UNCHANGED <<mode, armed, plan, at, saved, counters, history>>

\* The whole plan is audited; what follows is LiveTrading's.
AuditEnds ==
    /\ pc = "audit" /\ at > Len(Order)
    /\ pc' = "trade"
    /\ at' = 1
    /\ UNCHANGED <<mail, process, plan, saved, counters, history>>

\* It returns, or assertCanTrade throws; an order that throws has armed.
CycleEnds ==
    /\ pc = "trade"
    /\ Return \/ (Live /\ armed /\ Throw)
    /\ UNCHANGED <<mail, mode, armed, plan, at, saved, counters, history>>

\* The stream task of a process that waits for it ends after an outage, which
\* arms; then the process ends too.
HungExit ==
    /\ pc = "hung" /\ Live /\ \A s \in Senders : Mail!Idle(s)
    /\ armed' = TRUE
    /\ pc' = "down"
    /\ UNCHANGED <<mail, mode, first, plan, at, saved, counters, history>>

\* A handler records a FAILED trade: arm, and its emergency.
HandlerArms(h) ==
    /\ pc # "down" /\ Live /\ reports < MaxReports
    /\ reports' = reports + 1
    /\ armed' = TRUE
    /\ Mail!Send(h, "user WebSocket trade reached FAILED")
    /\ UNCHANGED <<mode, first, pc, plan, at, saved, changes, faults, history>>

HandlerReturns(h) ==
    /\ Mail!Return(h)
    /\ UNCHANGED <<audit, counters, history>>

\* Pushover shows an alert to the operator.
Shown(s) ==
    /\ Mail!Take(s)
    /\ LET k == calls[s].key IN
       IF k \in Tokens
       THEN heard' = [heard EXCEPT ![k] = plan[k]] /\ unsaved' = unsaved \cup {k}
       ELSE UNCHANGED history
    /\ UNCHANGED <<audit, counters>>

Answered(s) ==
    /\ Mail!Delivered(s)
    /\ UNCHANGED <<audit, counters, history>>

AlertFails(s) ==
    /\ Fault
    /\ Mail!Fails(s)
    /\ UNCHANGED <<audit, changes, reports, history>>

WindowPasses(k) ==
    /\ k \in told /\ Mail!Expire({k})
    /\ UNCHANGED <<audit, counters, history>>

\* The process ends: table, switch and fingerprints stay.
Crash ==
    /\ pc # "down" /\ Fault
    /\ Mail!LoseCalls
    /\ pc' = "down" /\ first' = TRUE /\ at' = 1
    /\ UNCHANGED <<mode, armed, plan, saved, changes, reports, history>>

\* The cycle, an outage of the stream or an operator arms for another reason.
ArmedElsewhere ==
    /\ Live /\ ~armed /\ Fault
    /\ armed' = TRUE
    /\ UNCHANGED <<mail, mode, first, pc, plan, at, saved, changes, reports, history>>

OperatorClears ==
    /\ armed
    /\ armed' = FALSE
    /\ UNCHANGED <<mail, mode, first, pc, plan, at, saved, counters, history>>

Cycle ==
    \/ Start \/ NewPlan \/ Pass \/ Announce \/ Save \/ AuditFails
    \/ ArmForAudit \/ ArmReturns \/ AuditEnds \/ CycleEnds

Next ==
    \/ Cycle
    \/ \E h \in Handlers : HandlerArms(h) \/ HandlerReturns(h)
    \/ \E s \in Senders : Shown(s) \/ Answered(s) \/ AlertFails(s)
    \/ \E k \in Reasons : WindowPasses(k)
    \/ RequestFails \/ HungExit \/ Crash \/ ArmedElsewhere \/ OperatorClears

Spec == Init /\ [][Next]_vars

\* The event loop goes on, a process that is down is started again, and Pushover
\* answers, unless the request fails.  Nothing is assumed of the operator, nor of
\* the stream a hung process waits for.
FairSpec ==
    /\ Spec
    /\ WF_vars(Cycle)
    /\ WF_vars(Shown("cycle"))
    /\ WF_vars(Answered("cycle"))

-----------------------------------------------------------------------------
\* A plan goes on to the trade only if the operator knows it: of each token the
\* last word heard is its decision, or, where the plan holds, no other action.
\* The exception is a word taken by Pushover whose answer, or save, was lost: a
\* plan that returns to the decision before that is not announced again.
TradedPlanWasHeard ==
    pc = "trade" =>
        \A t \in Tokens \ unsaved :
            \/ heard[t] = plan[t]
            \/ plan[t] \in Holds /\ heard[t] \notin Actions

\* An announcement the operator heard last is not repeated, cycle after cycle,
\* across crashes and failures of other tokens, unless its save was lost.
NoWordTwice ==
    [][\A t \in Tokens \ unsaved : t \in unsaved' => heard[t] # plan[t]]_vars

\* No cycle comes: a live process went down with the switch armed, and does not
\* start until an operator clears it; or the first cycle after a start threw, and
\* the process waits for its stream.
NoCycleComes == (pc = "down" /\ Live /\ armed) \/ pc = "hung"

\* Once plans and failures cease, every fingerprint is that of the plan, unless
\* no cycle comes any more: a failed announcement, a lost answer, or a crash that
\* leaves the switch clear does not keep the audit from catching up.
AuditCatchesUp == <>[](saved = plan \/ NoCycleComes)

SuccessWasTold == Mail!SuccessWasTold
RepeatsAreExplained == Mail!RepeatsAreExplained
=============================================================================
