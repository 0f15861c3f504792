------------------------------- MODULE Alerts -------------------------------
(***************************************************************************)
(* services/alerts.ts: PushoverNotifier.send with the alert_deliveries of  *)
(* persistence/database.ts.  Senders are calls of send that may be under   *)
(* way at once: the cycle and each message handler.  Only rows in state    *)
(* 'delivered' are ever read: a row that is 'sending' is its sender's call *)
(* here, and one that failed, or that a crash left 'sending', is no row.   *)
(* Text, priority and the retry fields of an emergency are left out too.   *)
(* A request that was given up is not taken later.                         *)
(***************************************************************************)
CONSTANTS
    Senders,    \* calls of send that may overlap
    Keys        \* dedupe keys

VARIABLES
    deliveries, \* keys of the rows delivered within the dedupe window
    calls,      \* what each sender sends, and how far it is
    told,       \* keys of which Pushover took an alert within the window
    unsure      \* history: such keys with an alert whose answer did not arrive

mail == <<deliveries, calls, told, unsure>>

Phases == {"posted", "taken", "ok", "failed"}
UnderWay == {"posted", "taken"}

NoCall == [phase |-> "idle"]
Calls  == [key : Keys, phase : Phases] \cup {NoCall}

AlertsTypeOK ==
    /\ deliveries \subseteq Keys
    /\ calls \in [Senders -> Calls]
    /\ told \subseteq Keys
    /\ unsure \subseteq Keys

AlertsInit ==
    /\ deliveries = {}
    /\ calls = [s \in Senders |-> NoCall]
    /\ told = {}
    /\ unsure = {}

-----------------------------------------------------------------------------
Idle(s) == calls[s].phase = "idle"

Move(s, phase) == calls' = [calls EXCEPT ![s].phase = phase]

wasAlertDeliveredSince(k) == k \in deliveries

\* send up to its fetch: the question and the new row are one turn.
Send(s, k) ==
    /\ Idle(s)
    /\ calls' = [calls EXCEPT ![s] = [key |-> k,
            phase |-> IF wasAlertDeliveredSince(k) THEN "ok" ELSE "posted"]]
    /\ UNCHANGED <<deliveries, told, unsure>>

\* Pushover takes the alert and shows it to the operator.
Take(s) ==
    /\ calls[s].phase = "posted"
    /\ Move(s, "taken")
    /\ told' = told \cup {calls[s].key}
    /\ UNCHANGED <<deliveries, unsure>>

finishDelivered(s) == deliveries' = deliveries \cup {calls[s].key}

\* Mutant: an answer that arrives counts, whatever it says.
AnyAnswer(s) ==
    /\ calls[s].phase \in UnderWay
    /\ Move(s, "ok")
    /\ finishDelivered(s)
    /\ UNCHANGED <<told, unsure>>

\* Mutant: the row of a delivered alert is not finished.
AnswerUnrecorded(s) ==
    /\ calls[s].phase = "taken"
    /\ Move(s, "ok")
    /\ UNCHANGED <<deliveries, told, unsure>>

\* send: HTTP ok and status 1.
Delivered(s) ==
    /\ calls[s].phase = "taken"
    /\ Move(s, "ok")
    /\ finishDelivered(s)
    /\ UNCHANGED <<told, unsure>>

\* send: refused, timed out or unreadable; the alert may have been taken.
Fails(s) ==
    /\ calls[s].phase \in UnderWay
    /\ Move(s, "failed")
    /\ unsure' = IF calls[s].phase = "taken" THEN unsure \cup {calls[s].key} ELSE unsure
    /\ UNCHANGED <<deliveries, told>>

\* The caller goes on with what send returned or threw.
Return(s) ==
    /\ calls[s].phase \in {"ok", "failed"}
    /\ calls' = [calls EXCEPT ![s] = NoCall]
    /\ UNCHANGED <<deliveries, told, unsure>>

\* The dedupe window of some keys passes, or no alert will use them again.  A
\* request under way is younger than the window.
Expire(old) ==
    /\ \A s \in Senders : calls[s].phase \in UnderWay => calls[s].key \notin old
    /\ deliveries' = deliveries \ old
    /\ told' = told \ old
    /\ unsure' = unsure \ old
    /\ UNCHANGED calls

\* The process ends: the table stays, and nothing resends what was under way.
LoseCalls ==
    /\ calls' = [s \in Senders |-> NoCall]
    /\ unsure' = unsure \cup {calls[s].key : s \in {t \in Senders : calls[t].phase = "taken"}}
    /\ UNCHANGED <<deliveries, told>>

AlertsNext ==
    \/ \E s \in Senders :
          \/ \E k \in Keys : Send(s, k)
          \/ Take(s) \/ Delivered(s) \/ Fails(s) \/ Return(s)
    \/ \E old \in SUBSET Keys : Expire(old)
    \/ LoseCalls

AlertsSpec == AlertsInit /\ [][AlertsNext]_mail

-----------------------------------------------------------------------------
\* A send that succeeds, by an answer or because a row in the table suppresses
\* it, stands for an alert that the operator was shown within the window:
\* alerts that failed, hang or were cut off by a crash suppress nothing.
SuccessWasTold ==
    [][\A s \in Senders :
         calls[s].phase # "ok" /\ calls'[s].phase = "ok" => calls'[s].key \in told]_mail

\* The operator sees an alert again within the window only if an earlier one's
\* answer was lost, or if another call of the same key was under way: between
\* question and answer send is not atomic.
RepeatsAreExplained ==
    [][\A s \in Senders :
         LET k == calls'[s].key IN
         /\ calls[s].phase = "idle" /\ calls'[s].phase = "posted"
         /\ k \in told
         => \/ k \in unsure
            \/ \E other \in Senders \ {s} : calls[other].phase = "taken"
                                         /\ calls[other].key = k]_mail
=============================================================================
