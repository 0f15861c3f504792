------------------------- MODULE DecisionAuditProofs -------------------------
(***************************************************************************)
(* Proofs about Alerts, with calls that overlap, fail, expire and crash in *)
(* any order, and about DecisionAudit, for every number of tokens,         *)
(* handlers, decisions, changes, reports and faults: its steps are steps   *)
(* of Alerts, and a plan is traded only after its decisions were heard.    *)
(***************************************************************************)
EXTENDS DecisionAudit, TLAPS

\* What is on record was shown, and so was what waits for its answer.
RecordsAreTrue ==
    /\ deliveries \subseteq told
    /\ \A s \in Senders : calls[s].phase = "taken" => calls[s].key \in told

\* Whoever takes the alert of this key at present.
Taking(k) == \E s \in Senders : calls[s].key = k /\ calls[s].phase = "taken"

\* What was shown is on record, waits for its answer, or has lost it.
ShownIsKnown == \A k \in told : k \in deliveries \/ k \in unsure \/ Taking(k)

AlertsInv == Mail!AlertsTypeOK /\ RecordsAreTrue /\ ShownIsKnown

-----------------------------------------------------------------------------
\* A call is idle, or it has a key and a phase.
LEMMA CallFacts ==
    /\ Mail!NoCall \in Mail!Calls /\ Mail!NoCall.phase = "idle"
    /\ \A c \in Mail!Calls : c.phase # "idle" =>
          /\ c \in [key : Keys, phase : Mail!Phases]
          /\ c.key \in Keys /\ c.phase \in Mail!Phases
    /\ \A k \in Keys, p \in Mail!Phases :
          [key |-> k, phase |-> p] \in Mail!Calls /\ p # "idle"
  BY DEF Mail!Calls, Mail!NoCall, Mail!Phases

LEMMA AlertsInitInv == Mail!AlertsInit => AlertsInv
<1> SUFFICES ASSUME Mail!AlertsInit PROVE AlertsInv
  OBVIOUS
<1> QED
  BY CallFacts DEF Mail!AlertsInit, AlertsInv, Mail!AlertsTypeOK, RecordsAreTrue, ShownIsKnown

\* A call that changes leaves the other calls as they are.
LEMMA OneMoves ==
    ASSUME Mail!AlertsTypeOK, NEW s \in Senders, NEW phase \in Mail!Phases, Mail!Move(s, phase),
           calls[s].phase # "idle"
    PROVE  /\ calls' \in [Senders -> Mail!Calls]
           /\ calls'[s].key = calls[s].key /\ calls'[s].phase = phase
           /\ \A other \in Senders \ {s} : calls'[other] = calls[other]
<1>1. calls[s] \in [key : Keys, phase : Mail!Phases]
  BY CallFacts DEF Mail!AlertsTypeOK
<1>2. [calls[s] EXCEPT !.phase = phase] = [key |-> calls[s].key, phase |-> phase]
  BY <1>1
<1>3. [calls[s] EXCEPT !.phase = phase] \in Mail!Calls
  BY <1>1, <1>2, CallFacts
<1>4. calls' = [calls EXCEPT ![s] = [calls[s] EXCEPT !.phase = phase]]
  BY DEF Mail!Move
<1> QED
  BY <1>2, <1>3, <1>4 DEF Mail!AlertsTypeOK

LEMMA AlertsNextInv == AlertsInv /\ [Mail!AlertsNext]_(Mail!mail) => AlertsInv'
<1> SUFFICES ASSUME AlertsInv, [Mail!AlertsNext]_(Mail!mail) PROVE AlertsInv'
  OBVIOUS
<1> USE DEF AlertsInv
<1>1. ASSUME NEW s \in Senders, NEW k \in Keys, Mail!Send(s, k) PROVE AlertsInv'
  <2>1. /\ calls' \in [Senders -> Mail!Calls]
        /\ calls[s].phase = "idle" /\ calls'[s].phase \in {"ok", "posted"}
        /\ \A other \in Senders \ {s} : calls'[other] = calls[other]
        /\ UNCHANGED <<deliveries, told, unsure>>
    BY <1>1, CallFacts DEF Mail!Send, Mail!Idle, Mail!AlertsTypeOK, Mail!Phases
  <2>2. \A other \in Senders : calls[other].phase = "taken" => calls'[other] = calls[other]
    BY <2>1
  <2>3. \A other \in Senders : calls'[other].phase = "taken" => calls'[other] = calls[other]
    BY <2>1
  <2> QED
    BY <2>1, <2>2, <2>3 DEF Mail!AlertsTypeOK, RecordsAreTrue, ShownIsKnown, Taking
<1>2. ASSUME NEW s \in Senders, Mail!Take(s) PROVE AlertsInv'
  <2>1. /\ Mail!Move(s, "taken") /\ calls[s].phase = "posted" /\ calls[s].key \in Keys
        /\ told' = told \cup {calls[s].key} /\ UNCHANGED <<deliveries, unsure>>
    BY <1>2, CallFacts DEF Mail!Take, Mail!AlertsTypeOK
  <2>2. \A k \in Keys : Taking(k) \/ k = calls[s].key => Taking(k)'
    BY <2>1, OneMoves DEF Taking, Mail!Phases
  <2> QED
    BY <2>1, <2>2, OneMoves, CallFacts DEF Mail!AlertsTypeOK, RecordsAreTrue, ShownIsKnown, Mail!Phases
<1>3. ASSUME NEW s \in Senders, Mail!Delivered(s) PROVE AlertsInv'
  <2>1. /\ Mail!Move(s, "ok") /\ calls[s].phase = "taken" /\ calls[s].key \in Keys
        /\ deliveries' = deliveries \cup {calls[s].key} /\ UNCHANGED <<told, unsure>>
    BY <1>3, CallFacts DEF Mail!Delivered, Mail!finishDelivered, Mail!AlertsTypeOK
  <2>2. \A k \in Keys : Taking(k) => Taking(k)' \/ k = calls[s].key
    BY <2>1, OneMoves DEF Taking, Mail!Phases
  <2> QED
    BY <2>1, <2>2, OneMoves, CallFacts DEF Mail!AlertsTypeOK, RecordsAreTrue, ShownIsKnown, Mail!Phases
<1>4. ASSUME NEW s \in Senders, Mail!Fails(s) PROVE AlertsInv'
  <2>1. /\ Mail!Move(s, "failed") /\ calls[s].phase \in Mail!UnderWay /\ calls[s].key \in Keys
        /\ unsure' = IF calls[s].phase = "taken" THEN unsure \cup {calls[s].key} ELSE unsure
        /\ UNCHANGED <<deliveries, told>>
    BY <1>4, CallFacts DEF Mail!Fails, Mail!AlertsTypeOK, Mail!UnderWay
  <2>2. \A k \in Keys : Taking(k) => Taking(k)' \/ k \in unsure'
    BY <2>1, OneMoves DEF Taking, Mail!Phases, Mail!UnderWay
  <2>3. unsure \subseteq unsure' /\ unsure' \subseteq Keys
    BY <2>1 DEF Mail!AlertsTypeOK
  <2> QED
    BY <2>1, <2>2, <2>3, OneMoves
    DEF Mail!AlertsTypeOK, RecordsAreTrue, ShownIsKnown, Mail!Phases, Mail!UnderWay
<1>5. ASSUME NEW s \in Senders, Mail!Return(s) PROVE AlertsInv'
  <2>1. /\ calls' \in [Senders -> Mail!Calls]
        /\ calls[s].phase # "taken" /\ calls'[s].phase = "idle"
        /\ \A other \in Senders \ {s} : calls'[other] = calls[other]
        /\ UNCHANGED <<deliveries, told, unsure>>
    BY <1>5, CallFacts DEF Mail!Return, Mail!AlertsTypeOK
  <2>2. \A other \in Senders : calls[other].phase = "taken" => calls'[other] = calls[other]
    BY <2>1
  <2>3. \A other \in Senders : calls'[other].phase = "taken" => calls'[other] = calls[other]
    BY <2>1
  <2> QED
    BY <2>1, <2>2, <2>3 DEF Mail!AlertsTypeOK, RecordsAreTrue, ShownIsKnown, Taking
<1>6. ASSUME NEW old \in SUBSET Keys, Mail!Expire(old) PROVE AlertsInv'
  BY <1>6 DEF Mail!Expire, Mail!UnderWay, Mail!AlertsTypeOK, RecordsAreTrue, ShownIsKnown, Taking
<1>7. CASE Mail!LoseCalls
  <2>1. /\ calls' \in [Senders -> Mail!Calls]
        /\ \A s \in Senders : calls'[s].phase = "idle"
        /\ unsure \subseteq unsure' /\ unsure' \subseteq Keys
        /\ UNCHANGED <<deliveries, told>>
    BY <1>7, CallFacts DEF Mail!LoseCalls, Mail!AlertsTypeOK
  <2>2. \A k \in Keys : Taking(k) => k \in unsure'
    BY <1>7 DEF Mail!LoseCalls, Taking
  <2> QED
    BY <2>1, <2>2 DEF Mail!AlertsTypeOK, RecordsAreTrue, ShownIsKnown
<1>8. CASE UNCHANGED Mail!mail
  BY <1>8 DEF Mail!mail, Mail!AlertsTypeOK, RecordsAreTrue, ShownIsKnown, Taking
<1> QED
  BY <1>1, <1>2, <1>3, <1>4, <1>5, <1>6, <1>7, <1>8 DEF Mail!AlertsNext

LEMMA AlertsInvariance == Mail!AlertsSpec => []AlertsInv
  BY AlertsInitInv, AlertsNextInv, PTL DEF Mail!AlertsSpec

-----------------------------------------------------------------------------
\* send and the rows of alert_deliveries keep their types.
THEOREM AlertsTypeCorrect == Mail!AlertsSpec => []Mail!AlertsTypeOK
<1>1. AlertsInv => Mail!AlertsTypeOK
  BY DEF AlertsInv
<1> QED
  BY <1>1, AlertsInvariance, PTL

\* A send that succeeds stands for an alert the operator was shown.
THEOREM SuccessTellsTruth == Mail!AlertsSpec => Mail!SuccessWasTold
<1>1. AlertsInv /\ [Mail!AlertsNext]_(Mail!mail) =>
        [\A s \in Senders :
           calls[s].phase # "ok" /\ calls'[s].phase = "ok" => calls'[s].key \in told]_(Mail!mail)
  <2> SUFFICES ASSUME AlertsInv, [Mail!AlertsNext]_(Mail!mail), NEW s \in Senders,
                      calls[s].phase # "ok", calls'[s].phase = "ok"
               PROVE  calls'[s].key \in told
    OBVIOUS
  <2> USE DEF AlertsInv
  <2>1. ASSUME NEW t \in Senders, NEW k \in Keys, Mail!Send(t, k) PROVE calls'[s].key \in told
    BY <2>1 DEF Mail!Send, Mail!AlertsTypeOK, RecordsAreTrue, Mail!wasAlertDeliveredSince
  <2>2. ASSUME NEW t \in Senders, Mail!Delivered(t) PROVE calls'[s].key \in told
    BY <2>2, OneMoves DEF Mail!Delivered, RecordsAreTrue, Mail!Phases
  <2>3. ASSUME NEW t \in Senders, Mail!Take(t) \/ Mail!Fails(t) PROVE FALSE
    BY <2>3, OneMoves DEF Mail!Take, Mail!Fails, Mail!Phases, Mail!UnderWay
  <2>4. ASSUME NEW t \in Senders, Mail!Return(t) PROVE FALSE
    BY <2>4, CallFacts DEF Mail!Return, Mail!AlertsTypeOK
  <2>5. ASSUME NEW old \in SUBSET Keys, Mail!Expire(old) PROVE FALSE
    BY <2>5 DEF Mail!Expire
  <2>6. ~Mail!LoseCalls
    BY CallFacts DEF Mail!LoseCalls
  <2>7. Mail!mail' # Mail!mail
    BY DEF Mail!mail
  <2> QED
    BY <2>1, <2>2, <2>3, <2>4, <2>5, <2>6, <2>7 DEF Mail!AlertsNext
<1> QED
  BY <1>1, AlertsInvariance, PTL DEF Mail!AlertsSpec, Mail!SuccessWasTold

\* An alert is shown again only after a lost answer or beside one under way.
THEOREM RepeatsHaveReasons == Mail!AlertsSpec => Mail!RepeatsAreExplained
<1>1. AlertsInv /\ [Mail!AlertsNext]_(Mail!mail) =>
        [\A s \in Senders :
           LET k == calls'[s].key IN
           /\ calls[s].phase = "idle" /\ calls'[s].phase = "posted"
           /\ k \in told
           => \/ k \in unsure
              \/ \E other \in Senders \ {s} : calls[other].phase = "taken"
                                           /\ calls[other].key = k]_(Mail!mail)
  <2> SUFFICES ASSUME AlertsInv, [Mail!AlertsNext]_(Mail!mail), NEW s \in Senders,
                      calls[s].phase = "idle", calls'[s].phase = "posted",
                      calls'[s].key \in told
               PROVE  \/ calls'[s].key \in unsure
                      \/ \E other \in Senders \ {s} : calls[other].key = calls'[s].key
                                                   /\ calls[other].phase = "taken"
    OBVIOUS
  <2> USE DEF AlertsInv
  <2>1. ASSUME NEW t \in Senders, NEW k \in Keys, Mail!Send(t, k)
        PROVE  /\ calls'[s].key \notin deliveries
    BY <2>1 DEF Mail!Send, Mail!AlertsTypeOK, Mail!wasAlertDeliveredSince
  <2>2. ASSUME NEW t \in Senders, Mail!Take(t) \/ Mail!Delivered(t) \/ Mail!Fails(t) PROVE FALSE
    BY <2>2, OneMoves DEF Mail!Take, Mail!Delivered, Mail!Fails, Mail!Phases, Mail!UnderWay
  <2>3. ASSUME NEW t \in Senders, Mail!Return(t) PROVE FALSE
    BY <2>3, CallFacts DEF Mail!Return, Mail!AlertsTypeOK
  <2>4. ASSUME NEW old \in SUBSET Keys, Mail!Expire(old) PROVE FALSE
    BY <2>4 DEF Mail!Expire
  <2>5. ~Mail!LoseCalls
    BY CallFacts DEF Mail!LoseCalls
  <2>6. Mail!mail' # Mail!mail
    BY DEF Mail!mail
  <2>7. calls'[s].key \notin deliveries
    BY <2>1, <2>2, <2>3, <2>4, <2>5, <2>6 DEF Mail!AlertsNext
  <2> QED
    BY <2>7 DEF ShownIsKnown, Taking
<1> QED
  BY <1>1, AlertsInvariance, PTL DEF Mail!AlertsSpec, Mail!RepeatsAreExplained

-----------------------------------------------------------------------------
\* The part of TypeOK that is not Alerts'.
AuditType ==
    /\ mode \in {"live", "authenticated-readonly"}
    /\ first \in BOOLEAN /\ armed \in BOOLEAN
    /\ pc \in {"down", "hung", "idle", "audit", "announcing", "arming", "trade"}
    /\ plan \in [Tokens -> Decisions]
    /\ at \in 1..(Len(Order) + 1)
    /\ saved \in [Tokens -> Decisions \cup {Nothing}]
    /\ heard \in [Tokens -> Decisions \cup {Nothing}]
    /\ unsaved \subseteq Tokens
    /\ changes \in 0..MaxChanges /\ reports \in 0..MaxReports /\ faults \in 0..MaxFaults

\* What a call is about follows from where its caller is.
Callers ==
    /\ pc \in {"down", "hung", "idle", "audit", "trade"} => calls["cycle"].phase = "idle"
    /\ pc = "announcing" => /\ at <= Len(Order)
                            /\ calls["cycle"].phase # "idle" /\ calls["cycle"].key = Token
    /\ pc = "arming" => calls["cycle"].phase = "idle" \/ calls["cycle"].key \in Reasons
    /\ \A h \in Handlers : calls[h].phase # "idle" => calls[h].key \in Reasons

\* The loop begins at its first token and leaves saved decisions behind it.
Passed ==
    /\ pc \notin {"audit", "announcing"} => at = 1
    /\ pc \in {"audit", "announcing"} => \A i \in 1..(at - 1) : saved[Order[i]] = plan[Order[i]]
    /\ pc = "trade" => \A t \in Tokens : saved[t] = plan[t]

\* No row suppresses an announcement of this run.
Fresh ==
    pc \in {"audit", "announcing"} =>
        \A t \in deliveries \cap Tokens :
            \/ saved[t] = plan[t]
            \/ pc = "announcing" /\ t = Token /\ calls["cycle"].phase = "ok"

\* What is announced is news, and was heard once Pushover took it.
Announcing ==
    pc = "announcing" =>
        /\ saved[Token] # plan[Token] /\ shouldNotify(Token)
        /\ calls["cycle"].phase \in {"taken", "ok"} => heard[Token] = plan[Token]

\* A fingerprint is what was heard, or neither of the two asks for anything.
Known ==
    \A t \in Tokens \ unsaved :
        \/ heard[t] = saved[t]
        \/ saved[t] \notin Actions /\ heard[t] \notin Actions

IInv == AlertsInv /\ AuditType /\ Callers /\ Passed /\ Fresh /\ Announcing /\ Known

-----------------------------------------------------------------------------
LEMMA OrderFacts ==
    /\ Len(Order) \in Nat
    /\ \A i \in 1..Len(Order) : Order[i] \in Tokens
    /\ \A t \in Tokens : \E i \in 1..Len(Order) : t = Order[i]
<1>1. Len(Order) \in Nat /\ DOMAIN Order = 1..Len(Order)
  BY AuditAssumption
<1> QED
  BY <1>1 DEF Tokens

LEMMA TokenFacts ==
    ASSUME AuditType, at <= Len(Order)
    PROVE  Token \in Tokens /\ Token \in Keys
  BY OrderFacts DEF AuditType, Token, Keys

\* The loop's step: what was passed and the token at hand.
LEMMA LoopFacts ==
    ASSUME AuditType, at <= Len(Order)
    PROVE  /\ at + 1 \in 1..(Len(Order) + 1)
           /\ \A i \in 1..((at + 1) - 1) : i = at \/ i \in 1..(at - 1)
           /\ \A i \in 1..((at + 1) - 1) : Order[i] \in Tokens
  BY OrderFacts DEF AuditType

\* The loop's bounds.
LEMMA LoopEnds ==
    /\ 1 \in 1..(Len(Order) + 1) /\ 1..(1 - 1) = {}
    /\ AuditType /\ at > Len(Order) => \A i \in 1..Len(Order) : i \in 1..(at - 1)
  BY OrderFacts DEF AuditType

\* A counter below its bound goes up, or stays.
LEMMA CounterFacts ==
    ASSUME AuditType
    PROVE  /\ changes < MaxChanges => changes + 1 \in 0..MaxChanges
           /\ reports < MaxReports => reports + 1 \in 0..MaxReports
           /\ faults < MaxFaults => faults + 1 \in 0..MaxFaults
  BY AuditAssumption DEF AuditType

LEMMA KeyFacts ==
    /\ "cycle" \in Senders /\ Handlers \subseteq Senders
    /\ "decision audit notification failed" \in Reasons
    /\ "user WebSocket trade reached FAILED" \in Reasons
    /\ Tokens \subseteq Keys /\ Reasons \subseteq Keys
    /\ Keys = Tokens \cup Reasons /\ Tokens \cap Reasons = {}
  BY AuditAssumption DEF Senders, Keys, Reasons

\* Every step of the audit, its handlers and the process is one of Alerts.
LEMMA MailStep ==
    ASSUME AuditType, [Next]_vars
    PROVE  [Mail!AlertsNext]_(Mail!mail)
<1> SUFFICES Mail!AlertsNext \/ UNCHANGED mail
  BY DEF mail, Mail!mail
<1>0. /\ \A s \in Senders : \A k \in Keys : Mail!Send(s, k) => Mail!AlertsNext
      /\ \A s \in Senders :
           Mail!Take(s) \/ Mail!Delivered(s) \/ Mail!Fails(s) \/ Mail!Return(s) => Mail!AlertsNext
      /\ \A old \in SUBSET Keys : Mail!Expire(old) => Mail!AlertsNext
      /\ Mail!LoseCalls => Mail!AlertsNext
  BY DEF Mail!AlertsNext
<1> USE <1>0, KeyFacts
<1>1. CASE NewPlan
  BY <1>1 DEF NewPlan
<1>2. CASE Pass \/ AuditEnds \/ CycleEnds
  BY <1>2 DEF Pass, AuditEnds, CycleEnds
<1>11. CASE Start \/ RequestFails \/ HungExit \/ ArmedElsewhere \/ OperatorClears
  BY <1>11 DEF Start, RequestFails, HungExit, ArmedElsewhere, OperatorClears
<1>3. CASE Announce
  BY <1>3, TokenFacts DEF Announce
<1>4. CASE Save \/ AuditFails \/ ArmReturns
  BY <1>4 DEF Save, AuditFails, ArmReturns
<1>5. CASE ArmForAudit
  BY <1>5 DEF ArmForAudit
<1>6. ASSUME NEW h \in Handlers, HandlerArms(h) \/ HandlerReturns(h)
      PROVE  Mail!AlertsNext
  BY <1>6 DEF HandlerArms, HandlerReturns
<1>7. ASSUME NEW s \in Senders, Shown(s) \/ Answered(s) \/ AlertFails(s)
      PROVE  Mail!AlertsNext
  BY <1>7 DEF Shown, Answered, AlertFails
<1>8. ASSUME NEW k \in Reasons, WindowPasses(k) PROVE Mail!AlertsNext
  BY <1>8 DEF WindowPasses
<1>9. CASE Crash
  BY <1>9 DEF Crash
<1>10. CASE UNCHANGED vars
  BY <1>10 DEF vars
<1> QED
  BY <1>1, <1>2, <1>3, <1>4, <1>5, <1>6, <1>7, <1>8, <1>9, <1>10, <1>11 DEF Next, Cycle

-----------------------------------------------------------------------------
\* A call that begins or ends, and a call on its way, leave the others alone.
LEMMA Effects ==
    ASSUME Mail!AlertsTypeOK, NEW s \in Senders
    PROVE  /\ \A k \in Keys : Mail!Send(s, k) =>
                /\ calls[s].phase = "idle" /\ calls'[s].key = k
                /\ calls'[s].phase = IF k \in deliveries THEN "ok" ELSE "posted"
                /\ deliveries' = deliveries
           /\ Mail!Take(s) \/ Mail!Delivered(s) \/ Mail!Fails(s) =>
                /\ calls[s].phase \in {"posted", "taken"} /\ calls'[s].key = calls[s].key
                /\ calls'[s].phase \in {"taken", "ok", "failed"}
           /\ Mail!Take(s) => calls'[s].phase = "taken" /\ deliveries' = deliveries
           /\ Mail!Delivered(s) =>
                /\ calls[s].phase = "taken" /\ calls'[s].phase = "ok"
                /\ deliveries' = deliveries \cup {calls[s].key}
           /\ Mail!Fails(s) => calls'[s].phase = "failed" /\ deliveries' = deliveries
           /\ Mail!Return(s) => calls'[s].phase = "idle" /\ deliveries' = deliveries
           /\ \/ Mail!Take(s) \/ Mail!Delivered(s) \/ Mail!Fails(s) \/ Mail!Return(s)
              \/ \E k \in Keys : Mail!Send(s, k)
              => \A other \in Senders \ {s} : calls'[other] = calls[other]
<1> USE DEF Mail!AlertsTypeOK
<1>1. ASSUME NEW k \in Keys, Mail!Send(s, k)
      PROVE  /\ calls[s].phase = "idle" /\ calls'[s].key = k
             /\ calls'[s].phase = IF k \in deliveries THEN "ok" ELSE "posted"
             /\ deliveries' = deliveries
             /\ \A other \in Senders \ {s} : calls'[other] = calls[other]
  BY <1>1 DEF Mail!Send, Mail!Idle, Mail!wasAlertDeliveredSince
<1>2. ASSUME NEW p \in {"taken", "ok", "failed"}, Mail!Move(s, p),
             calls[s].phase \in {"posted", "taken"}
      PROVE  /\ calls'[s].key = calls[s].key /\ calls'[s].phase = p
             /\ \A other \in Senders \ {s} : calls'[other] = calls[other]
  BY <1>2, OneMoves DEF Mail!Phases
<1>4. Mail!Take(s) => Mail!Move(s, "taken") /\ calls[s].phase = "posted" /\ deliveries' = deliveries
  BY DEF Mail!Take, Mail!Move, Mail!Move
<1>5. Mail!Delivered(s) => /\ Mail!Move(s, "ok") /\ calls[s].phase = "taken"
                           /\ deliveries' = deliveries \cup {calls[s].key}
  BY DEF Mail!Delivered, Mail!finishDelivered, Mail!Move, Mail!Move
<1>6. Mail!Fails(s) => /\ Mail!Move(s, "failed") /\ calls[s].phase \in {"posted", "taken"}
                       /\ deliveries' = deliveries
  BY DEF Mail!Fails, Mail!UnderWay, Mail!Move, Mail!Move
<1>3. ASSUME Mail!Return(s)
      PROVE  /\ calls'[s].phase = "idle" /\ deliveries' = deliveries
             /\ \A other \in Senders \ {s} : calls'[other] = calls[other]
  BY <1>3 DEF Mail!Return, Mail!NoCall
<1> QED
  BY <1>1, <1>2, <1>3, <1>4, <1>5, <1>6

LEMMA InitInv == Init => IInv
<1> SUFFICES ASSUME Init PROVE IInv
  OBVIOUS
<1>1. AlertsInv
  BY AlertsInitInv DEF Init
<1>2. deliveries = {} /\ \A s \in Senders : calls[s].phase = "idle"
  BY DEF Init, Mail!AlertsInit, Mail!NoCall
<1>3. AuditType
  <2>1. first \in BOOLEAN /\ armed \in BOOLEAN
    BY DEF Init
  <2>2. /\ at \in 1..(Len(Order) + 1)
        /\ changes \in 0..MaxChanges /\ reports \in 0..MaxReports /\ faults \in 0..MaxFaults
    BY OrderFacts, AuditAssumption DEF Init
  <2>3. heard \in [Tokens -> Decisions \cup {Nothing}] /\ saved = heard
    BY DEF Init
  <2> QED
    BY <2>1, <2>2, <2>3 DEF Init, AuditType
<1>4. Callers
  BY <1>2, KeyFacts DEF Init, Callers
<1>5. Passed /\ Fresh /\ Announcing
  BY DEF Init, Passed, Fresh, Announcing
<1>6. Known
  BY DEF Init, Known
<1> QED
  BY <1>1, <1>3, <1>4, <1>5, <1>6 DEF IInv

LEMMA MailInv == IInv /\ [Next]_vars => AlertsInv'
<1>1. IInv /\ [Next]_vars => AlertsInv /\ [Mail!AlertsNext]_(Mail!mail)
  BY MailStep DEF IInv
<1> QED
  BY <1>1, AlertsNextInv

LEMMA NextInv == IInv /\ [Next]_vars => IInv'
<1> SUFFICES ASSUME IInv, [Next]_vars PROVE IInv'
  OBVIOUS
<1> DEFINE Own == AuditType /\ Callers /\ Passed /\ Fresh /\ Announcing /\ Known
<1>1. AlertsInv'
  BY MailInv
<1>2. Mail!AlertsTypeOK /\ Own
  BY DEF IInv, AlertsInv
<1> USE KeyFacts
<1>3. CASE NewPlan
  <2>1. calls' = calls /\ deliveries' = deliveries \ Tokens
    BY <1>3 DEF NewPlan, Mail!Expire
  <2>2. AuditType'
    <3>1. plan' \in [Tokens -> Decisions] /\ changes' \in 0..MaxChanges
      BY <1>2, <1>3, CounterFacts DEF NewPlan, AuditType
    <3> QED
      BY <1>2, <1>3, <3>1 DEF NewPlan, AuditType, process, history
  <2>3. Callers' /\ Fresh'
    BY <1>2, <1>3, <2>1 DEF NewPlan, Callers, Fresh
  <2>4. Passed'
    BY <1>2, <1>3, LoopEnds DEF NewPlan, Passed
  <2>5. Announcing' /\ Known'
    BY <1>2, <1>3 DEF NewPlan, Announcing, Known, history
  <2> QED
    BY <1>1, <2>2, <2>3, <2>4, <2>5 DEF IInv
<1>4. CASE Pass
  <2>1. at <= Len(Order) /\ Token \in Tokens /\ pc = "audit" /\ pc' = "audit" /\ at' = at + 1
    BY <1>2, <1>4, TokenFacts DEF Pass
  <2>2. /\ UNCHANGED <<deliveries, calls, process, plan, changes, reports, faults, heard, unsaved>>
        /\ saved' = [saved EXCEPT ![Token] = plan[Token]]
        /\ \/ saved[Token] = plan[Token]
           \/ plan[Token] \notin Actions /\ saved[Token] \notin Actions
    BY <1>2, <1>4, <2>1
    DEF Pass, mail, counters, history, setDecisionAlertState, shouldNotify, AuditType
  <2>3. AuditType'
    BY <1>2, <2>1, <2>2, LoopFacts DEF AuditType, process
  <2>4. Callers' /\ Announcing'
    BY <1>2, <2>1, <2>2 DEF Callers, Announcing
  <2>5. Passed'
    BY <1>2, <2>1, <2>2, LoopFacts DEF Passed, AuditType, Token
  <2>6. Fresh' /\ Known'
    BY <1>2, <2>1, <2>2 DEF Fresh, Known, AuditType
  <2> QED
    BY <1>1, <2>3, <2>4, <2>5, <2>6 DEF IInv
<1>5. CASE Announce
  <2>1. at <= Len(Order) /\ Token \in Tokens /\ pc = "audit" /\ pc' = "announcing"
    BY <1>2, <1>5, TokenFacts DEF Announce
  <2>2. /\ UNCHANGED <<process, plan, at, saved, changes, reports, faults, heard, unsaved>>
        /\ Token' = Token /\ saved[Token] # plan[Token] /\ shouldNotify(Token)
    BY <1>5 DEF Announce, counters, history, Token
  <2>3. /\ deliveries' = deliveries
        /\ calls'["cycle"].key = Token /\ calls'["cycle"].phase = "posted"
        /\ \A other \in Senders \ {"cycle"} : calls'[other] = calls[other]
    <3>1. Token \notin deliveries
      BY <1>2, <2>1, <2>2 DEF Fresh
    <3> QED
      BY <1>2, <1>5, <2>1, <3>1, Effects DEF Announce
  <2>4. AuditType' /\ Passed' /\ Known'
    BY <1>2, <2>1, <2>2 DEF AuditType, Passed, Known, process
  <2>5. Callers'
    BY <1>2, <2>1, <2>2, <2>3, AuditAssumption DEF Callers
  <2>6. Fresh'
    BY <1>2, <2>1, <2>2, <2>3 DEF Fresh
  <2>7. Announcing'
    BY <2>2, <2>3 DEF Announcing, shouldNotify
  <2> QED
    BY <1>1, <2>4, <2>5, <2>6, <2>7 DEF IInv
<1>6. CASE Save
  <2>1. /\ pc = "announcing" /\ pc' = "audit" /\ at' = at + 1
        /\ calls["cycle"].phase = "ok"
        /\ saved' = [saved EXCEPT ![Token] = plan[Token]]
        /\ unsaved' = unsaved \ {Token}
        /\ UNCHANGED <<process, plan, changes, reports, faults, heard>>
    BY <1>6 DEF Save, setDecisionAlertState, counters
  <2>2. at <= Len(Order) /\ Token \in Tokens /\ heard[Token] = plan[Token]
    BY <1>2, <2>1, TokenFacts DEF Callers, Announcing
  <2>3. /\ calls'["cycle"].phase = "idle" /\ deliveries' = deliveries
        /\ \A other \in Senders \ {"cycle"} : calls'[other] = calls[other]
    BY <1>2, <1>6, Effects DEF Save
  <2>4. AuditType'
    BY <1>2, <2>1, <2>2, LoopFacts DEF AuditType, process
  <2>5. Callers' /\ Announcing'
    BY <1>2, <2>1, <2>3, AuditAssumption DEF Callers, Announcing
  <2>6. Passed'
    BY <1>2, <2>1, <2>2, LoopFacts DEF Passed, AuditType, Token
  <2>7. Fresh' /\ Known'
    BY <1>2, <2>1, <2>2, <2>3 DEF Fresh, Known, AuditType
  <2> QED
    BY <1>1, <2>4, <2>5, <2>6, <2>7 DEF IInv
<1>7. CASE AuditFails \/ ArmReturns
  <2>1. /\ pc' \in {"arming", "idle"} /\ at' = 1
        /\ first' \in BOOLEAN /\ armed' \in BOOLEAN
        /\ UNCHANGED <<mode, plan, saved, changes, reports, faults, heard, unsaved>>
    BY <1>2, <1>7 DEF AuditFails, ArmReturns, Return, counters, history, AuditType, Passed
  <2>2. /\ calls'["cycle"].phase = "idle"
        /\ \A other \in Senders \ {"cycle"} : calls'[other] = calls[other]
    BY <1>2, <1>7, Effects DEF AuditFails, ArmReturns
  <2>3. Callers'
    BY <1>2, <2>1, <2>2, AuditAssumption DEF Callers
  <2> QED
    BY <1>1, <1>2, <2>1, <2>3, LoopEnds DEF IInv, AuditType, Passed, Fresh, Announcing, Known
<1>8. CASE ArmForAudit
  <2>1. /\ pc = "arming"
        /\ UNCHANGED <<mode, first, armed, pc, plan, at, saved, changes, reports, faults,
                       heard, unsaved>>
    BY <1>8 DEF ArmForAudit, process, counters, history
  <2>2. /\ calls'["cycle"].key \in Reasons
        /\ \A other \in Senders \ {"cycle"} : calls'[other] = calls[other]
    BY <1>2, <1>8, Effects DEF ArmForAudit
  <2>3. Callers'
    BY <1>2, <2>1, <2>2, AuditAssumption DEF Callers
  <2> QED
    BY <1>1, <1>2, <2>1, <2>3 DEF IInv, AuditType, Passed, Fresh, Announcing, Known
<1>9. CASE AuditEnds \/ CycleEnds
  <2>1. /\ pc \in {"audit", "trade"} /\ pc' \in {"trade", "idle", "hung"} /\ at' = 1
        /\ first' \in BOOLEAN /\ armed' = armed
        /\ UNCHANGED <<deliveries, calls, mode, plan, saved, changes, reports, faults,
                       heard, unsaved>>
    BY <1>2, <1>9 DEF AuditEnds, CycleEnds, Return, Throw, mail, process, counters, history,
                      AuditType, Passed
  <2>2. pc' = "trade" => \A t \in Tokens : saved[t] = plan[t]
    <3>1. pc' = "trade" => pc = "audit" /\ \A i \in 1..Len(Order) : i \in 1..(at - 1)
      BY <1>2, <1>9, LoopEnds DEF AuditEnds, CycleEnds, Return, Throw
    <3>2. pc' = "trade" => \A i \in 1..Len(Order) : saved[Order[i]] = plan[Order[i]]
      BY <1>2, <3>1 DEF Passed
    <3> SUFFICES ASSUME pc' = "trade", NEW t \in Tokens PROVE saved[t] = plan[t]
      OBVIOUS
    <3>3. PICK i \in 1..Len(Order) : t = Order[i]
      BY OrderFacts
    <3>4. saved[Order[i]] = plan[Order[i]]
      BY <3>2
    <3> QED
      BY <3>3, <3>4
  <2> QED
    BY <1>1, <1>2, <2>1, <2>2, LoopEnds
    DEF IInv, AuditType, Callers, Passed, Fresh, Announcing, Known
<1>10. ASSUME NEW h \in Handlers, HandlerArms(h) \/ HandlerReturns(h) PROVE IInv'
  <2>1. /\ UNCHANGED <<deliveries, mode, pc, plan, at, saved, changes, faults, heard, unsaved>>
        /\ reports' \in 0..MaxReports /\ first' = first /\ armed' \in BOOLEAN
        /\ calls'[h].phase = "idle" \/ calls'[h].key \in Reasons
        /\ \A other \in Senders \ {h} : calls'[other] = calls[other]
    BY <1>2, <1>10, Effects, CounterFacts
    DEF HandlerArms, HandlerReturns, audit, process, counters, history, AuditType
  <2>2. calls'["cycle"] = calls["cycle"]
    BY <2>1, AuditAssumption
  <2>3. Callers'
    BY <1>2, <2>1, <2>2 DEF Callers, Token
  <2>4. Fresh' /\ Announcing'
    BY <1>2, <2>1, <2>2 DEF Fresh, Announcing, Token, shouldNotify
  <2> QED
    BY <1>1, <1>2, <2>1, <2>3, <2>4 DEF IInv, AuditType, Passed, Known
<1>11. ASSUME NEW s \in Senders, Shown(s) \/ Answered(s) \/ AlertFails(s) PROVE IInv'
  <2>1. /\ UNCHANGED <<mode, first, armed, pc, plan, at, saved, changes, reports>>
        /\ faults' \in 0..MaxFaults /\ Token' = Token
    BY <1>2, <1>11, CounterFacts
    DEF Shown, Answered, AlertFails, Fault, audit, process, counters, AuditType, Token
  <2>2. /\ calls[s].phase \in {"posted", "taken"}
        /\ calls'[s].key = calls[s].key
        /\ calls'[s].phase \in {"taken", "ok", "failed"}
        /\ \A other \in Senders \ {s} : calls'[other] = calls[other]
    BY <1>2, <1>11, Effects DEF Shown, Answered, AlertFails
  <2>3. Callers'
    BY <1>2, <2>1, <2>2, AuditAssumption DEF Callers
  <2>4. calls[s].key \in Tokens => s = "cycle" /\ pc = "announcing" /\ calls[s].key = Token
    BY <1>2, <2>2 DEF Callers, Senders, AuditType
  <2>5. CASE Shown(s)
    <3>1. /\ calls'[s].phase = "taken" /\ deliveries' = deliveries
      BY <1>2, <2>5, Effects DEF Shown
    <3>2. \/ calls[s].key \notin Tokens /\ UNCHANGED <<heard, unsaved>>
          \/ /\ s = "cycle" /\ pc = "announcing" /\ calls[s].key = Token /\ Token \in Tokens
             /\ heard' = [heard EXCEPT ![Token] = plan[Token]]
             /\ unsaved' = unsaved \cup {Token}
      BY <2>4, <2>5 DEF Shown, history
    <3>3. AuditType' /\ Passed' /\ Known'
      BY <1>2, <2>1, <3>2 DEF AuditType, Passed, Known
    <3>4. Fresh'
      BY <1>2, <2>1, <2>2, <3>1, <3>2 DEF Fresh
    <3>5. Announcing'
      <4> SUFFICES ASSUME pc = "announcing" PROVE Announcing'
        BY <2>1 DEF Announcing
      <4>1. calls["cycle"].key \in Tokens
        BY <1>2, TokenFacts DEF Callers
      <4> QED
        BY <1>2, <2>1, <2>2, <3>2, <4>1 DEF Announcing, AuditType, shouldNotify
    <3> QED
      BY <1>1, <2>3, <3>3, <3>4, <3>5 DEF IInv
  <2>6. CASE Answered(s)
    <3>1. /\ UNCHANGED <<heard, unsaved, faults>> /\ calls[s].phase = "taken"
          /\ calls'[s].phase = "ok" /\ deliveries' = deliveries \cup {calls[s].key}
      BY <1>2, <2>6, Effects DEF Answered, history, counters
    <3>2. Fresh'
      BY <1>2, <2>1, <2>2, <2>4, <3>1 DEF Fresh
    <3>3. Announcing'
      BY <1>2, <2>1, <2>2, <3>1 DEF Announcing, shouldNotify
    <3> QED
      BY <1>1, <1>2, <2>1, <2>3, <3>1, <3>2, <3>3 DEF IInv, AuditType, Passed, Known
  <2>7. CASE AlertFails(s)
    <3>1. /\ UNCHANGED <<heard, unsaved>>
          /\ calls'[s].phase = "failed" /\ deliveries' = deliveries
      BY <1>2, <2>7, Effects DEF AlertFails, history
    <3>2. Fresh' /\ Announcing'
      BY <1>2, <2>1, <2>2, <3>1 DEF Fresh, Announcing, shouldNotify
    <3> QED
      BY <1>1, <1>2, <2>1, <2>3, <3>1, <3>2 DEF IInv, AuditType, Passed, Known
  <2> QED
    BY <1>11, <2>5, <2>6, <2>7
<1>12. ASSUME NEW k \in Reasons, WindowPasses(k) PROVE IInv'
  <2>1. /\ deliveries' \subseteq deliveries
        /\ UNCHANGED <<calls, mode, first, armed, pc, plan, at, saved, changes, reports, faults,
                       heard, unsaved>>
    BY <1>12 DEF WindowPasses, Mail!Expire, audit, process, counters, history
  <2> QED
    BY <1>1, <1>2, <2>1
    DEF IInv, AuditType, Callers, Passed, Fresh, Announcing, Known, Token, shouldNotify
<1>13. CASE Crash
  <2>1. /\ \A s \in Senders : calls'[s].phase = "idle"
        /\ pc' = "down" /\ first' = TRUE /\ at' = 1 /\ faults' \in 0..MaxFaults
        /\ UNCHANGED <<mode, armed, plan, saved, changes, reports, heard, unsaved>>
    BY <1>2, <1>13, CounterFacts
    DEF Crash, Fault, Mail!LoseCalls, Mail!NoCall, history, AuditType
  <2> QED
    BY <1>1, <1>2, <2>1, LoopEnds
    DEF IInv, AuditType, Callers, Passed, Fresh, Announcing, Known
<1>15. CASE Start \/ RequestFails \/ HungExit
  <2>1. /\ pc \in {"down", "hung", "idle"} /\ pc' \in {"down", "hung", "idle"}
        /\ first' = first /\ armed' \in BOOLEAN /\ faults' \in 0..MaxFaults
        /\ UNCHANGED <<deliveries, calls, mode, plan, at, saved, changes, reports,
                       heard, unsaved>>
    BY <1>2, <1>15, CounterFacts
    DEF Start, RequestFails, HungExit, Throw, Fault, mail, process, counters, history, AuditType
  <2> QED
    BY <1>1, <1>2, <2>1 DEF IInv, AuditType, Callers, Passed, Fresh, Announcing, Known
<1>16. CASE ArmedElsewhere \/ OperatorClears
  <2>1. /\ armed' \in BOOLEAN /\ faults' \in 0..MaxFaults
        /\ UNCHANGED <<deliveries, calls, mode, first, pc, plan, at, saved, changes, reports,
                       heard, unsaved>>
    BY <1>2, <1>16, CounterFacts
    DEF ArmedElsewhere, OperatorClears, Fault, mail, counters, history, AuditType
  <2> QED
    BY <1>1, <1>2, <2>1
    DEF IInv, AuditType, Callers, Passed, Fresh, Announcing, Known, Token, shouldNotify
<1>14. CASE UNCHANGED vars
  BY <1>1, <1>2, <1>14
  DEF vars, mail, audit, process, counters, history,
      IInv, AuditType, Callers, Passed, Fresh, Announcing, Known, Token, shouldNotify
<1> QED
  BY <1>3, <1>4, <1>5, <1>6, <1>7, <1>8, <1>9, <1>10, <1>11, <1>12, <1>13, <1>14,
     <1>15, <1>16
  DEF Next, Cycle

LEMMA Invariance == Spec => []IInv
  BY InitInv, NextInv, PTL DEF Spec

-----------------------------------------------------------------------------
\* The audit, its handlers and the process keep the types of the state.
THEOREM TypeCorrect == Spec => []TypeOK
<1>1. IInv => TypeOK
  BY DEF IInv, AuditType, TypeOK, AlertsInv
<1> QED
  BY <1>1, Invariance, PTL

\* A plan goes on to the trade only after its decisions were heard.
THEOREM HeardBeforeTrade == Spec => []TradedPlanWasHeard
<1>1. IInv => TradedPlanWasHeard
  BY DEF IInv, AuditType, Passed, Known, TradedPlanWasHeard, Decisions
<1> QED
  BY <1>1, Invariance, PTL

\* The audit's use of Alerts is one Alerts allows.
THEOREM ImplementsAlerts == Spec => Mail!AlertsSpec
<1>1. Init => Mail!AlertsInit
  BY DEF Init
<1>2. IInv /\ [Next]_vars => [Mail!AlertsNext]_(Mail!mail)
  BY MailStep DEF IInv
<1> QED
  BY <1>1, <1>2, Invariance, PTL DEF Spec, Mail!AlertsSpec

\* What a send reports as delivered was shown, with the audit and handlers as callers.
THEOREM AuditSuccessTellsTruth == Spec => SuccessWasTold
<1>1. Mail!SuccessWasTold => SuccessWasTold
  BY DEF SuccessWasTold
<1> QED
  BY <1>1, SuccessTellsTruth, ImplementsAlerts, PTL

\* An alert repeats only after a lost answer or beside one under way, with the
\* audit and handlers as callers.
THEOREM AuditRepeatsHaveReasons == Spec => RepeatsAreExplained
<1>1. Mail!RepeatsAreExplained => RepeatsAreExplained
  BY DEF RepeatsAreExplained
<1> QED
  BY <1>1, RepeatsHaveReasons, ImplementsAlerts, PTL

\* An announcement the operator heard last is not repeated unless its save was lost.
THEOREM WordsAreNew == Spec => NoWordTwice
<1>1. IInv /\ [Next]_vars =>
        [\A t \in Tokens \ unsaved : t \in unsaved' => heard[t] # plan[t]]_vars
  <2> SUFFICES ASSUME IInv, Next, NEW t \in Tokens, t \notin unsaved, t \in unsaved'
               PROVE  heard[t] # plan[t]
    BY DEF vars, history
  <2>1. PICK s \in Senders : Shown(s)
    BY DEF Next, Cycle, NewPlan, Pass, Announce, Save, AuditFails, ArmForAudit, ArmReturns,
           AuditEnds, CycleEnds, HandlerArms, HandlerReturns, Answered, AlertFails,
           WindowPasses, Start, RequestFails, HungExit, Crash, ArmedElsewhere, OperatorClears,
           history
  <2>2. calls[s].key = t /\ calls[s].phase = "posted"
    BY <2>1 DEF Shown, history, Mail!Take
  <2>3. s = "cycle" /\ pc = "announcing" /\ t = Token
    BY <2>2, KeyFacts DEF IInv, AuditType, Callers, Senders
  <2> QED
    BY <2>3 DEF IInv, Announcing, Known, shouldNotify
<1> QED
  BY <1>1, Invariance, PTL DEF Spec, NoWordTwice
=============================================================================
