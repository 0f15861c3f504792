----------------------- MODULE ExecutionLedgerProofs -----------------------
(***************************************************************************)
(* Proofs about the execution ledger, for any number of attempts, events,  *)
(* orders and trades and for any set of reports.                           *)
(***************************************************************************)
EXTENDS ExecutionLedger, TLAPS

\* Every status of a report maps to one of the states of a known order.
LEMMA NextStateRange ==
    \A s \in Status : NextState(s) \in Unresolved \cup Terminal
BY DEF Status, NextState, Unresolved, Terminal

\* Only attempts that are still open change their state or their age.
LEMMA TransitionedAreUnresolved ==
    /\ \A u : Transitioned(u) \subseteq {a \in Attempts : state[a] \in Unresolved}
    /\ \A v : Cancelled(v) \subseteq {a \in Attempts : state[a] \in Unresolved}
BY DEF Transitioned, Cancelled, UnresolvedAttempts

LEMMA TypeInit == Init => TypeOK
BY DEF Init, TypeOK

LEMMA TypeStep == TypeOK /\ [Next]_vars => TypeOK'
<1> SUFFICES ASSUME TypeOK, [Next]_vars PROVE TypeOK'
  OBVIOUS
<1> USE DEF TypeOK
<1>1. ASSUME NEW a \in Attempts, NEW e \in Events, beginExecutionAttempt(a, e)
      PROVE  TypeOK'
  BY <1>1 DEF beginExecutionAttempt, Unresolved
<1>2. ASSUME NEW a \in Attempts, NEW o \in Orders, NEW ts \in SUBSET Trades,
             acceptExecutionAttempt(a, o, ts)
      PROVE  TypeOK'
  <2>1. links' \subseteq Attempts \X Trades
    BY <1>2 DEF acceptExecutionAttempt
  <2>2. CASE state[a] = "submitting"
    BY <1>2, <2>1, <2>2 DEF acceptExecutionAttempt, Unresolved
  <2>3. CASE state[a] # "submitting"
    BY <1>2, <2>1, <2>3 DEF acceptExecutionAttempt
  <2>4. QED BY <2>2, <2>3
<1>3. ASSUME NEW a \in Attempts, abortExecutionAttempt(a)
      PROVE  TypeOK'
  BY <1>3 DEF abortExecutionAttempt, Unresolved, Terminal
<1>4. ASSUME NEW u \in TradeReports, recordTradeLifecycle(u)
      PROVE  TypeOK'
  <2>1. u \in TradeReport
    BY LedgerAssumption
  <2>2. u.status \in Status /\ u.trade \in Trades
    BY <2>1 DEF TradeReport
  <2>3. NextState(u.status) \in Unresolved \cup Terminal
    BY <2>2, NextStateRange
  <2>4. state' \in [Attempts -> {"none"} \cup Unresolved \cup Terminal]
    BY <1>4, <2>3 DEF recordTradeLifecycle
  <2>5. links' \subseteq Attempts \X Trades
    BY <1>4, <2>2 DEF recordTradeLifecycle, Linked
  <2>6. stale' \subseteq {a \in Attempts : state'[a] \in Unresolved}
    BY <1>4 DEF recordTradeLifecycle
  <2>7. tradeLog' \subseteq TradeReports
    BY <1>4 DEF recordTradeLifecycle
  <2>8. QED BY <1>4, <2>4, <2>5, <2>6, <2>7 DEF recordTradeLifecycle
<1>5. ASSUME NEW v \in OrderReports, recordUserOrderUpdate(v)
      PROVE  TypeOK'
  <2>1. state' \in [Attempts -> {"none"} \cup Unresolved \cup Terminal]
    BY <1>5 DEF recordUserOrderUpdate, Terminal
  <2>2. stale' \subseteq {a \in Attempts : state'[a] \in Unresolved}
    BY <1>5 DEF recordUserOrderUpdate
  <2>3. QED BY <1>5, <2>1, <2>2 DEF recordUserOrderUpdate
<1>6. ASSUME NEW a \in Attempts, Age(a)
      PROVE  TypeOK'
  BY <1>6 DEF Age, UnresolvedAttempts
<1>7. CASE UNCHANGED vars
  BY <1>7 DEF vars
<1>8. QED BY <1>1, <1>2, <1>3, <1>4, <1>5, <1>6, <1>7 DEF Next

\* Type correctness of the execution tables (database.ts 173-227).
THEOREM TypeCorrect == Spec => []TypeOK
BY TypeInit, TypeStep, PTL DEF Spec

-----------------------------------------------------------------------------
\* No step but begin makes an attempt unresolved, and begin needs the table to
\* hold none: the partial unique index can never be violated by a transition.
LEMMA UnresolvedStep ==
    TypeOK /\ AtMostOneUnresolved /\ [Next]_vars => AtMostOneUnresolved'
<1> SUFFICES ASSUME TypeOK, AtMostOneUnresolved, [Next]_vars
             PROVE  AtMostOneUnresolved'
  OBVIOUS
<1> USE DEF AtMostOneUnresolved, UnresolvedAttempts
<1>1. ASSUME NEW a \in Attempts, NEW e \in Events, beginExecutionAttempt(a, e)
      PROVE  AtMostOneUnresolved'
  BY <1>1 DEF beginExecutionAttempt, TypeOK
<1>2. ASSUME UnresolvedAttempts' \subseteq UnresolvedAttempts
      PROVE  AtMostOneUnresolved'
  BY <1>2
<1>3. ASSUME NEW a \in Attempts, NEW o \in Orders, NEW ts \in SUBSET Trades,
             acceptExecutionAttempt(a, o, ts)
      PROVE  UnresolvedAttempts' \subseteq UnresolvedAttempts
  BY <1>3 DEF acceptExecutionAttempt, TypeOK, Unresolved
<1>4. ASSUME NEW a \in Attempts, abortExecutionAttempt(a)
      PROVE  UnresolvedAttempts' \subseteq UnresolvedAttempts
  BY <1>4 DEF abortExecutionAttempt, TypeOK, Unresolved
<1>5. ASSUME NEW u \in TradeReports, recordTradeLifecycle(u)
      PROVE  UnresolvedAttempts' \subseteq UnresolvedAttempts
  BY <1>5, TransitionedAreUnresolved DEF recordTradeLifecycle
<1>6. ASSUME NEW v \in OrderReports, recordUserOrderUpdate(v)
      PROVE  UnresolvedAttempts' \subseteq UnresolvedAttempts
  BY <1>6, TransitionedAreUnresolved DEF recordUserOrderUpdate
<1>7. ASSUME NEW a \in Attempts, Age(a)
      PROVE  UnresolvedAttempts' \subseteq UnresolvedAttempts
  BY <1>7 DEF Age
<1>8. CASE UNCHANGED vars
  BY <1>8 DEF vars
<1>9. QED BY <1>1, <1>2, <1>3, <1>4, <1>5, <1>6, <1>7, <1>8 DEF Next

\* At most one unresolved live order, whatever the two report sources deliver
\* and in whatever order (database.ts 191-193).
THEOREM OneUnresolved == Spec => []AtMostOneUnresolved
<1>1. Init => AtMostOneUnresolved
  BY DEF Init, AtMostOneUnresolved, UnresolvedAttempts, Unresolved
<1>2. QED BY <1>1, UnresolvedStep, TypeCorrect, PTL DEF Spec

-----------------------------------------------------------------------------
\* The verdicts that rest on a trade report.
ByTrade == {"matched", "mined", "retrying", "confirmed", "failed"}

\* The two halves of VerdictHasEvidence, for one attempt.
TradeEvidence(a) ==
    state[a] \in ByTrade =>
        \E u \in tradeLog : /\ u.event = eventId[a]
                            /\ NextState(u.status) = state[a]
                            /\ <<a, u.trade>> \in links
OrderEvidence(a) ==
    state[a] = "cancelled" =>
        \E v \in orderLog : /\ v.type = "CANCELLATION"
                            /\ v.event = eventId[a]
                            /\ v.order = orderId[a]

LEMMA EvidenceSplit ==
    VerdictHasEvidence <=> \A a \in Attempts : TradeEvidence(a) /\ OrderEvidence(a)
BY DEF VerdictHasEvidence, TradeEvidence, OrderEvidence, ByTrade

\* Evidence is never lost: logs and links only grow, and an attempt that keeps
\* its row keeps its evidence.
LEMMA EvidenceKept ==
    ASSUME NEW a \in Attempts, TradeEvidence(a), OrderEvidence(a),
           tradeLog \subseteq tradeLog', orderLog \subseteq orderLog',
           links \subseteq links', state'[a] = state[a],
           eventId'[a] = eventId[a], orderId'[a] = orderId[a]
    PROVE  TradeEvidence(a)' /\ OrderEvidence(a)'
BY DEF TradeEvidence, OrderEvidence

LEMMA EvidenceStep ==
    TypeOK /\ VerdictHasEvidence /\ [Next]_vars => VerdictHasEvidence'
<1> SUFFICES ASSUME TypeOK, VerdictHasEvidence, [Next]_vars,
                    NEW b \in Attempts
             PROVE  TradeEvidence(b)' /\ OrderEvidence(b)'
  BY DEF VerdictHasEvidence, TradeEvidence, OrderEvidence, ByTrade
<1>0. TradeEvidence(b) /\ OrderEvidence(b)
  BY EvidenceSplit
<1>1. ASSUME NEW a \in Attempts, NEW e \in Events, beginExecutionAttempt(a, e)
      PROVE  TradeEvidence(b)' /\ OrderEvidence(b)'
  <2>1. CASE a = b
    <3>1. state'[b] = "submitting"
      BY <1>1, <2>1 DEF beginExecutionAttempt, TypeOK
    <3>2. QED BY <3>1 DEF TradeEvidence, OrderEvidence, ByTrade
  <2>2. CASE a # b
    BY <1>0, <1>1, <2>2, EvidenceKept DEF beginExecutionAttempt, TypeOK
  <2>3. QED BY <2>1, <2>2
<1>2. ASSUME NEW a \in Attempts, NEW o \in Orders, NEW ts \in SUBSET Trades,
             acceptExecutionAttempt(a, o, ts)
      PROVE  TradeEvidence(b)' /\ OrderEvidence(b)'
  <2>1. CASE a = b /\ state[a] = "submitting"
    <3>1. state'[b] = "accepted"
      BY <1>2, <2>1 DEF acceptExecutionAttempt, TypeOK
    <3>2. QED BY <3>1 DEF TradeEvidence, OrderEvidence, ByTrade
  <2>2. CASE ~(a = b /\ state[a] = "submitting")
    BY <1>0, <1>2, <2>2, EvidenceKept DEF acceptExecutionAttempt, TypeOK
  <2>3. QED BY <2>1, <2>2
<1>3. ASSUME NEW a \in Attempts, abortExecutionAttempt(a)
      PROVE  TradeEvidence(b)' /\ OrderEvidence(b)'
  <2>1. CASE a = b
    <3>1. state'[b] = "aborted"
      BY <1>3, <2>1 DEF abortExecutionAttempt, TypeOK
    <3>2. QED BY <3>1 DEF TradeEvidence, OrderEvidence, ByTrade
  <2>2. CASE a # b
    BY <1>0, <1>3, <2>2, EvidenceKept DEF abortExecutionAttempt, TypeOK
  <2>3. QED BY <2>1, <2>2
<1>4. ASSUME NEW u \in TradeReports, recordTradeLifecycle(u)
      PROVE  TradeEvidence(b)' /\ OrderEvidence(b)'
  <2>1. CASE b \in Transitioned(u)
    <3>1. state'[b] = NextState(u.status) /\ u \in tradeLog'
      BY <1>4, <2>1 DEF recordTradeLifecycle
    <3>2. b \in Linked(u) /\ eventId'[b] = u.event
      BY <1>4, <2>1 DEF recordTradeLifecycle, Transitioned, Linked
    <3>3. <<b, u.trade>> \in links'
      BY <1>4, <3>2 DEF recordTradeLifecycle
    <3>4. u.status \in Status
      BY LedgerAssumption DEF TradeReport
    <3>5. state'[b] # "cancelled"
      BY <3>1, <3>4 DEF NextState, Status
    <3>6. QED BY <3>1, <3>2, <3>3, <3>5 DEF TradeEvidence, OrderEvidence
  <2>2. CASE b \notin Transitioned(u)
    BY <1>0, <1>4, <2>2, EvidenceKept DEF recordTradeLifecycle, TypeOK
  <2>3. QED BY <2>1, <2>2
<1>5. ASSUME NEW v \in OrderReports, recordUserOrderUpdate(v)
      PROVE  TradeEvidence(b)' /\ OrderEvidence(b)'
  <2>1. CASE b \in Cancelled(v)
    <3>1. state'[b] = "cancelled" /\ v \in orderLog'
      BY <1>5, <2>1 DEF recordUserOrderUpdate
    <3>2. v.type = "CANCELLATION" /\ v.event = eventId'[b] /\ v.order = orderId'[b]
      BY <1>5, <2>1 DEF recordUserOrderUpdate, Cancelled
    <3>3. QED BY <3>1, <3>2 DEF TradeEvidence, OrderEvidence, ByTrade
  <2>2. CASE b \notin Cancelled(v)
    BY <1>0, <1>5, <2>2, EvidenceKept DEF recordUserOrderUpdate, TypeOK
  <2>3. QED BY <2>1, <2>2
<1>6. ASSUME NEW a \in Attempts, Age(a)
      PROVE  TradeEvidence(b)' /\ OrderEvidence(b)'
  BY <1>0, <1>6, EvidenceKept DEF Age
<1>7. CASE UNCHANGED vars
  BY <1>0, <1>7, EvidenceKept DEF vars
<1>8. QED BY <1>1, <1>2, <1>3, <1>4, <1>5, <1>6, <1>7 DEF Next

\* Every verdict on a live order rests on a logged report of its own event and
\* trade or order (database.ts 656-785), for any reports whatever.
THEOREM VerdictsHaveEvidence == Spec => []VerdictHasEvidence
<1>1. Init => VerdictHasEvidence
  BY DEF Init, VerdictHasEvidence
<1>2. QED BY <1>1, EvidenceStep, TypeCorrect, PTL DEF Spec

-----------------------------------------------------------------------------
\* What keeps an unanswered submission out of reach of the reports: it has no
\* order id and no linked trade, so that no join finds it.
Blind == \A a \in Attempts :
    state[a] \in {"none", "submitting"} =>
        orderId[a] = NoOrder /\ \A t : <<a, t>> \notin links

LEMMA BlindUnreachable ==
    ASSUME TypeOK, Blind, NEW a \in Attempts,
           state[a] \in {"none", "submitting"}
    PROVE  /\ \A u \in TradeReports : a \notin Linked(u)
           /\ \A v \in OrderReports : a \notin Cancelled(v)
<1>1. orderId[a] = NoOrder /\ \A t : <<a, t>> \notin links
  BY DEF Blind
<1>2. ASSUME NEW u \in TradeReports PROVE a \notin Linked(u)
  <2>1. NoOrder \notin u.orders
    BY LedgerAssumption DEF TradeReport
  <2>2. QED BY <1>1, <2>1 DEF Linked
<1>3. ASSUME NEW v \in OrderReports PROVE a \notin Cancelled(v)
  <2>1. v.order # NoOrder
    BY LedgerAssumption DEF OrderReport
  <2>2. QED BY <1>1, <2>1 DEF Cancelled
<1>4. QED BY <1>2, <1>3

LEMMA BlindStep == TypeOK /\ Blind /\ [Next]_vars => Blind'
<1> SUFFICES ASSUME TypeOK, Blind, [Next]_vars, NEW b \in Attempts,
                    state'[b] \in {"none", "submitting"}
             PROVE  orderId'[b] = NoOrder /\ \A t : <<b, t>> \notin links'
  BY DEF Blind
<1>1. ASSUME NEW a \in Attempts, NEW e \in Events, beginExecutionAttempt(a, e)
      PROVE  orderId'[b] = NoOrder /\ \A t : <<b, t>> \notin links'
  BY <1>1 DEF beginExecutionAttempt, TypeOK, Blind
<1>2. ASSUME NEW a \in Attempts, NEW o \in Orders, NEW ts \in SUBSET Trades,
             acceptExecutionAttempt(a, o, ts)
      PROVE  orderId'[b] = NoOrder /\ \A t : <<b, t>> \notin links'
  <2>1. a # b
    BY <1>2 DEF acceptExecutionAttempt, TypeOK
  <2>2. state[b] \in {"none", "submitting"} /\ orderId'[b] = orderId[b]
    BY <1>2, <2>1 DEF acceptExecutionAttempt, TypeOK
  <2>3. QED BY <1>2, <2>1, <2>2 DEF acceptExecutionAttempt, Blind
<1>3. ASSUME NEW a \in Attempts, abortExecutionAttempt(a)
      PROVE  orderId'[b] = NoOrder /\ \A t : <<b, t>> \notin links'
  BY <1>3 DEF abortExecutionAttempt, TypeOK, Blind
<1>4. ASSUME NEW u \in TradeReports, recordTradeLifecycle(u)
      PROVE  orderId'[b] = NoOrder /\ \A t : <<b, t>> \notin links'
  <2>1. u.status \in Status
    BY LedgerAssumption DEF TradeReport
  <2>2. NextState(u.status) \notin {"none", "submitting"}
    BY <2>1 DEF NextState, Status
  <2>3. state[b] \in {"none", "submitting"}
    BY <1>4, <2>2 DEF recordTradeLifecycle, Transitioned
  <2>4. b \notin Linked(u)
    BY <2>3, BlindUnreachable
  <2>5. QED BY <1>4, <2>3, <2>4 DEF recordTradeLifecycle, Blind
<1>5. ASSUME NEW v \in OrderReports, recordUserOrderUpdate(v)
      PROVE  orderId'[b] = NoOrder /\ \A t : <<b, t>> \notin links'
  BY <1>5 DEF recordUserOrderUpdate, Blind
<1>6. ASSUME NEW a \in Attempts, Age(a)
      PROVE  orderId'[b] = NoOrder /\ \A t : <<b, t>> \notin links'
  BY <1>6 DEF Age, Blind
<1>7. CASE UNCHANGED vars
  BY <1>7 DEF vars, Blind
<1>8. QED BY <1>1, <1>2, <1>3, <1>4, <1>5, <1>6, <1>7 DEF Next

\* With Blind, a step moves a submitting attempt by its receipt or its abort only.
LEMMA SubmittingStep ==
    ASSUME TypeOK, Blind, [Next]_vars,
           NEW b \in Attempts, state[b] = "submitting"
    PROVE  state'[b] \in {"submitting", "accepted", "aborted"}
<1>1. ASSUME NEW a \in Attempts, NEW e \in Events, beginExecutionAttempt(a, e)
      PROVE  state'[b] \in {"submitting", "accepted", "aborted"}
  BY <1>1 DEF beginExecutionAttempt, TypeOK
<1>2. ASSUME NEW a \in Attempts, NEW o \in Orders, NEW ts \in SUBSET Trades,
             acceptExecutionAttempt(a, o, ts)
      PROVE  state'[b] \in {"submitting", "accepted", "aborted"}
  BY <1>2 DEF acceptExecutionAttempt, TypeOK
<1>3. ASSUME NEW a \in Attempts, abortExecutionAttempt(a)
      PROVE  state'[b] \in {"submitting", "accepted", "aborted"}
  BY <1>3 DEF abortExecutionAttempt, TypeOK
<1>4. ASSUME NEW u \in TradeReports, recordTradeLifecycle(u)
      PROVE  state'[b] \in {"submitting", "accepted", "aborted"}
  BY <1>4, BlindUnreachable DEF recordTradeLifecycle, Transitioned
<1>5. ASSUME NEW v \in OrderReports, recordUserOrderUpdate(v)
      PROVE  state'[b] \in {"submitting", "accepted", "aborted"}
  BY <1>5, BlindUnreachable DEF recordUserOrderUpdate
<1>6. ASSUME NEW a \in Attempts, Age(a)
      PROVE  state'[b] \in {"submitting", "accepted", "aborted"}
  BY <1>6 DEF Age
<1>7. CASE UNCHANGED vars
  BY <1>7 DEF vars
<1>8. QED BY <1>1, <1>2, <1>3, <1>4, <1>5, <1>6, <1>7 DEF Next

\* An ambiguous submission stays "submitting" until the exchange answers or the
\* attempt is aborted (database.ts 632-654, 949-957): no report can clear it.
THEOREM SubmissionsNeedAnswer == Spec => SubmittingNeedsAnswer
<1>1. Init => Blind
  BY DEF Init, Blind
<1>2. TypeOK /\ Blind /\ [Next]_vars =>
        [\A a \in Attempts : state[a] = "submitting" =>
             state'[a] \in {"submitting", "accepted", "aborted"}]_vars
  BY SubmittingStep
<1>3. QED BY <1>1, <1>2, BlindStep, TypeCorrect, PTL
          DEF Spec, SubmittingNeedsAnswer

-----------------------------------------------------------------------------
\* One step leaves every terminal attempt as it is.
LEMMA TerminalStep ==
    ASSUME TypeOK, [Next]_vars,
           NEW b \in Attempts, state[b] \in Terminal
    PROVE  state'[b] = state[b]
<1> USE DEF TypeOK, Terminal, Unresolved
<1>1. ASSUME NEW a \in Attempts, NEW e \in Events, beginExecutionAttempt(a, e)
      PROVE  state'[b] = state[b]
  BY <1>1 DEF beginExecutionAttempt
<1>2. ASSUME NEW a \in Attempts, NEW o \in Orders, NEW ts \in SUBSET Trades,
             acceptExecutionAttempt(a, o, ts)
      PROVE  state'[b] = state[b]
  BY <1>2 DEF acceptExecutionAttempt
<1>3. ASSUME NEW a \in Attempts, abortExecutionAttempt(a)
      PROVE  state'[b] = state[b]
  BY <1>3 DEF abortExecutionAttempt
<1>4. ASSUME NEW u \in TradeReports, recordTradeLifecycle(u)
      PROVE  state'[b] = state[b]
  BY <1>4, TransitionedAreUnresolved DEF recordTradeLifecycle
<1>5. ASSUME NEW v \in OrderReports, recordUserOrderUpdate(v)
      PROVE  state'[b] = state[b]
  BY <1>5, TransitionedAreUnresolved DEF recordUserOrderUpdate
<1>6. ASSUME NEW a \in Attempts, Age(a)
      PROVE  state'[b] = state[b]
  BY <1>6 DEF Age
<1>7. CASE UNCHANGED vars
  BY <1>7 DEF vars
<1>8. QED BY <1>1, <1>2, <1>3, <1>4, <1>5, <1>6, <1>7 DEF Next

\* A verdict is never revised by a later report (the state conditions of the
\* UPDATEs at database.ts 643, 717, 779 and 954).
THEOREM VerdictsAreFinal == Spec => TerminalIsFinal
<1>1. TypeOK /\ [Next]_vars =>
        [\A a \in Attempts : state[a] \in Terminal => state'[a] = state[a]]_vars
  BY TerminalStep
<1>2. QED BY <1>1, TypeCorrect, PTL DEF Spec, TerminalIsFinal

\* A step that refreshes an attempt without moving it logs a new trade report.
LEMMA RefreshStep ==
    ASSUME TypeOK, [Next]_vars, NEW b \in Attempts,
           b \in stale, b \notin stale', state'[b] = state[b]
    PROVE  \E u \in TradeReports : u \in tradeLog' \ tradeLog
                                   /\ NextState(u.status) = state[b]
<1>0. state[b] \in Unresolved
  BY DEF TypeOK
<1>1. ASSUME NEW a \in Attempts, NEW e \in Events, beginExecutionAttempt(a, e)
      PROVE  FALSE
  BY <1>1 DEF beginExecutionAttempt
<1>2. ASSUME NEW a \in Attempts, NEW o \in Orders, NEW ts \in SUBSET Trades,
             acceptExecutionAttempt(a, o, ts)
      PROVE  FALSE
  BY <1>2 DEF acceptExecutionAttempt, TypeOK
<1>3. ASSUME NEW a \in Attempts, abortExecutionAttempt(a)
      PROVE  FALSE
  BY <1>3 DEF abortExecutionAttempt, TypeOK
<1>4. ASSUME NEW u \in TradeReports, recordTradeLifecycle(u)
      PROVE  u \in tradeLog' \ tradeLog /\ NextState(u.status) = state[b]
  <2>1. b \in Transitioned(u)
    BY <1>4 DEF recordTradeLifecycle
  <2>2. u \notin tradeLog
    BY <2>1 DEF Transitioned, Linked
  <2>3. QED BY <1>4, <2>1, <2>2 DEF recordTradeLifecycle, TypeOK
<1>5. ASSUME NEW v \in OrderReports, recordUserOrderUpdate(v)
      PROVE  FALSE
  BY <1>0, <1>5 DEF recordUserOrderUpdate, TypeOK, Unresolved
<1>6. ASSUME NEW a \in Attempts, Age(a)
      PROVE  FALSE
  BY <1>6 DEF Age
<1>7. ASSUME UNCHANGED vars PROVE FALSE
  BY <1>7 DEF vars
<1>8. QED BY <1>1, <1>2, <1>3, <1>4, <1>5, <1>6, <1>7 DEF Next

\* The poll repeats every trade each cycle; only a report with a new fingerprint
\* puts the terminal timeout off (database.ts 690-692, 706-720).
THEOREM RepeatsNeverRefresh == Spec => RepeatsDoNotRefresh
<1>1. TypeOK /\ [Next]_vars =>
        [\A a \in Attempts :
             a \in stale /\ a \notin stale' /\ state'[a] = state[a] =>
                 \E u \in TradeReports : u \in tradeLog' \ tradeLog
                                         /\ NextState(u.status) = state[a]]_vars
  BY RefreshStep
<1>2. QED BY <1>1, TypeCorrect, PTL DEF Spec, RepeatsDoNotRefresh
=============================================================================
