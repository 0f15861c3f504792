------------------------- MODULE LiveTradingProofs -------------------------
(***************************************************************************)
(* Proofs about the live mode, for any number of attempts, fills, Events   *)
(* and faults.  The argument is about the pair of tables and exchange: the *)
(* actions do eleven different things to it, or none (Moves), and most of  *)
(* the invariants only ask which.  What the tables do by themselves is     *)
(* taken from ExecutionLedgerProofs.                                       *)
(***************************************************************************)
EXTENDS LiveTrading, TLAPS

\* The theorems about the ledger, for the reports of the live mode.
Facts == INSTANCE ExecutionLedgerProofs WITH
    Events <- EventIds, Orders <- Attempts, Origins <- {"stream", "poll"},
    Fills <- {0}, NoOrder <- 0, NoEvent <- 0,
    TradeReports <- {[event |-> e, trade |-> t, status |-> s,
                      orders |-> {t[1]}, origin |-> o] :
                        e \in EventIds, t \in Trades,
                        s \in {"MATCHED", "CONFIRMED", "FAILED"},
                        o \in {"stream", "poll"}},
    OrderReports <- {[event |-> e, order |-> a, type |-> "CANCELLATION",
                      fill |-> 0] : e \in EventIds, a \in Attempts}

LEMMA Numbers ==
    /\ 0 \notin Attempts /\ 0 \notin EventIds
    /\ \A a \in Attempts : <<a, 1>> \in Trades
    /\ \A t \in Trades : t[1] \in Attempts
    /\ \A a \in Attempts, i \in 1..Fills : <<a, i>> \in Trades /\ <<a, i>>[1] = a
    /\ \A t \in Trades : \E i \in 1..Fills : t = <<t[1], i>>
BY LiveAssumption DEF Attempts, EventIds, Trades

LEMMA ReportsAreReports == Facts!LedgerAssumption
BY Numbers DEF Facts!LedgerAssumption, Facts!TradeReport, Facts!OrderReport,
               Facts!Status, Facts!OrderType

-----------------------------------------------------------------------------
\* The two instances of the ledger are one.
LEMMA SameStates ==
    /\ Facts!TypeOK <=> Ledger!TypeOK
    /\ Facts!AtMostOneUnresolved <=> Ledger!AtMostOneUnresolved
BY DEF Facts!TypeOK, Ledger!TypeOK, Facts!Unresolved, Ledger!Unresolved,
       Facts!Terminal, Ledger!Terminal,
       Facts!AtMostOneUnresolved, Ledger!AtMostOneUnresolved,
       Facts!UnresolvedAttempts, Ledger!UnresolvedAttempts

LEMMA SameSteps == [Facts!Next]_(Facts!vars) <=> [Ledger!Next]_(Ledger!vars)
<1> USE DEF Facts!UnresolvedAttempts, Ledger!UnresolvedAttempts,
            Facts!Unresolved, Ledger!Unresolved
<1>1. ASSUME NEW a, NEW e
      PROVE  Facts!beginExecutionAttempt(a, e) <=> Ledger!beginExecutionAttempt(a, e)
  BY DEF Facts!beginExecutionAttempt, Ledger!beginExecutionAttempt
<1>2. ASSUME NEW a, NEW o, NEW ts
      PROVE  Facts!acceptExecutionAttempt(a, o, ts)
                <=> Ledger!acceptExecutionAttempt(a, o, ts)
  BY DEF Facts!acceptExecutionAttempt, Ledger!acceptExecutionAttempt
<1>3. ASSUME NEW a
      PROVE  Facts!abortExecutionAttempt(a) <=> Ledger!abortExecutionAttempt(a)
  BY DEF Facts!abortExecutionAttempt, Ledger!abortExecutionAttempt
<1>4. ASSUME NEW u
      PROVE  Facts!recordTradeLifecycle(u) <=> Ledger!recordTradeLifecycle(u)
  BY DEF Facts!recordTradeLifecycle, Ledger!recordTradeLifecycle,
         Facts!Linked, Ledger!Linked, Facts!Transitioned, Ledger!Transitioned,
         Facts!NextState, Ledger!NextState
<1>5. ASSUME NEW v
      PROVE  Facts!recordUserOrderUpdate(v) <=> Ledger!recordUserOrderUpdate(v)
  BY DEF Facts!recordUserOrderUpdate, Ledger!recordUserOrderUpdate,
         Facts!Cancelled, Ledger!Cancelled
<1>6. ASSUME NEW a PROVE Facts!Age(a) <=> Ledger!Age(a)
  BY DEF Facts!Age, Ledger!Age
<1>7. QED
  BY <1>1, <1>2, <1>3, <1>4, <1>5, <1>6
     DEF Facts!Next, Ledger!Next, Facts!vars, Ledger!vars

\* What ExecutionLedgerProofs says of one step.
LEMMA LedgerKeeps ==
    ASSUME Ledger!TypeOK, Ledger!AtMostOneUnresolved, [Ledger!Next]_(Ledger!vars)
    PROVE  /\ Ledger!TypeOK'
           /\ Ledger!AtMostOneUnresolved'
           /\ \A a \in Attempts : state[a] \in Ledger!Terminal => state'[a] = state[a]
<1>1. Facts!TypeOK /\ Facts!AtMostOneUnresolved /\ [Facts!Next]_(Facts!vars)
  BY SameStates, SameSteps
<1>2. Facts!TypeOK' /\ Facts!AtMostOneUnresolved'
  BY <1>1, ReportsAreReports, Facts!TypeStep, Facts!UnresolvedStep
<1>3. \A a \in Attempts : state[a] \in Facts!Terminal => state'[a] = state[a]
  BY <1>1, ReportsAreReports, Facts!TerminalStep
<1>4. /\ (Facts!TypeOK <=> Ledger!TypeOK)'
      /\ (Facts!AtMostOneUnresolved <=> Ledger!AtMostOneUnresolved)'
  BY SameStates, PTL
<1>5. QED
  BY <1>2, <1>3, <1>4 DEF Facts!Terminal, Ledger!Terminal

-----------------------------------------------------------------------------
\* States of a row that no receipt has reached.
NoAnswer == {"none", "submitting", "aborted"}

\* An order goes out for a row that stays; a trade is one of a live order.
Sent ==
    /\ \A a \in requests : state[a] \notin {"none", "aborted"}
    /\ \A t \in Trades : trade[t] # "none" => t[1] \in placed \ cancelled

\* A row has its Event, and from its receipt on its own order and trades; one row
\* is unresolved at most.
Rows ==
    /\ Ledger!AtMostOneUnresolved
    /\ \A a \in Attempts : state[a] # "none" => eventId[a] \in EventIds
    /\ \A a \in Attempts : orderId[a] = IF state[a] \in NoAnswer THEN 0 ELSE a
    /\ \A a \in Attempts, t \in Trades :
           <<a, t>> \in links => t[1] = a /\ state[a] \notin NoAnswer

\* A polled report is one the exchange made: final, or MATCHED and perhaps old.
Polled ==
    \A u \in todo : \E t \in Trades :
        /\ trade[t] # "none"
        /\ \E s \in {"MATCHED", trade[t]} : u = TradeReport(t, s, "poll")

\* The attempt of the cycle is there from its intent to its receipt, and its
\* order goes out in between.
Pending ==
    pc \in {"intent", "posting"} =>
        \E a \in Attempts : state[a] = "submitting" /\ (pc = "posting" <=> a \in requests)

Core == TypeOK /\ Sent /\ Rows /\ Polled /\ Pending

-----------------------------------------------------------------------------
Own(a) == {t \in Trades : t[1] = a}

\* What a step does to the tables ...
Reported(t, s, origin) ==
    /\ trade[t] # "none" /\ s \in {"MATCHED", trade[t]}
    /\ eventId[t[1]] \in EventIds
    /\ Ledger!recordTradeLifecycle(TradeReport(t, s, origin))
    /\ UNCHANGED exchange
Opened(a) ==
    /\ state[a] = "none" /\ pc = "preflight" /\ pc' = "intent"
    /\ Ledger!beginExecutionAttempt(a, event)
    /\ UNCHANGED exchange
Accepted(a, ts) ==
    /\ pc = "posting" /\ pc' = "alertAccepted" /\ state[a] = "submitting"
    /\ Ledger!acceptExecutionAttempt(a, a, ts)
    /\ UNCHANGED exchange
Aborted(a) ==
    /\ pc = "intent" /\ pc' = "armIntent" /\ a \notin requests
    /\ Ledger!abortExecutionAttempt(a)
    /\ UNCHANGED exchange
SeenCancelled(a) ==
    /\ a \in cancelled /\ eventId[a] \in EventIds
    /\ Ledger!recordUserOrderUpdate(Cancellation(a))
    /\ UNCHANGED exchange
Aged(a) == Ledger!Age(a) /\ UNCHANGED exchange

\* ... and to the exchange.
Requested(a) ==
    /\ pc = "intent" /\ pc' = "posting"
    /\ state[a] = "submitting" /\ a \notin requests
    /\ requests' = requests \cup {a}
    /\ UNCHANGED <<tables, placed, cancelled, trade>>
Taken(a) ==
    /\ a \in requests \ placed /\ placed' = placed \cup {a}
    /\ UNCHANGED <<tables, requests, cancelled, trade>>
Matched(a) ==
    /\ a \in placed \ cancelled /\ Unmatched(a)
    /\ trade' = [t \in Trades |-> IF t[1] = a THEN "MATCHED" ELSE trade[t]]
    /\ UNCHANGED <<tables, requests, placed, cancelled>>
Withdrawn(a) ==
    /\ a \in placed \ cancelled /\ Unmatched(a) /\ cancelled' = cancelled \cup {a}
    /\ UNCHANGED <<tables, requests, placed, trade>>
Finished(t, s) ==
    /\ trade[t] = "MATCHED" /\ trade' = [trade EXCEPT ![t] = s]
    /\ UNCHANGED <<tables, requests, placed, cancelled>>

Moves ==
    \/ UNCHANGED <<tables, exchange>>
    \/ \E t \in Trades, s \in {"MATCHED", "CONFIRMED", "FAILED"},
          origin \in {"stream", "poll"} : Reported(t, s, origin)
    \/ \E a \in Attempts :
          \/ Opened(a) \/ Aborted(a) \/ SeenCancelled(a) \/ Aged(a)
          \/ \E ts \in SUBSET Own(a) : Accepted(a, ts)
          \/ Requested(a) \/ Taken(a) \/ Matched(a) \/ Withdrawn(a)
    \/ \E t \in Trades, s \in {"CONFIRMED", "FAILED"} : Finished(t, s)

\* The attempt that Current chooses is the one that is pending.
LEMMA CurrentIsPending ==
    ASSUME Core, pc \in {"intent", "posting"}
    PROVE  /\ Current \in Attempts /\ state[Current] = "submitting"
           /\ pc = "posting" <=> Current \in requests
<1>1. PICK a \in Attempts : state[a] = "submitting" /\ (pc = "posting" <=> a \in requests)
  BY DEF Core, Pending
<1>2. Current \in Attempts /\ state[Current] = "submitting"
  BY <1>1 DEF Current
<1>3. Current = a
  BY <1>1, <1>2 DEF Core, Rows, Ledger!AtMostOneUnresolved, Ledger!UnresolvedAttempts,
                    Ledger!Unresolved
<1>4. QED
  BY <1>1, <1>2, <1>3

LEMMA StepMoves == Core /\ [Next]_vars => Moves
<1> SUFFICES ASSUME Core, [Next]_vars PROVE Moves
  OBVIOUS
<1> USE DEF Moves
<1>1. CASE \/ Start \/ HungExit \/ StartCycle \/ FetchTrades \/ ConfirmedAlert
           \/ ArmForFailedTrade \/ ArmReturns \/ Compare \/ Audit \/ Gate \/ GateAttempts
           \/ ArmForIntent \/ AcceptedAlert \/ HandlerArms \/ Connect \/ Outage \/ Drop
           \/ GoSilent \/ HandlerFails \/ HttpFails \/ Crash \/ OperatorArms
           \/ OperatorClears \/ UNCHANGED vars
  BY <1>1 DEF Start, HungExit, StartCycle, FetchTrades, ConfirmedAlert,
       ArmForFailedTrade, ArmReturns, Compare, Audit, Gate, GateAttempts, ArmForIntent,
       AcceptedAlert, HandlerArms, Connect, Outage, Drop, GoSilent, HandlerFails,
       HttpFails, Crash, OperatorArms, OperatorClears, vars, exchange
<1>2. CASE RecordTrade
  <2>1. PICK u \in todo : Ledger!recordTradeLifecycle(u)
    BY <1>2 DEF RecordTrade
  <2>2. PICK t \in Trades, s \in {"MATCHED", "CONFIRMED", "FAILED"} :
            /\ trade[t] # "none" /\ s \in {"MATCHED", trade[t]}
            /\ u = TradeReport(t, s, "poll")
    BY DEF Core, Polled, TypeOK
  <2>3. eventId[t[1]] \in EventIds
    BY <2>2, Numbers DEF Core, TypeOK, Sent, Rows
  <2>4. Reported(t, s, "poll")
    BY <1>2, <2>1, <2>2, <2>3 DEF RecordTrade, Reported
  <2>5. QED
    BY <2>4
<1>3. CASE HandleTrade
  <2>1. PICK t \in Trades, s \in {"MATCHED", "CONFIRMED", "FAILED"} :
            /\ trade[t] # "none" /\ s \in {"MATCHED", trade[t]} /\ eventId[t[1]] = event
            /\ Ledger!recordTradeLifecycle(TradeReport(t, s, "stream"))
    BY <1>3 DEF HandleTrade, Core, TypeOK
  <2>2. event \in EventIds
    BY DEF Core, TypeOK
  <2>3. Reported(t, s, "stream")
    BY <1>3, <2>1, <2>2 DEF HandleTrade, Reported
  <2>4. QED
    BY <2>3
<1>4. CASE Preflight
  BY <1>4 DEF Preflight, Opened, exchange, Ledger!beginExecutionAttempt
<1>5. CASE Intent
  <2>1. /\ Current \in Attempts /\ state[Current] = "submitting"
        /\ Current \notin requests
    BY <1>5, CurrentIsPending DEF Intent
  <2>2. Requested(Current) \/ Aborted(Current)
    BY <1>5, <2>1 DEF Intent, Requested, Aborted, exchange
  <2>3. QED
    BY <2>1, <2>2
<1>6. CASE Receipt
  <2>1. Current \in Attempts /\ state[Current] = "submitting"
    BY <1>6, CurrentIsPending DEF Receipt
  <2>2. \/ UNCHANGED <<tables, exchange>>
        \/ \E ts \in SUBSET Own(Current) : Accepted(Current, ts)
    BY <1>6, <2>1 DEF Receipt, Accepted, Own
  <2>3. QED
    BY <2>1, <2>2
<1>7. CASE HandleCancellation
  <2>1. PICK a \in cancelled :
            eventId[a] = event /\ Ledger!recordUserOrderUpdate(Cancellation(a))
    BY <1>7 DEF HandleCancellation
  <2>2. a \in Attempts /\ event \in EventIds
    BY DEF Core, TypeOK
  <2>3. SeenCancelled(a)
    BY <1>7, <2>1, <2>2 DEF HandleCancellation, SeenCancelled
  <2>4. QED
    BY <2>2, <2>3
<1>8. CASE Timeout
  BY <1>8 DEF Timeout, Aged
<1>9. CASE Place \/ Match \/ CancelOrder \/ SettleTrade
  <2>1. requests \subseteq Attempts /\ placed \subseteq Attempts
    BY DEF Core, TypeOK
  <2>2. QED
    BY <1>9, <2>1 DEF Place, Match, CancelOrder, SettleTrade, Taken, Matched, Withdrawn,
                      Finished
<1>10. QED
  BY <1>1, <1>2, <1>3, <1>4, <1>5, <1>6, <1>7, <1>8, <1>9
     DEF Next, Cycle, Stream, Environment

-----------------------------------------------------------------------------
\* Every move of the tables is one of the ledger's.
LEMMA MovesAreLedgerSteps == Core /\ Moves => [Ledger!Next]_(Ledger!vars)
<1> SUFFICES ASSUME Core, Moves PROVE [Ledger!Next]_(Ledger!vars)
  OBVIOUS
<1> USE DEF Ledger!Next
<1>1. CASE UNCHANGED tables
  BY <1>1 DEF tables, Ledger!vars
<1>2. ASSUME NEW t \in Trades, NEW s \in {"MATCHED", "CONFIRMED", "FAILED"},
             NEW origin \in {"stream", "poll"}, Reported(t, s, origin)
      PROVE  Ledger!Next
  BY <1>2 DEF Reported, TradeReport
<1>3. ASSUME NEW a \in Attempts,
             Opened(a) \/ Aborted(a) \/ SeenCancelled(a) \/ Aged(a)
                \/ \E ts \in SUBSET Own(a) : Accepted(a, ts)
      PROVE  Ledger!Next
  BY <1>3 DEF Own, Core, TypeOK, Opened, Aborted, SeenCancelled, Aged, Accepted, Cancellation
<1>4. ASSUME NEW a \in Attempts,
             Requested(a) \/ Taken(a) \/ Matched(a) \/ Withdrawn(a)
      PROVE  UNCHANGED tables
  BY <1>4 DEF Requested, Taken, Matched, Withdrawn
<1>5. ASSUME NEW t \in Trades, NEW s \in {"CONFIRMED", "FAILED"}, Finished(t, s)
      PROVE  UNCHANGED tables
  BY <1>5 DEF Finished
<1>6. QED
  BY <1>1, <1>2, <1>3, <1>4, <1>5 DEF Moves

\* A report is about the attempt of its trade, once that has its receipt.
LEMMA LinkedIsOwn ==
    ASSUME Core, NEW t \in Trades, NEW s, NEW origin,
           NEW a \in Ledger!Linked(TradeReport(t, s, origin))
    PROVE  a = t[1] /\ a \in Attempts /\ state[a] \notin NoAnswer
<1>1. /\ a \in Attempts
      /\ orderId[a] = t[1] \/ <<a, t>> \in links
  BY DEF Ledger!Linked, TradeReport
<1>2. t[1] # 0
  BY Numbers
<1>3. QED
  BY <1>1, <1>2 DEF Core, Rows

\* What a report changes: at most the row of its attempt, to what it says.
LEMMA ReportMoves ==
    ASSUME Core, NEW t \in Trades, NEW s \in {"MATCHED", "CONFIRMED", "FAILED"},
           NEW origin \in {"stream", "poll"}, Reported(t, s, origin)
    PROVE  /\ UNCHANGED <<eventId, orderId, orderLog, exchange>>
           /\ tradeLog' = tradeLog \cup {TradeReport(t, s, origin)}
           /\ \A a \in Attempts :
                 \/ state'[a] = state[a]
                 \/ /\ a = t[1] /\ state[a] \notin NoAnswer
                    /\ state'[a] = [MATCHED |-> "matched", CONFIRMED |-> "confirmed",
                                    FAILED |-> "failed"][s]
           /\ \A a \in Attempts, x \in Trades :
                 <<a, x>> \in links' =>
                     <<a, x>> \in links \/ (a = t[1] /\ x = t /\ state[a] \notin NoAnswer)
<1> DEFINE u == TradeReport(t, s, origin)
<1>1. /\ tradeLog' = tradeLog \cup {u}
      /\ links' = links \cup (Ledger!Linked(u) \X {t})
      /\ state' = [a \in Attempts |-> IF a \in Ledger!Transitioned(u)
                                      THEN Ledger!NextState(s) ELSE state[a]]
      /\ UNCHANGED <<eventId, orderId, orderLog, exchange>>
  BY DEF Reported, Ledger!recordTradeLifecycle, TradeReport
<1>2. Ledger!NextState(s) = [MATCHED |-> "matched", CONFIRMED |-> "confirmed",
                             FAILED |-> "failed"][s]
  BY DEF Ledger!NextState
<1>3. \A a \in Ledger!Linked(u) : a = t[1] /\ a \in Attempts /\ state[a] \notin NoAnswer
  BY LinkedIsOwn
<1>4. Ledger!Transitioned(u) \subseteq Ledger!Linked(u)
  BY DEF Ledger!Transitioned
<1> HIDE DEF u
<1>5. QED
  BY <1>1, <1>2, <1>3, <1>4 DEF u

\* What a cancellation changes: at most the row of its order.
LEMMA CancellationMoves ==
    ASSUME Core, NEW a \in Attempts, SeenCancelled(a)
    PROVE  /\ UNCHANGED <<eventId, orderId, links, tradeLog, exchange>>
           /\ \A b \in Attempts :
                 \/ state'[b] = state[b]
                 \/ /\ b = a /\ state[b] \notin NoAnswer
                    /\ state'[b] = "cancelled"
<1>1. \A b \in Ledger!Cancelled(Cancellation(a)) : orderId[b] = a /\ b \in Attempts
  BY DEF Ledger!Cancelled, Cancellation, Ledger!UnresolvedAttempts
<1>2. \A b \in Ledger!Cancelled(Cancellation(a)) : b = a /\ state[b] \notin NoAnswer
  BY <1>1, Numbers DEF Core, Rows
<1>3. QED
  BY <1>2 DEF SeenCancelled, Ledger!recordUserOrderUpdate

LEMMA RowsStep == Core /\ Moves => Ledger!TypeOK' /\ Rows'
<1> SUFFICES ASSUME Core, Moves PROVE Ledger!TypeOK' /\ Rows'
  OBVIOUS
<1>1. Ledger!TypeOK /\ Ledger!AtMostOneUnresolved
  BY DEF Core, TypeOK, Rows
<1>2. Ledger!TypeOK' /\ Ledger!AtMostOneUnresolved'
  BY <1>1, MovesAreLedgerSteps, LedgerKeeps
<1> DEFINE Kept ==
        /\ \A a \in Attempts : state[a] # "none" => eventId[a] \in EventIds
        /\ \A a \in Attempts : orderId[a] = IF state[a] \in NoAnswer THEN 0 ELSE a
        /\ \A a \in Attempts, t \in Trades :
               <<a, t>> \in links => t[1] = a /\ state[a] \notin NoAnswer
<1>3. Kept
  BY DEF Core, Rows
<1>4. ASSUME UNCHANGED tables PROVE Kept'
  BY <1>3, <1>4 DEF tables
<1>5. ASSUME NEW t \in Trades, NEW s \in {"MATCHED", "CONFIRMED", "FAILED"},
             NEW origin \in {"stream", "poll"}, Reported(t, s, origin)
      PROVE  Kept'
  BY <1>3, <1>5, ReportMoves DEF NoAnswer
<1>6. ASSUME NEW a \in Attempts, Opened(a) PROVE Kept'
  BY <1>1, <1>3, <1>6 DEF Opened, Ledger!beginExecutionAttempt, Ledger!TypeOK, NoAnswer,
                          Core, TypeOK
<1>7. ASSUME NEW a \in Attempts, NEW ts \in SUBSET Own(a), Accepted(a, ts) PROVE Kept'
  BY <1>1, <1>3, <1>7 DEF Own, Accepted, Ledger!acceptExecutionAttempt, Ledger!TypeOK, NoAnswer
<1>8. ASSUME NEW a \in Attempts, Aborted(a) PROVE Kept'
  BY <1>1, <1>3, <1>8 DEF Aborted, Ledger!abortExecutionAttempt, Ledger!TypeOK, NoAnswer
<1>9. ASSUME NEW a \in Attempts, SeenCancelled(a) PROVE Kept'
  BY <1>3, <1>9, CancellationMoves DEF NoAnswer
<1>10. ASSUME NEW a \in Attempts, Aged(a) PROVE Kept'
  BY <1>3, <1>10 DEF Aged, Ledger!Age
<1>11. ASSUME NEW a \in Attempts,
              Requested(a) \/ Taken(a) \/ Matched(a) \/ Withdrawn(a)
       PROVE  Kept'
  BY <1>4, <1>11 DEF Requested, Taken, Matched, Withdrawn
<1>12. ASSUME NEW t \in Trades, NEW s \in {"CONFIRMED", "FAILED"}, Finished(t, s)
       PROVE  Kept'
  BY <1>4, <1>12 DEF Finished
<1>13. Kept'
  BY <1>4, <1>5, <1>6, <1>7, <1>8, <1>9, <1>10, <1>11, <1>12 DEF Moves
<1>14. QED
  BY <1>2, <1>13 DEF Rows

\* Nothing leaves the exchange again: requests, orders, trades and their ends.
LEMMA ExchangeGrows ==
    ASSUME Core, Moves
    PROVE  /\ requests \subseteq requests' /\ placed \subseteq placed'
           /\ cancelled \subseteq cancelled'
           /\ requests' \subseteq Attempts /\ placed' \subseteq requests'
           /\ cancelled' \subseteq placed'
           /\ trade' \in [Trades -> {"none", "MATCHED", "CONFIRMED", "FAILED"}]
           /\ \A t \in Trades : trade[t] # "none" =>
                 /\ trade'[t] # "none" /\ eventId'[t[1]] = eventId[t[1]]
                 /\ trade[t] \in {"CONFIRMED", "FAILED"} => trade'[t] = trade[t]
<1>0. /\ requests \subseteq Attempts /\ placed \subseteq requests /\ cancelled \subseteq placed
      /\ trade \in [Trades -> {"none", "MATCHED", "CONFIRMED", "FAILED"}]
      /\ eventId \in [Attempts -> EventIds \cup {0}]
  BY DEF Core, TypeOK, Ledger!TypeOK
<1> DEFINE Same == UNCHANGED <<eventId, exchange>>
<1>1. CASE Same
  BY <1>0, <1>1 DEF exchange
<1>2. CASE UNCHANGED <<tables, exchange>>
  BY <1>1, <1>2 DEF tables
<1>3. ASSUME NEW t \in Trades, NEW s \in {"MATCHED", "CONFIRMED", "FAILED"},
             NEW origin \in {"stream", "poll"}, Reported(t, s, origin)
      PROVE  Same
  BY <1>3, ReportMoves
<1>4. ASSUME NEW a \in Attempts,
             Aborted(a) \/ SeenCancelled(a) \/ Aged(a)
                \/ \E ts \in SUBSET Own(a) : Accepted(a, ts)
      PROVE  Same
  BY <1>4 DEF Aborted, SeenCancelled, Aged, Accepted, Ledger!abortExecutionAttempt,
              Ledger!recordUserOrderUpdate, Ledger!Age, Ledger!acceptExecutionAttempt
<1>5. CASE \E a \in Attempts : Opened(a)
  <2>1. PICK a \in Attempts : Opened(a)
    BY <1>5
  <2>2. UNCHANGED exchange /\ state[a] = "none"
        /\ eventId' = [eventId EXCEPT ![a] = event]
    BY <2>1 DEF Opened, Ledger!beginExecutionAttempt
  <2>3. \A t \in Trades : trade[t] # "none" => t[1] # a /\ t[1] \in Attempts
    BY <2>2, <1>0, Numbers DEF Core, Sent
  <2>4. QED
    BY <1>0, <2>2, <2>3 DEF exchange
<1>6. CASE \E a \in Attempts : Requested(a) \/ Taken(a) \/ Matched(a) \/ Withdrawn(a)
  BY <1>0, <1>6, Numbers DEF Requested, Taken, Matched, Withdrawn, Unmatched, tables
<1>7. CASE \E t \in Trades, s \in {"CONFIRMED", "FAILED"} : Finished(t, s)
  BY <1>0, <1>7 DEF Finished, tables
<1>8. QED
  BY <1>1, <1>2, <1>3, <1>4, <1>5, <1>6, <1>7 DEF Moves

LEMMA SentStep == Core /\ Moves => Sent'
<1> SUFFICES ASSUME Core, Moves PROVE Sent'
  OBVIOUS
<1>0. /\ requests \subseteq Attempts /\ placed \subseteq requests /\ cancelled \subseteq placed
      /\ trade \in [Trades -> {"none", "MATCHED", "CONFIRMED", "FAILED"}]
      /\ state \in [Attempts -> {"none"} \cup Ledger!Unresolved \cup Ledger!Terminal]
      /\ Sent
  BY DEF Core, TypeOK, Ledger!TypeOK
<1> USE DEF Sent
<1>1. CASE UNCHANGED <<tables, exchange>>
  BY <1>0, <1>1 DEF tables, exchange
<1>2. ASSUME NEW t \in Trades, NEW s \in {"MATCHED", "CONFIRMED", "FAILED"},
             NEW origin \in {"stream", "poll"}, Reported(t, s, origin)
      PROVE  Sent'
  BY <1>0, <1>2, ReportMoves DEF exchange, NoAnswer
<1>3. ASSUME NEW a \in Attempts, SeenCancelled(a) PROVE Sent'
  BY <1>0, <1>3, CancellationMoves DEF exchange, NoAnswer
<1>4. ASSUME NEW a \in Attempts,
             Opened(a) \/ Aborted(a) \/ Aged(a) \/ \E ts \in SUBSET Own(a) : Accepted(a, ts)
      PROVE  Sent'
  BY <1>0, <1>4 DEF Opened, Aborted, Aged, Accepted, Ledger!beginExecutionAttempt, exchange,
         Ledger!abortExecutionAttempt, Ledger!Age, Ledger!acceptExecutionAttempt
<1>5. ASSUME NEW a \in Attempts, Requested(a) \/ Taken(a) \/ Matched(a) \/ Withdrawn(a)
      PROVE  Sent'
  <2>1. CASE Requested(a) \/ Taken(a)
    BY <1>0, <2>1 DEF Requested, Taken, tables
  <2>2. CASE Matched(a)
    BY <1>0, <2>2 DEF Matched, tables
  <2>3. CASE Withdrawn(a)
    <3>1. \A t \in Trades : t[1] = a => trade[t] = "none"
      BY <2>3, Numbers DEF Withdrawn, Unmatched
    <3>2. QED
      BY <1>0, <2>3, <3>1 DEF Withdrawn, tables
  <2>4. QED
    BY <1>5, <2>1, <2>2, <2>3
<1>6. ASSUME NEW t \in Trades, NEW s \in {"CONFIRMED", "FAILED"}, Finished(t, s)
      PROVE  Sent'
  BY <1>0, <1>6 DEF Finished, tables
<1>7. QED
  BY <1>1, <1>2, <1>3, <1>4, <1>5, <1>6 DEF Moves
\* What is left of a poll stays true, whatever happens meanwhile.
LEMMA PolledKept == Core /\ Moves /\ todo' \subseteq todo => Polled'
<1> SUFFICES ASSUME Core, Moves, todo' \subseteq todo PROVE Polled'
  OBVIOUS
<1>1. ASSUME NEW u \in todo
      PROVE  \E t \in Trades :
                /\ trade'[t] # "none"
                /\ \E s \in {"MATCHED", trade'[t]} : u = TradeReport(t, s, "poll")'
  <2>1. PICK t \in Trades : /\ trade[t] # "none"
                            /\ \E s \in {"MATCHED", trade[t]} :
                                  u = TradeReport(t, s, "poll")
    BY DEF Core, Polled
  <2>2. PICK s \in {"MATCHED", trade[t]} : u = TradeReport(t, s, "poll")
    BY <2>1
  <2>3. /\ trade'[t] # "none" /\ eventId'[t[1]] = eventId[t[1]]
        /\ trade[t] \in {"CONFIRMED", "FAILED"} => trade'[t] = trade[t]
    BY <2>1, ExchangeGrows
  <2>4. s \in {"MATCHED", trade'[t]}
    BY <2>1, <2>2, <2>3 DEF Core, TypeOK
  <2>5. u = TradeReport(t, s, "poll")'
    BY <2>2, <2>3 DEF TradeReport
  <2>6. QED
    BY <2>3, <2>4, <2>5
<1>2. QED
  BY <1>1 DEF Polled

LEMMA PolledStep == Core /\ Moves /\ [Next]_vars => Polled'
<1> SUFFICES ASSUME Core, Moves, [Next]_vars PROVE Polled'
  OBVIOUS
<1>1. CASE FetchTrades
  BY <1>1 DEF FetchTrades, Polled, tables, exchange, TradeReport
<1>2. CASE ~FetchTrades
  <2>1. todo' \subseteq todo
    BY <1>2 DEF Next, Cycle, Stream, Environment, vars, cycle, Start, HungExit, StartCycle,
         RecordTrade, ConfirmedAlert, ArmForFailedTrade, ArmReturns, Compare, Audit, Gate,
         GateAttempts, Preflight, Intent, ArmForIntent, Receipt, AcceptedAlert, HandleTrade,
         HandlerArms, HandleCancellation, Place, Match, CancelOrder, SettleTrade, Timeout,
         Connect, Outage, Drop, GoSilent, HandlerFails, HttpFails, Crash, OperatorArms,
         OperatorClears
  <2>2. QED
    BY <2>1, PolledKept
<1>3. QED
  BY <1>1, <1>2
LEMMA PendingStep == Core /\ Moves /\ [Next]_vars => Pending'
<1> SUFFICES ASSUME Core, Moves, [Next]_vars, pc' \in {"intent", "posting"}
             PROVE  \E a \in Attempts :
                       state'[a] = "submitting" /\ (pc' = "posting" <=> a \in requests')
  BY DEF Pending
<1>0. state \in [Attempts -> {"none"} \cup Ledger!Unresolved \cup Ledger!Terminal]
  BY DEF Core, TypeOK, Ledger!TypeOK
<1>1. ASSUME NEW a \in Attempts, Opened(a)
      PROVE  state'[a] = "submitting" /\ a \notin requests' /\ pc' = "intent"
  BY <1>0, <1>1 DEF Opened, Ledger!beginExecutionAttempt, Core, Sent, exchange
<1>2. ASSUME NEW a \in Attempts, Requested(a)
      PROVE  state'[a] = "submitting" /\ a \in requests' /\ pc' = "posting"
  BY <1>2 DEF Requested, tables
<1>3. \/ pc' = pc \/ \E a \in Attempts : Opened(a) \/ Requested(a)
  <2>1. CASE Preflight
    BY <2>1 DEF Preflight, Opened, Return, exchange, Ledger!beginExecutionAttempt
  <2>2. CASE Intent
    BY <2>2, CurrentIsPending DEF Intent, Requested
  <2>3. CASE ~Preflight /\ ~Intent
    BY <2>3
       DEF Next, Cycle, Stream, Environment, vars, Start, HungExit, StartCycle, FetchTrades,
         RecordTrade, ConfirmedAlert, ArmForFailedTrade, ArmReturns, Compare, Audit, Gate,
         GateAttempts, ArmForIntent, Receipt, AcceptedAlert, HandleTrade,
         HandlerArms, HandleCancellation, Place, Match, CancelOrder, SettleTrade, Timeout,
         Connect, Outage, Drop, GoSilent, HandlerFails, HttpFails, Crash, OperatorArms,
         OperatorClears, Return, Throw
  <2>4. QED
    BY <2>1, <2>2, <2>3
<1>4. CASE pc' = pc
  <2>1. PICK a \in Attempts : state[a] = "submitting" /\ (pc = "posting" <=> a \in requests)
    BY <1>4 DEF Core, Pending
  <2>2. ASSUME NEW b \in Attempts, Taken(b) \/ Matched(b) \/ Withdrawn(b) \/ Aged(b)
        PROVE  state'[a] = state[a] /\ requests' = requests
    BY <2>2 DEF Taken, Matched, Withdrawn, Aged, Ledger!Age, tables, exchange
  <2>3. ASSUME NEW b \in Attempts, SeenCancelled(b)
        PROVE  state'[a] = state[a] /\ requests' = requests
    BY <2>1, <2>3, CancellationMoves DEF NoAnswer, exchange
  <2>4. ASSUME NEW t \in Trades, NEW s \in {"MATCHED", "CONFIRMED", "FAILED"},
               NEW origin \in {"stream", "poll"}, Reported(t, s, origin)
        PROVE  state'[a] = state[a] /\ requests' = requests
    BY <2>1, <2>4, ReportMoves DEF NoAnswer, exchange
  <2>5. ASSUME NEW t \in Trades, NEW s \in {"CONFIRMED", "FAILED"}, Finished(t, s)
        PROVE  state'[a] = state[a] /\ requests' = requests
    BY <2>5 DEF Finished, tables
  <2>6. CASE UNCHANGED <<tables, exchange>>
    BY <2>6, <2>1, <1>4 DEF tables, exchange
  <2>7. ~ \E b \in Attempts : \/ Opened(b) \/ Requested(b) \/ Aborted(b)
                              \/ \E ts \in SUBSET Own(b) : Accepted(b, ts)
    BY <1>4 DEF Opened, Requested, Aborted, Accepted
  <2>8. QED
    BY <2>1, <2>2, <2>3, <2>4, <2>5, <2>6, <2>7, <1>4 DEF Moves
<1>5. QED
  BY <1>1, <1>2, <1>3, <1>4

\* The rest of the type: where the cycle is, and what it has in hand.
LEMMA PlaceStep ==
    ASSUME Core, Moves, [Next]_vars
    PROVE  /\ armed' = armed \/ armed' \in BOOLEAN
           /\ first' = first \/ first' \in BOOLEAN
           /\ healthy' = healthy \/ healthy' \in BOOLEAN
           /\ excused' = excused \/ excused' \in BOOLEAN
           /\ pc' \in Places /\ event' \in EventIds
           /\ conn' \in {"closed", "open", "silent", "gone"}
           /\ handler' \in {"free", "armFailed"}
           /\ seen' \subseteq Trades
           /\ faults' \in 0..MaxFaults /\ late' \in 0..2
<1> USE DEF Next, Cycle, Stream, Environment, vars, Start, HungExit, StartCycle, FetchTrades,
         RecordTrade, ConfirmedAlert, ArmForFailedTrade, ArmReturns, Compare, Audit, Gate,
         GateAttempts, Preflight, Intent, ArmForIntent, Receipt, AcceptedAlert, HandleTrade,
         HandlerArms, HandleCancellation, Place, Match, CancelOrder, SettleTrade, Timeout,
         Connect, Outage, Drop, GoSilent, HandlerFails, HttpFails, Crash, OperatorArms,
         OperatorClears, Return, Throw, Arm, Fault, cycle, history
<1>1. TypeOK
  BY DEF Core
<1>2. pc' \in Places
  BY <1>1 DEF TypeOK, Places, Turn
<1>3. event' \in EventIds
  BY <1>1 DEF TypeOK
<1>4. conn' \in {"closed", "open", "silent", "gone"}
  BY <1>1 DEF TypeOK
<1>5. handler' \in {"free", "armFailed"}
  BY <1>1 DEF TypeOK
<1>6. seen' \subseteq Trades
  BY <1>1 DEF TypeOK
<1>7. faults' \in 0..MaxFaults
  BY <1>1, LiveAssumption DEF TypeOK
<1>8. late' \in 0..2
  BY <1>1 DEF TypeOK
<1>9. armed' = armed \/ armed' \in BOOLEAN
  OBVIOUS
<1>10. first' = first \/ first' \in BOOLEAN
  OBVIOUS
<1>11. healthy' = healthy \/ healthy' \in BOOLEAN
  OBVIOUS
<1>12. excused' = excused \/ excused' \in BOOLEAN
  OBVIOUS
<1>13. QED
  BY <1>2, <1>3, <1>4, <1>5, <1>6, <1>7, <1>8, <1>9, <1>10, <1>11, <1>12

LEMMA CoreInit == Init => Core
<1> SUFFICES ASSUME Init PROVE Core
  OBVIOUS
<1>1. Ledger!TypeOK
  BY DEF Init, Ledger!Init, Ledger!TypeOK
<1>2. TypeOK
  <2>1. armed \in BOOLEAN /\ first \in BOOLEAN /\ healthy \in BOOLEAN /\ excused \in BOOLEAN
    BY DEF Init
  <2>2. event \in EventIds /\ faults \in 0..MaxFaults /\ late \in 0..2
    BY LiveAssumption DEF Init, EventIds
  <2>3. QED
    BY <1>1, <2>1, <2>2 DEF Init, TypeOK, Places
<1>3. Sent /\ Polled /\ Pending
  BY DEF Init, Sent, Polled, Pending
<1>4. Rows
  BY DEF Init, Ledger!Init, Rows, NoAnswer, Ledger!AtMostOneUnresolved,
         Ledger!UnresolvedAttempts, Ledger!Unresolved
<1>5. QED
  BY <1>2, <1>3, <1>4 DEF Core

LEMMA CoreStep == Core /\ [Next]_vars => Core'
<1> SUFFICES ASSUME Core, [Next]_vars PROVE Core'
  OBVIOUS
<1>1. Moves
  BY StepMoves
<1>2. Ledger!TypeOK' /\ Rows' /\ Sent' /\ Polled' /\ Pending'
  BY <1>1, RowsStep, SentStep, PolledStep, PendingStep
<1>3. /\ requests' \subseteq Attempts /\ placed' \subseteq requests'
      /\ cancelled' \subseteq placed'
      /\ trade' \in [Trades -> {"none", "MATCHED", "CONFIRMED", "FAILED"}]
  BY <1>1, ExchangeGrows
<1>4. todo' \subseteq {TradeReport(t, s, "poll")' :
                          t \in Trades, s \in {"MATCHED", "CONFIRMED", "FAILED"}}
  BY <1>2, <1>3 DEF Polled
<1>5. /\ armed' \in BOOLEAN /\ first' \in BOOLEAN /\ healthy' \in BOOLEAN
      /\ excused' \in BOOLEAN
  BY <1>1, PlaceStep DEF Core, TypeOK
<1>6. TypeOK'
  BY <1>1, <1>2, <1>3, <1>4, <1>5, PlaceStep DEF TypeOK
<1>7. QED
  BY <1>2, <1>6 DEF Core

\* The live mode stays inside its types.
THEOREM TypeCorrect == Spec => []TypeOK
<1>1. Core => TypeOK
  BY DEF Core
<1>2. QED
  BY <1>1, CoreInit, CoreStep, PTL DEF Spec

\* Cycle, stream, operator and crashes use the tables as ExecutionLedger says, so
\* that its theorems are true of the live mode (reconciler.ts 89-433,
\* user-stream.ts 194-264).
THEOREM LedgerKept == Spec => ImplementsLedger
<1>1. Init => Ledger!Init
  BY DEF Init
<1>2. Core /\ [Next]_vars => [Ledger!Next]_(Ledger!vars)
  BY StepMoves, MovesAreLedgerSteps
<1>3. QED
  BY <1>1, <1>2, CoreInit, CoreStep, PTL DEF Spec, ImplementsLedger, Ledger!Spec
-----------------------------------------------------------------------------
\* A row moves to a verdict for its own reason only.
LEMMA RowMoves ==
    ASSUME Core, Moves, NEW a \in Attempts, state'[a] # state[a]
    PROVE  /\ UNCHANGED exchange
           /\ \/ state[a] = "none" /\ state'[a] = "submitting" /\ pc' = "intent"
              \/ state[a] = "submitting" /\ state'[a] \in {"accepted", "aborted"}
                    /\ (state'[a] = "aborted" => a \notin requests)
              \/ state[a] \in Ledger!Unresolved \ {"submitting"}
                    /\ \/ state'[a] = "cancelled" /\ a \in cancelled
                       \/ state'[a] = "matched"
                       \/ state'[a] = "confirmed"
                             /\ \E i \in 1..Fills : trade[<<a, i>>] = "CONFIRMED"
                       \/ state'[a] = "failed"
                             /\ \E i \in 1..Fills : trade[<<a, i>>] = "FAILED"
<1>0. /\ state \in [Attempts -> {"none"} \cup Ledger!Unresolved \cup Ledger!Terminal]
      /\ state[a] \notin Ledger!Terminal
  <2>1. state[a] \in Ledger!Terminal => state'[a] = state[a]
    BY MovesAreLedgerSteps, LedgerKeeps DEF Core, TypeOK, Rows
  <2>2. QED
    BY <2>1 DEF Core, TypeOK, Ledger!TypeOK
<1>1. ASSUME NEW b \in Attempts,
             Opened(b) \/ Aborted(b) \/ \E ts \in SUBSET Own(b) : Accepted(b, ts)
      PROVE  /\ UNCHANGED exchange
             /\ \/ state[a] = "none" /\ state'[a] = "submitting" /\ pc' = "intent"
                \/ state[a] = "submitting" /\ state'[a] \in {"accepted", "aborted"}
                      /\ (state'[a] = "aborted" => a \notin requests)
  BY <1>0, <1>1 DEF Opened, Aborted, Accepted, Ledger!beginExecutionAttempt, exchange,
         Ledger!abortExecutionAttempt, Ledger!acceptExecutionAttempt
<1>2. ASSUME NEW b \in Attempts, SeenCancelled(b)
      PROVE  /\ state[a] \in Ledger!Unresolved \ {"submitting"} /\ UNCHANGED exchange
             /\ state'[a] = "cancelled" /\ a \in cancelled
  BY <1>0, <1>2, CancellationMoves DEF NoAnswer, SeenCancelled
<1>3. ASSUME NEW t \in Trades, NEW s \in {"MATCHED", "CONFIRMED", "FAILED"},
             NEW origin \in {"stream", "poll"}, Reported(t, s, origin)
      PROVE  /\ state[a] \in Ledger!Unresolved \ {"submitting"} /\ UNCHANGED exchange
             /\ \/ state'[a] = "matched"
                \/ state'[a] = "confirmed"
                      /\ \E i \in 1..Fills : trade[<<a, i>>] = "CONFIRMED"
                \/ state'[a] = "failed"
                      /\ \E i \in 1..Fills : trade[<<a, i>>] = "FAILED"
  <2>1. /\ a = t[1] /\ state[a] \notin NoAnswer /\ UNCHANGED exchange
        /\ state'[a] = [MATCHED |-> "matched", CONFIRMED |-> "confirmed",
                        FAILED |-> "failed"][s]
    BY <1>3, ReportMoves
  <2>2. trade[t] # "none" /\ s \in {"MATCHED", trade[t]}
    BY <1>3 DEF Reported
  <2>3. \E i \in 1..Fills : t = <<a, i>>
    BY <2>1, Numbers
  <2>4. QED
    BY <1>0, <2>1, <2>2, <2>3 DEF NoAnswer
<1>4. ASSUME \/ UNCHANGED <<tables, exchange>>
             \/ \E b \in Attempts : \/ Aged(b) \/ Requested(b) \/ Taken(b)
                                    \/ Matched(b) \/ Withdrawn(b)
             \/ \E t \in Trades, s \in {"CONFIRMED", "FAILED"} : Finished(t, s)
      PROVE  state' = state
  BY <1>4 DEF Aged, Ledger!Age, Requested, Taken, Matched, Withdrawn, Finished, tables
<1>5. QED
  BY <1>1, <1>2, <1>3, <1>4 DEF Moves

LEMMA VerdictStep == Core /\ VerdictsMatchExchange /\ [Next]_vars => VerdictsMatchExchange'
<1> SUFFICES ASSUME Core, VerdictsMatchExchange, Moves, NEW a \in Attempts
             PROVE  /\ state'[a] = "aborted" => a \notin requests'
                    /\ state'[a] = "cancelled" => a \in cancelled'
                    /\ state'[a] = "confirmed" =>
                          \E i \in 1..Fills : trade'[<<a, i>>] = "CONFIRMED"
                    /\ state'[a] = "failed" =>
                          \E i \in 1..Fills : trade'[<<a, i>>] = "FAILED"
  BY StepMoves DEF VerdictsMatchExchange
<1>1. CASE state'[a] = state[a]
  <2>1. state[a] = "aborted" => a \notin requests'
    BY SentStep, <1>1 DEF Sent
  <2>2. \A i \in 1..Fills : <<a, i>> \in Trades
    BY Numbers
  <2>3. QED
    BY <1>1, <2>1, <2>2, ExchangeGrows DEF VerdictsMatchExchange
<1>2. CASE state'[a] # state[a]
  BY <1>2, RowMoves DEF exchange
<1>3. QED
  BY <1>1, <1>2

\* A verdict in the tables is what the exchange did with the order, and an order
\* that went out is never taken for aborted (database.ts 656-768, reconciler.ts
\* 376-389), however many trades fill an order.
THEOREM VerdictsAreTrue == Spec => []VerdictsMatchExchange
<1>1. Init => VerdictsMatchExchange
  BY DEF Init, Ledger!Init, VerdictsMatchExchange
<1>2. QED
  BY <1>1, VerdictStep, CoreInit, CoreStep, PTL DEF Spec

-----------------------------------------------------------------------------
\* An order that has left since the switch was armed has closed the way behind it:
\* the next cycle would have to find the switch clear at its gate.
WayClosed ==
    late > 0 => late = 1 /\ armed = TRUE /\ pc \notin {"gateFile", "preflight", "intent"}

LEMMA WayClosedStep == Core /\ WayClosed /\ [Next]_vars => WayClosed'
<1> SUFFICES ASSUME Core, WayClosed, [Next]_vars PROVE WayClosed'
  OBVIOUS
<1>0. late \in 0..2 /\ armed \in BOOLEAN
  BY DEF Core, TypeOK
<1> USE <1>0 DEF WayClosed
<1>1. CASE Gate \/ GateAttempts \/ Preflight
  BY <1>1 DEF Gate, GateAttempts, Preflight, Arm, Return, Throw, history
<1>2. CASE Intent
  BY <1>2 DEF Intent
<1>3. CASE OperatorClears
  BY <1>3 DEF OperatorClears
<1>4. CASE ~(Gate \/ GateAttempts \/ Preflight \/ Intent \/ OperatorClears)
  BY <1>4
     DEF Next, Cycle, Stream, Environment, vars, Start, HungExit, StartCycle, FetchTrades,
         RecordTrade, ConfirmedAlert, ArmForFailedTrade, ArmReturns, Compare, Audit,
         ArmForIntent, Receipt, AcceptedAlert, HandleTrade,
         HandlerArms, HandleCancellation, Place, Match, CancelOrder, SettleTrade, Timeout,
         Connect, Outage, Drop, GoSilent, HandlerFails, HttpFails, Crash, OperatorArms,
         Return, Throw, Arm, history
<1>5. QED
  BY <1>1, <1>2, <1>3, <1>4

\* After the switch is armed, by whomever and between whatever awaits, no second
\* order leaves before it is cleared (reconciler.ts 295, safety.ts 30-41).
THEOREM OneLateOrder == Spec => []AtMostOneLateOrder
<1>1. Init => WayClosed
  BY DEF Init, WayClosed
<1>2. Core /\ WayClosed => AtMostOneLateOrder
  BY DEF Core, TypeOK, WayClosed, AtMostOneLateOrder
<1>3. QED
  BY <1>1, <1>2, WayClosedStep, CoreInit, CoreStep, PTL DEF Spec
-----------------------------------------------------------------------------
\* What keeps live trading stopped, or excuses that it goes on.
Stopped  == armed = TRUE \/ excused = TRUE
Stopping == Stopped \/ pc = "armFailed" \/ handler = "armFailed"

\* An order without an answer stops live trading, or its cycle is still at it.
AmbiguousStops ==
    (\E a \in Attempts : state[a] = "submitting") => Stopped \/ pc \in {"intent", "posting"}

\* An attempt whose trade failed stops it, or the turn that saw it is still to arm.
FailedStops == (\E a \in Attempts : state[a] = "failed") => Stopping

\* So does a failed trade in the log of the poll.
LoggedStops ==
    (\E u \in tradeLog : u.status = "FAILED" /\ u.origin = "poll") => Stopping

LEMMA StopKept ==
    ASSUME Core, [Next]_vars
    PROVE  /\ Stopped => Stopped'
           /\ Stopping => Stopping'
           /\ pc \in {"intent", "posting"} =>
                 \/ Stopped' \/ pc' \in {"intent", "posting"}
                 \/ \E a \in Attempts : state[a] = "submitting" /\ state'[a] # "submitting"
<1>1. ASSUME Stopped PROVE Stopped'
  BY <1>1
     DEF Stopped, Next, Cycle, Stream, Environment, vars, Start, HungExit, StartCycle,
         FetchTrades, RecordTrade, ConfirmedAlert, ArmForFailedTrade, ArmReturns, Compare,
         Audit, Gate, GateAttempts, Preflight, Intent, ArmForIntent, Receipt, AcceptedAlert,
         HandleTrade, HandlerArms, HandleCancellation, Place, Match, CancelOrder,
         SettleTrade, Timeout, Connect, Outage, Drop, GoSilent, HandlerFails, HttpFails,
         Crash, OperatorArms, OperatorClears, Return, Throw, Arm, history
<1>2. ASSUME pc = "armFailed" \/ handler = "armFailed" PROVE Stopping'
  BY <1>2
     DEF Stopping, Stopped, Busy, Turn, Next, Cycle, Stream, Environment, vars, Start,
         HungExit, StartCycle, FetchTrades, RecordTrade, ConfirmedAlert, ArmForFailedTrade,
         ArmReturns, Compare, Audit, Gate, GateAttempts, Preflight, Intent, ArmForIntent,
         Receipt, AcceptedAlert, HandleTrade, HandlerArms, HandleCancellation, Place, Match,
         CancelOrder, SettleTrade, Timeout, Connect, Outage, Drop, GoSilent, HandlerFails,
         HttpFails, Crash, OperatorArms, OperatorClears, Return, Throw, Arm, history
<1>3. ASSUME pc \in {"intent", "posting"}
      PROVE  \/ Stopped' \/ pc' \in {"intent", "posting"}
             \/ \E a \in Attempts : state[a] = "submitting" /\ state'[a] # "submitting"
  <2>1. Current \in Attempts /\ state[Current] = "submitting"
    BY <1>3, CurrentIsPending
  <2>2. CASE Intent
    BY <2>1, <2>2 DEF Intent, Ledger!abortExecutionAttempt, Core, TypeOK, Ledger!TypeOK
  <2>3. CASE Receipt
    BY <2>1, <2>3 DEF Receipt, Arm, Stopped, Ledger!acceptExecutionAttempt, Core, TypeOK,
                      Ledger!TypeOK
  <2>4. CASE Crash
    BY <1>3, <2>4 DEF Crash, Stopped
  <2>5. CASE ~Intent /\ ~Receipt /\ ~Crash
    BY <1>3, <2>5
       DEF Turn, Next, Cycle, Stream, Environment, vars, Start, HungExit, StartCycle,
         FetchTrades, RecordTrade, ConfirmedAlert, ArmForFailedTrade, ArmReturns, Compare,
         Audit, Gate, GateAttempts, Preflight, ArmForIntent, AcceptedAlert, HandleTrade,
         HandlerArms, HandleCancellation, Place, Match, CancelOrder, SettleTrade, Timeout,
         Connect, Outage, Drop, GoSilent, HandlerFails, HttpFails, OperatorArms,
         OperatorClears
  <2>6. QED
    BY <2>2, <2>3, <2>4, <2>5
<1>4. QED
  BY <1>1, <1>2, <1>3 DEF Stopping

LEMMA AmbiguousStep == Core /\ AmbiguousStops /\ [Next]_vars => AmbiguousStops'
<1> SUFFICES ASSUME Core, AmbiguousStops, [Next]_vars,
                    NEW a \in Attempts, state'[a] = "submitting"
             PROVE  Stopped' \/ pc' \in {"intent", "posting"}
  BY DEF AmbiguousStops
<1>0. Moves
  BY StepMoves
<1>1. CASE state[a] = "submitting"
  <2>1. ASSUME NEW b \in Attempts, state[b] = "submitting" PROVE b = a
    BY <1>1, <2>1 DEF Core, Rows, Ledger!AtMostOneUnresolved, Ledger!UnresolvedAttempts,
                      Ledger!Unresolved
  <2>2. QED
    BY <1>1, <2>1, StopKept DEF AmbiguousStops
<1>2. CASE state[a] # "submitting"
  BY <1>0, <1>2, RowMoves
<1>3. QED
  BY <1>1, <1>2

\* A FAILED report that moves a row leaves its turn with the switch still to arm.
LEMMA FailureSeen ==
    ASSUME Core, [Next]_vars, NEW a \in Attempts, state'[a] = "failed", state[a] # "failed"
    PROVE  Stopping'
<1>1. ASSUME NEW u, Ledger!recordTradeLifecycle(u)
      PROVE  a \in Ledger!Transitioned(u) /\ Ledger!NextState(u.status) = "failed"
  BY <1>1 DEF Ledger!recordTradeLifecycle
<1>2. CASE RecordTrade
  <2>1. PICK u \in todo :
            /\ Ledger!recordTradeLifecycle(u)
            /\ pc' = CASE Ledger!Transitioned(u) = {} -> "record"
                       [] u.status = "CONFIRMED"      -> "alertConfirmed"
                       [] u.status = "FAILED"         -> "armFailed"
                       [] OTHER                       -> "record"
    BY <1>2 DEF RecordTrade
  <2>2. u.status \in {"MATCHED", "CONFIRMED", "FAILED"}
    BY DEF Core, TypeOK, TradeReport
  <2>3. u.status = "FAILED" /\ Ledger!Transitioned(u) # {}
    BY <1>1, <2>1, <2>2 DEF Ledger!NextState
  <2>4. QED
    BY <2>1, <2>3 DEF Stopping
<1>3. CASE HandleTrade
  <2>1. PICK t \in Trades, s \in {"MATCHED", "CONFIRMED", "FAILED"} :
            /\ Ledger!recordTradeLifecycle(TradeReport(t, s, "stream"))
            /\ handler' = IF Ledger!Transitioned(TradeReport(t, s, "stream")) # {}
                                /\ s = "FAILED"
                          THEN "armFailed" ELSE "free"
    BY <1>3 DEF HandleTrade, Core, TypeOK
  <2>2. s = "FAILED" /\ Ledger!Transitioned(TradeReport(t, s, "stream")) # {}
    BY <1>1, <2>1 DEF Ledger!NextState, TradeReport
  <2>3. QED
    BY <2>1, <2>2 DEF Stopping
<1>4. CASE ~RecordTrade /\ ~HandleTrade
  <2>1. ASSUME state' = state PROVE FALSE
    BY <2>1
  <2>2. ~Preflight
    BY DEF Preflight, Ledger!beginExecutionAttempt, tables, Core, TypeOK, Ledger!TypeOK
  <2>3. ~Intent
    BY CurrentIsPending DEF Intent, Ledger!abortExecutionAttempt, tables, Core, TypeOK,
                            Ledger!TypeOK
  <2>4. ~Receipt
    BY CurrentIsPending DEF Receipt, Ledger!acceptExecutionAttempt, tables, Core, TypeOK,
                            Ledger!TypeOK
  <2>5. ~HandleCancellation
    BY DEF HandleCancellation, Ledger!recordUserOrderUpdate
  <2>6. state' = state
    BY <1>4, <2>2, <2>3, <2>4, <2>5
       DEF Next, Cycle, Stream, Environment, vars, tables, Start, HungExit, StartCycle,
         FetchTrades, ConfirmedAlert, ArmForFailedTrade, ArmReturns, Compare,
         Audit, Gate, GateAttempts, ArmForIntent, AcceptedAlert,
         HandlerArms, Place, Match, CancelOrder, SettleTrade, Timeout, Ledger!Age,
         Connect, Outage, Drop, GoSilent, HandlerFails, HttpFails, Crash, OperatorArms,
         OperatorClears
  <2>7. QED
    BY <2>1, <2>6
<1>5. QED
  BY <1>2, <1>3, <1>4

LEMMA FailedStep == Core /\ FailedStops /\ [Next]_vars => FailedStops'
BY FailureSeen, StopKept DEF FailedStops
\* One trade to an order: a trade the poll records as FAILED has its attempt open,
\* and this turn arms, or had it closed as failed, or without an answer.
LEMMA LoggedStep ==
    ASSUME Fills = 1, Core, VerdictsMatchExchange, AmbiguousStops, FailedStops,
           LoggedStops, [Next]_vars
    PROVE  LoggedStops'
<1> SUFFICES ASSUME NEW u \in tradeLog' \ tradeLog, u.status = "FAILED", u.origin = "poll"
             PROVE  Stopping'
  BY StopKept DEF LoggedStops
<1>1. CASE RecordTrade
  <2>1. PICK w \in todo :
            /\ Ledger!recordTradeLifecycle(w)
            /\ pc' = CASE Ledger!Transitioned(w) = {} -> "record"
                       [] w.status = "CONFIRMED"      -> "alertConfirmed"
                       [] w.status = "FAILED"         -> "armFailed"
                       [] OTHER                       -> "record"
    BY <1>1 DEF RecordTrade
  <2>2. w = u
    BY <2>1 DEF Ledger!recordTradeLifecycle
  <2>3. PICK t \in Trades : trade[t] = "FAILED" /\ u = TradeReport(t, "FAILED", "poll")
    BY <2>2 DEF Core, Polled, TradeReport
  <2> DEFINE a == t[1]
  <2>4. a \in Attempts /\ t = <<a, 1>>
    BY <2>3, Numbers
  <2>5. a \in placed \ cancelled /\ state[a] \notin {"none", "aborted"}
    BY <2>3 DEF Core, Sent, TypeOK
  <2>6. state[a] \notin {"confirmed", "cancelled"}
    BY <2>3, <2>4, <2>5 DEF VerdictsMatchExchange
  <2>7. CASE state[a] \in {"failed", "submitting"}
    BY <1>1, <2>4, <2>7, StopKept
       DEF FailedStops, AmbiguousStops, RecordTrade, Stopping, Stopped
  <2>8. CASE state[a] \in Ledger!Unresolved \ {"submitting"}
    <3>1. a \in Ledger!UnresolvedAttempts /\ orderId[a] = a
      BY <2>4, <2>8 DEF Ledger!UnresolvedAttempts, Ledger!Unresolved, Core, Rows, NoAnswer
    <3>2. u.event = eventId[a] /\ a \in u.orders
      BY <2>3 DEF TradeReport
    <3>3. a \in Ledger!Transitioned(u)
      BY <2>4, <3>1, <3>2 DEF Ledger!Transitioned, Ledger!Linked
    <3>4. pc' = "armFailed"
      BY <2>1, <2>2, <3>3
    <3>5. QED
      BY <3>4 DEF Stopping
  <2>9. QED
    BY <2>4, <2>5, <2>6, <2>7, <2>8
       DEF Core, TypeOK, Ledger!TypeOK, Ledger!Unresolved, Ledger!Terminal
<1>2. CASE ~RecordTrade
  <2>1. ~HandleTrade
    <3>1. ASSUME NEW t, NEW s,
                 Ledger!recordTradeLifecycle(TradeReport(t, s, "stream"))
          PROVE  FALSE
      BY <3>1 DEF Ledger!recordTradeLifecycle, TradeReport
    <3>2. QED
      BY <3>1 DEF HandleTrade
  <2>2. tradeLog' = tradeLog
    BY <1>2, <2>1
       DEF Next, Cycle, Stream, Environment, vars, tables, Start, HungExit, StartCycle,
         FetchTrades, ConfirmedAlert, ArmForFailedTrade, ArmReturns, Compare,
         Audit, Gate, GateAttempts, Preflight, Intent, Receipt, ArmForIntent,
         AcceptedAlert, HandlerArms, HandleCancellation, Place, Match, CancelOrder,
         SettleTrade, Timeout, Connect, Outage, Drop, GoSilent, HandlerFails, HttpFails,
         Crash, OperatorArms, OperatorClears, Ledger!Age, Ledger!beginExecutionAttempt,
         Ledger!abortExecutionAttempt, Ledger!acceptExecutionAttempt,
         Ledger!recordUserOrderUpdate
  <2>3. QED
    BY <2>2
<1>3. QED
  BY <1>1, <1>2

LEMMA StopInit == Init => AmbiguousStops /\ FailedStops /\ LoggedStops
BY DEF Init, Ledger!Init, AmbiguousStops, FailedStops, LoggedStops

\* An order whose submission has no answer stops live trading once its cycle is
\* over (reconciler.ts 418-428), however the crashes, messages and operators fall
\* in between; an operator's clear and a crash during the submission excuse it.
THEOREM AmbiguityStops == Spec => []AmbiguousOrderArms
<1>1. Init => AmbiguousStops
  BY StopInit
<1>2. AmbiguousStops => AmbiguousOrderArms
  BY DEF AmbiguousStops, AmbiguousOrderArms, Quiet, Stopped
<1>3. QED
  BY <1>1, <1>2, AmbiguousStep, CoreInit, CoreStep, PTL DEF Spec

\* A FAILED trade that the poll has recorded stops live trading (reconciler.ts
\* 107-134), when an order is filled by one trade.  With several it does not: an
\* attempt that one of its trades has confirmed is closed when another one fails.
THEOREM FailureStops == Fills = 1 => (Spec => []RecordedFailureArms)
<1> SUFFICES ASSUME Fills = 1 PROVE Spec => []RecordedFailureArms
  OBVIOUS
<1> DEFINE IInv == Core /\ VerdictsMatchExchange
                        /\ AmbiguousStops /\ FailedStops /\ LoggedStops
<1>1. Init => IInv
  BY CoreInit, StopInit DEF Init, Ledger!Init, VerdictsMatchExchange
<1>2. IInv /\ [Next]_vars => IInv'
  BY CoreStep, VerdictStep, AmbiguousStep, FailedStep, LoggedStep
<1>3. IInv => RecordedFailureArms
  BY DEF LoggedStops, RecordedFailureArms, Quiet, Stopping, Stopped
<1>4. QED
  BY <1>1, <1>2, <1>3, PTL DEF Spec
-----------------------------------------------------------------------------
\* A step changes one row at most.
LEMMA OneRow ==
    ASSUME Core, Moves
    PROVE  \E a \in Attempts : \A b \in Attempts \ {a} : state'[b] = state[b]
<1>0. /\ state \in [Attempts -> {"none"} \cup Ledger!Unresolved \cup Ledger!Terminal]
      /\ 1 \in Attempts
  BY LiveAssumption DEF Core, TypeOK, Ledger!TypeOK, Attempts
<1>1. ASSUME NEW a \in Attempts,
             Opened(a) \/ Aborted(a) \/ \E ts \in SUBSET Own(a) : Accepted(a, ts)
      PROVE  \A b \in Attempts \ {a} : state'[b] = state[b]
  BY <1>0, <1>1 DEF Opened, Aborted, Accepted, Ledger!beginExecutionAttempt,
                    Ledger!abortExecutionAttempt, Ledger!acceptExecutionAttempt
<1>2. ASSUME NEW a \in Attempts, SeenCancelled(a)
      PROVE  \A b \in Attempts \ {a} : state'[b] = state[b]
  BY <1>2, CancellationMoves
<1>3. ASSUME NEW t \in Trades, NEW s \in {"MATCHED", "CONFIRMED", "FAILED"},
             NEW origin \in {"stream", "poll"}, Reported(t, s, origin)
      PROVE  t[1] \in Attempts /\ \A b \in Attempts \ {t[1]} : state'[b] = state[b]
  BY <1>3, ReportMoves, Numbers
<1>4. ASSUME \/ UNCHANGED <<tables, exchange>>
             \/ \E b \in Attempts : \/ Aged(b) \/ Requested(b) \/ Taken(b)
                                    \/ Matched(b) \/ Withdrawn(b)
             \/ \E t \in Trades, s \in {"CONFIRMED", "FAILED"} : Finished(t, s)
      PROVE  state' = state
  BY <1>4 DEF Aged, Ledger!Age, Requested, Taken, Matched, Withdrawn, Finished, tables
<1>5. QED
  BY <1>0, <1>1, <1>2, <1>3, <1>4 DEF Moves

\* One trade to an order: the order has ended when it is cancelled or its trade is
\* final.
LEMMA SettledIs ==
    ASSUME Fills = 1
    PROVE  /\ \A a : Settled(a) <=>
                  a \in cancelled \/ trade[<<a, 1>>] \in {"CONFIRMED", "FAILED"}
           /\ \A a : Unmatched(a) <=> trade[<<a, 1>>] = "none"
BY DEF Settled, Unmatched

\* A row that moves opens an attempt, closes it or leaves it open.
LEMMA RowKeepsPromise ==
    ASSUME Fills = 1, Core, Moves,
           NEW a \in Attempts, state'[a] # state[a],
           \A b \in Attempts \ {a} : state'[b] = state[b]
    PROVE  [Promise!Next]_(Promise!vars)
<1> DEFINE closed == {b \in Attempts : state[b] \in Ledger!Terminal}
           settled == {b \in requests : Settled(b)}
<1>0. UNCHANGED exchange
  BY RowMoves
<1>1. requests' = requests /\ settled' = settled
  BY <1>0 DEF exchange, Settled
<1>2. Ledger!AtMostOneUnresolved /\ Ledger!AtMostOneUnresolved'
  BY RowsStep DEF Core, Rows
<1> USE DEF Unresolved, Ledger!AtMostOneUnresolved, Ledger!UnresolvedAttempts,
            Ledger!Unresolved, Ledger!Terminal
<1>3. CASE state[a] = "none" /\ state'[a] = "submitting"
  <2>1. Unresolved = {} /\ Unresolved' = {a} /\ a \notin closed /\ closed' = closed
    BY <1>2, <1>3
  <2>2. Promise!Open(a)
    BY <1>1, <2>1 DEF Promise!Open
  <2>3. QED
    BY <2>2 DEF Promise!Next
<1>4. CASE state[a] \in Ledger!Unresolved /\ state'[a] \in {"accepted", "matched"}
  <2>1. Unresolved' = Unresolved /\ closed' = closed
    BY <1>4
  <2>2. QED
    BY <1>1, <2>1 DEF Promise!vars
<1>5. CASE state[a] \in Ledger!Unresolved /\ state'[a] \in Ledger!Terminal
  <2>1. a \in Unresolved /\ Unresolved' = {} /\ closed' = closed \cup {a}
    BY <1>2, <1>5
  <2>2. a \in requests => a \in settled
    BY <1>5, RowMoves DEF Settled
  <2>3. Promise!Close(a)
    BY <1>1, <2>1, <2>2 DEF Promise!Close
  <2>4. QED
    BY <2>3 DEF Promise!Next
<1>6. QED
  BY <1>3, <1>4, <1>5, RowMoves

\* A step of the exchange sends an order, ends one or does neither.
LEMMA ExchangeKeepsPromise ==
    ASSUME Fills = 1, Core, Moves, \A a \in Attempts : state'[a] = state[a]
    PROVE  [Promise!Next]_(Promise!vars)
<1> DEFINE closed == {b \in Attempts : state[b] \in Ledger!Terminal}
           settled == {b \in requests : Settled(b)}
<1>1. Unresolved' = Unresolved /\ closed' = closed
  BY DEF Unresolved, Ledger!UnresolvedAttempts
<1>2. requests \subseteq Attempts /\ placed \subseteq requests /\ cancelled \subseteq placed
  BY DEF Core, TypeOK
<1>3. /\ \A b \in Attempts : <<b, 1>> \in Trades /\ <<b, 1>>[1] = b
      /\ \A t \in Trades : t[1] \in Attempts /\ t = <<t[1], 1>>
  BY Numbers
<1>4. \A b \in Attempts : trade[<<b, 1>>] # "none" => b \in placed \ cancelled
  BY <1>3 DEF Core, Sent
<1>5. trade \in [Trades -> {"none", "MATCHED", "CONFIRMED", "FAILED"}]
  BY DEF Core, TypeOK
<1>6. settled = {b \in requests : b \in cancelled
                                  \/ trade[<<b, 1>>] \in {"CONFIRMED", "FAILED"}}
  BY SettledIs
<1>7. settled' = {b \in requests' : b \in cancelled'
                                    \/ trade'[<<b, 1>>] \in {"CONFIRMED", "FAILED"}}
  BY DEF Settled
<1> HIDE DEF closed, settled
<1>8. ASSUME UNCHANGED exchange PROVE Promise!vars' = Promise!vars
  BY <1>1, <1>6, <1>7, <1>8 DEF Promise!vars, exchange, closed, settled
<1>9. ASSUME NEW a \in Attempts, Requested(a) PROVE Promise!Send(a)
  <2>1. a \in Unresolved \ requests /\ requests' = requests \cup {a}
    BY <1>9 DEF Requested, Unresolved, Ledger!UnresolvedAttempts, Ledger!Unresolved
  <2>2. settled' = settled
    BY <1>2, <1>4, <1>6, <1>7, <1>9 DEF Requested
  <2>3. QED
    BY <1>1, <2>1, <2>2 DEF Promise!Send, closed, settled
<1>10. ASSUME NEW a \in Attempts, Taken(a) \/ Matched(a)
       PROVE  Promise!vars' = Promise!vars
  <2>1. requests' = requests
    BY <1>10 DEF Taken, Matched
  <2>2. settled' = settled
    BY <1>2, <1>3, <1>4, <1>5, <1>6, <1>7, <1>10, SettledIs DEF Taken, Matched
  <2>3. QED
    BY <1>1, <2>1, <2>2 DEF Promise!vars, closed, settled
<1>11. ASSUME NEW a \in Attempts, Withdrawn(a) PROVE Promise!Settle(a)
  <2>1. a \in requests \ settled /\ settled' = settled \cup {a} /\ requests' = requests
    BY <1>2, <1>6, <1>7, <1>11, SettledIs DEF Withdrawn
  <2>2. QED
    BY <1>1, <2>1 DEF Promise!Settle, closed, settled
<1>12. ASSUME NEW t \in Trades, NEW s \in {"CONFIRMED", "FAILED"}, Finished(t, s)
       PROVE  Promise!Settle(t[1])
  <2>1. \A b \in Attempts : trade'[<<b, 1>>] = IF b = t[1] THEN s ELSE trade[<<b, 1>>]
    BY <1>3, <1>5, <1>12 DEF Finished
  <2>2. /\ t[1] \in requests \ settled /\ settled' = settled \cup {t[1]}
        /\ requests' = requests
    BY <1>2, <1>3, <1>4, <1>6, <1>7, <1>12, <2>1 DEF Finished
  <2>3. QED
    BY <1>1, <2>2 DEF Promise!Settle, closed, settled
<1>13. \/ UNCHANGED exchange
       \/ \E a \in Attempts : Requested(a) \/ Taken(a) \/ Matched(a) \/ Withdrawn(a)
       \/ \E t \in Trades, s \in {"CONFIRMED", "FAILED"} : Finished(t, s)
  BY DEF Moves, Reported, Opened, Aborted, SeenCancelled, Aged, Accepted
<1>14. QED
  BY <1>3, <1>8, <1>9, <1>10, <1>11, <1>12, <1>13 DEF Promise!Next
LEMMA PromiseStep ==
    ASSUME Fills = 1, Core, [Next]_vars PROVE [Promise!Next]_(Promise!vars)
<1>1. Moves
  BY StepMoves
<1>2. PICK a \in Attempts : \A b \in Attempts \ {a} : state'[b] = state[b]
  BY <1>1, OneRow
<1>3. CASE state'[a] # state[a]
  BY <1>1, <1>2, <1>3, RowKeepsPromise
<1>4. CASE state'[a] = state[a]
  BY <1>1, <1>2, <1>4, ExchangeKeepsPromise
<1>5. QED
  BY <1>3, <1>4

\* Whatever crashes, is lost, late or repeated: an order goes out for a recorded
\* attempt only, and no attempt is opened before the order of the last one has
\* come to its end (reconciler.ts 306-389), when an order is filled by one trade.
\* With several the first verdict opens the way, and the promise is broken.
THEOREM OneOrderKept == Fills = 1 => (Spec => ImplementsOneOrder)
<1> SUFFICES ASSUME Fills = 1 PROVE Spec => ImplementsOneOrder
  OBVIOUS
<1>1. Init => Promise!Init
  BY DEF Init, Ledger!Init, Promise!Init, Unresolved, Ledger!UnresolvedAttempts,
         Ledger!Unresolved, Ledger!Terminal
<1>2. Core /\ [Next]_vars => [Promise!Next]_(Promise!vars)
  BY PromiseStep
<1>3. QED
  BY <1>1, <1>2, CoreInit, CoreStep, PTL DEF Spec, ImplementsOneOrder, Promise!Spec

-----------------------------------------------------------------------------
\* One attempt is open at most, and an order still live is the one of it.
LiveIsOpen ==
    /\ \A a, b \in Unresolved : a = b
    /\ \A a \in requests : Settled(a) \/ a \in Unresolved

LEMMA LiveIsOpenStep == LiveIsOpen /\ [Promise!Next]_(Promise!vars) => LiveIsOpen'
<1> SUFFICES ASSUME LiveIsOpen, [Promise!Next]_(Promise!vars) PROVE LiveIsOpen'
  OBVIOUS
<1> DEFINE settled == {a \in requests : Settled(a)}
<1>1. LiveIsOpen <=> (\A a, b \in Unresolved : a = b)
                        /\ requests \ settled \subseteq Unresolved
  BY DEF LiveIsOpen
<1>2. (LiveIsOpen <=> (\A a, b \in Unresolved : a = b)
                         /\ requests \ settled \subseteq Unresolved)'
  BY DEF LiveIsOpen
<1> HIDE DEF settled
<1>3. ASSUME NEW a \in Attempts, Promise!Open(a) PROVE LiveIsOpen'
  BY <1>1, <1>2, <1>3 DEF Promise!Open, settled
<1>4. ASSUME NEW a \in Attempts, Promise!Send(a) PROVE LiveIsOpen'
  BY <1>1, <1>2, <1>4 DEF Promise!Send, settled
<1>5. ASSUME NEW a \in Attempts, Promise!Settle(a) PROVE LiveIsOpen'
  BY <1>1, <1>2, <1>5 DEF Promise!Settle, settled
<1>6. ASSUME NEW a \in Attempts, Promise!Close(a) PROVE LiveIsOpen'
  BY <1>1, <1>2, <1>6 DEF Promise!Close, settled
<1>7. CASE UNCHANGED Promise!vars
  BY <1>1, <1>2, <1>7 DEF Promise!vars, settled
<1>8. QED
  BY <1>3, <1>4, <1>5, <1>6, <1>7 DEF Promise!Next

\* What the promise is worth: whoever keeps it never has two orders that are live
\* at the exchange, from their submission to their end.
THEOREM NeverTwoLiveOrders == Promise!Spec => []Promise!OneLiveOrder
<1>1. Promise!Init => LiveIsOpen
  BY DEF Promise!Init, LiveIsOpen
<1>2. LiveIsOpen => Promise!OneLiveOrder
  BY DEF LiveIsOpen, Promise!OneLiveOrder
<1>3. QED
  BY <1>1, <1>2, LiveIsOpenStep, PTL DEF Promise!Spec

\* The follower itself: never two live orders at once, through crashes, lost
\* answers and late messages, when an order is filled by one trade.
THEOREM OneLiveOrderKept == Fills = 1 => (Spec => []Promise!OneLiveOrder)
BY OneOrderKept, NeverTwoLiveOrders DEF ImplementsOneOrder
=============================================================================
