---------------------------- MODULE LiveTrading ----------------------------
(***************************************************************************)
(* The live mode: the reconciliation cycle of services/reconciler.ts run   *)
(* by services/monitor.ts, the message handlers of services/user-stream.ts *)
(* and the execution tables of ExecutionLedger, against an exchange, a     *)
(* network and an operator.  The follower is one JavaScript thread: its    *)
(* code runs in turns that end at an await, and a turn that commits two    *)
(* transactions is two steps between which only a crash, the exchange or   *)
(* the operator can come.                                                  *)
(*                                                                         *)
(* Abstracted: which token, side and size an order has; the statuses MINED *)
(* and RETRYING, which change the tables as MATCHED does; the two sources  *)
(* of the kill switch, which KillSwitch models and which are one flag here.*)
(***************************************************************************)
EXTENDS Naturals, FiniteSets

CONSTANTS
    MaxAttempts,    \* bound: order intents in a behaviour
    Fills,          \* trades an exchange makes of one FOK order
    Days,           \* bound: Events the Series discovery goes through
    FaultKinds,     \* what may go wrong
    MaxFaults       \* bound: how many faults in a behaviour

Kinds == {"crash", "drop", "silent", "alert", "http", "clear", "arm"}

ASSUME LiveAssumption ==
    /\ MaxAttempts \in Nat \ {0} /\ Fills \in Nat \ {0} /\ Days \in Nat \ {0}
    /\ FaultKinds \subseteq Kinds
    /\ MaxFaults \in Nat

Attempts == 1..MaxAttempts
EventIds == 1..Days
Trades   == Attempts \X (1..Fills)

VARIABLES
    state, eventId, orderId, links, tradeLog, orderLog, stale,  \* the tables
    armed,      \* the persistent kill switch
    pc,         \* where the cycle, or the process, is
    first,      \* the cycle is the one monitor.run makes before its loop
    event,      \* the Event followed, in reconciler and stream alike
    seen,       \* the fills in the public positions the cycle has read
    todo,       \* the polled trade reports not recorded yet
    healthy,    \* authenticatedLedgerHealthy
    conn,       \* the user WebSocket
    handler,    \* "armFailed": a message handler between its two commits
    requests,   \* exchange: attempts whose order request went out
    placed,     \* exchange: requests it took
    cancelled,  \* exchange: orders it cancelled
    trade,      \* exchange: the status of each trade
    faults,     \* faults so far
    excused,    \* history: the switch was cleared, or a crash kept it from being armed
    late        \* history: orders sent since the switch was last armed

tables   == <<state, eventId, orderId, links, tradeLog, orderLog, stale>>
cycle    == <<first, event, seen, todo, healthy>>
exchange == <<requests, placed, cancelled, trade>>
history  == <<excused, late>>
vars == <<tables, armed, pc, cycle, conn, handler, exchange, faults, history>>

-----------------------------------------------------------------------------
\* Reports about the trades and orders of the attempts.  An order id stands for
\* its attempt; the event of a report is the event of its market.
TradeReport(t, status, origin) ==
    [event |-> eventId[t[1]], trade |-> t, status |-> status,
     orders |-> {t[1]}, origin |-> origin]

Cancellation(a) ==
    [event |-> eventId[a], order |-> a, type |-> "CANCELLATION", fill |-> 0]

Ledger == INSTANCE ExecutionLedger WITH
    Events <- EventIds, Orders <- Attempts, Origins <- {"stream", "poll"},
    Fills <- {0}, NoOrder <- 0, NoEvent <- 0,
    TradeReports <- {[event |-> e, trade |-> t, status |-> s,
                      orders |-> {t[1]}, origin |-> o] :
                        e \in EventIds, t \in Trades,
                        s \in {"MATCHED", "CONFIRMED", "FAILED"},
                        o \in {"stream", "poll"}},
    OrderReports <- {[event |-> e, order |-> a, type |-> "CANCELLATION",
                      fill |-> 0] : e \in EventIds, a \in Attempts}

Unresolved == Ledger!UnresolvedAttempts

\* Follower code that runs without an await: no message handler comes between.
Turn == {"record", "armFailed", "armIntent"}
Places == Turn \cup
    {"down", "hung", "idle", "trades", "alertConfirmed", "armWait", "planning",
     "gate", "gateFile", "preflight", "intent", "posting", "alertAccepted"}

Up   == pc # "down"
Busy == pc \in Turn \/ handler = "armFailed"

TypeOK ==
    /\ Ledger!TypeOK
    /\ armed \in BOOLEAN /\ first \in BOOLEAN /\ healthy \in BOOLEAN
    /\ pc \in Places
    /\ event \in EventIds
    /\ seen \subseteq Trades
    /\ todo \subseteq {TradeReport(t, s, "poll") :
                         t \in Trades, s \in {"MATCHED", "CONFIRMED", "FAILED"}}
    /\ conn \in {"closed", "open", "silent", "gone"}
    /\ handler \in {"free", "armFailed"}
    /\ requests \subseteq Attempts /\ placed \subseteq requests
    /\ cancelled \subseteq placed
    /\ trade \in [Trades -> {"none", "MATCHED", "CONFIRMED", "FAILED"}]
    /\ faults \in 0..MaxFaults
    /\ excused \in BOOLEAN /\ late \in 0..2

Init ==
    /\ Ledger!Init
    /\ armed = FALSE /\ pc = "down" /\ first = TRUE /\ event = 1
    /\ seen = {} /\ todo = {} /\ healthy = FALSE
    /\ conn = "closed" /\ handler = "free"
    /\ requests = {} /\ placed = {} /\ cancelled = {}
    /\ trade = [t \in Trades |-> "none"]
    /\ faults = 0
    /\ excused = FALSE /\ late = 0

-----------------------------------------------------------------------------
Fault(kind) ==
    /\ kind \in FaultKinds /\ faults < MaxFaults
    /\ faults' = faults + 1

\* safety.arm: the row is set in the caller's turn.
Arm ==
    /\ armed' = TRUE
    /\ late' = IF armed THEN late ELSE 0
    /\ UNCHANGED excused

\* runOnce returns: the monitor sleeps and polls again.
Return == pc' = "idle" /\ first' = FALSE

\* runOnce throws: the loop of the monitor catches it, but the run before the
\* loop is outside its try, and the finally waits for the stream task.
Throw == pc' = (IF first THEN "hung" ELSE "idle") /\ UNCHANGED first

-----------------------------------------------------------------------------
\* Mutant: a restart forgets the attempts left open.
StartForgetting ==
    /\ pc = "down" /\ ~armed
    /\ state' = [a \in Attempts |-> IF a \in Unresolved THEN "none" ELSE state[a]]
    /\ stale' = {}
    /\ pc' = "idle" /\ first' = TRUE /\ conn' = "closed"
    /\ seen' = {} /\ todo' = {} /\ healthy' = FALSE
    /\ UNCHANGED <<eventId, orderId, links, tradeLog, orderLog, armed, event, handler,
                   exchange, faults, history>>

\* main: systemd starts the process again; assertCanTrade ends it when armed.
Start ==
    /\ pc = "down" /\ ~armed
    /\ pc' = "idle" /\ first' = TRUE /\ conn' = "closed"
    /\ seen' = {} /\ todo' = {} /\ healthy' = FALSE
    /\ UNCHANGED <<tables, armed, event, handler, exchange, faults, history>>

\* The process dies between two commits or at an await.
Crash ==
    /\ Up /\ Fault("crash")
    /\ pc' = "down" /\ first' = TRUE
    /\ conn' = "closed" /\ handler' = "free"
    /\ seen' = {} /\ todo' = {} /\ healthy' = FALSE
    /\ excused' = (excused \/ Busy \/ pc \in {"intent", "posting"})
    /\ UNCHANGED <<tables, armed, event, exchange, late>>

\* The stream task has ended: run rejects, the process exits and is restarted.
HungExit ==
    /\ pc = "hung" /\ conn = "gone" /\ ~Busy
    /\ pc' = "down"
    /\ UNCHANGED <<tables, armed, cycle, conn, handler, exchange, faults, history>>

\* The monitor discovers the Event of the day, tells the stream, which closes an
\* open socket subscribed to other markets, one that is half-open included but not
\* one in its handshake, and runOnce reads the positions.  The public API may lag
\* behind any fill.
StartCycle ==
    /\ pc = "idle" /\ ~Busy
    /\ \E next \in {event, event + 1} \cap EventIds :
          /\ event' = next
          /\ \/ next # event /\ conn \in {"open", "silent"} /\ conn' = "closed"
             \/ (next # event => conn # "open") /\ UNCHANGED conn
    /\ seen' \in SUBSET {t \in Trades : trade[t] \in {"MATCHED", "CONFIRMED"}
                                        /\ eventId[t[1]] = event'}
    /\ pc' = "trades" /\ todo' = {} /\ healthy' = FALSE
    /\ UNCHANGED <<tables, armed, first, handler, exchange, faults, history>>

\* getTrades, with the comparison of reconstructEventLedger that follows it: a
\* FAILED trade does not count, any other must be in the positions read before.
FetchTrades ==
    /\ pc = "trades" /\ ~Busy
    /\ LET here == {t \in Trades : trade[t] # "none" /\ eventId[t[1]] = event}
       IN  /\ todo' = {TradeReport(t, trade[t], "poll") : t \in here}
           /\ healthy' = (seen = {t \in here : trade[t] # "FAILED"})
    /\ pc' = "record" /\ seen' = {}
    /\ UNCHANGED <<tables, armed, first, event, conn, handler, exchange, faults, history>>

\* One trade of the poll is recorded; the number of attempts it moved decides
\* what follows.
RecordTrade ==
    /\ pc = "record"
    /\ \E u \in todo :
          /\ todo' = todo \ {u}
          /\ Ledger!recordTradeLifecycle(u)
          /\ pc' = CASE Ledger!Transitioned(u) = {} -> "record"
                     [] u.status = "CONFIRMED"      -> "alertConfirmed"
                     [] u.status = "FAILED"         -> "armFailed"
                     [] OTHER                       -> "record"
    /\ UNCHANGED <<armed, first, event, seen, healthy, conn, handler, exchange,
                   faults, history>>

ConfirmedAlert ==
    /\ pc = "alertConfirmed" /\ ~Busy
    /\ \/ pc' = "record" /\ UNCHANGED <<first, faults>>
       \/ Fault("alert") /\ Throw
    /\ UNCHANGED <<tables, armed, event, seen, todo, healthy, conn, handler,
                   exchange, history>>

\* Mutant: a trade the poll finds FAILED is only logged.
RecordedFailureIgnored ==
    /\ pc = "armFailed"
    /\ pc' = "armWait"
    /\ UNCHANGED <<tables, armed, cycle, conn, handler, exchange, faults, history>>

\* A polled trade FAILED: the second commit of the turn, then the await of arm.
ArmForFailedTrade ==
    /\ pc = "armFailed"
    /\ Arm
    /\ pc' = "armWait"
    /\ UNCHANGED <<tables, cycle, conn, handler, exchange, faults>>

ArmReturns ==
    /\ pc = "armWait" /\ ~Busy
    /\ pc' = "record"
    /\ UNCHANGED <<tables, armed, cycle, conn, handler, exchange, faults, history>>

\* The loop is done: a ledger that disagrees with the positions arms the switch.
Compare ==
    /\ pc = "record" /\ todo = {}
    /\ IF healthy THEN UNCHANGED <<armed, history>> ELSE Arm
    /\ pc' = "planning"
    /\ UNCHANGED <<tables, cycle, conn, handler, exchange, faults>>

\* Order books, plan and decision audit; a failed audit alert ends the cycle.
Audit ==
    /\ pc = "planning" /\ ~Busy
    /\ \/ /\ pc' = "gate"
          /\ UNCHANGED <<first, armed, faults, history>>
       \/ /\ Fault("alert")
          /\ Arm
          /\ Return
    /\ UNCHANGED <<tables, event, seen, todo, healthy, conn, handler, exchange>>

-----------------------------------------------------------------------------
\* Mutant: the cycle does not ask the kill switch.
GateWithoutSwitch ==
    /\ pc = "gate" /\ ~Busy
    /\ IF healthy /\ conn = "open"
       THEN pc' = "gateFile" /\ UNCHANGED first
       ELSE Return
    /\ UNCHANGED <<tables, armed, event, seen, todo, healthy, conn, handler,
                   exchange, faults, history>>

\* The ledger, the stream and the row of the kill switch are asked in a turn; a
\* set row makes assertCanTrade throw.
Gate ==
    /\ pc = "gate" /\ ~Busy
    /\ \/ /\ ~healthy \/ conn # "open"
          /\ Return
       \/ /\ healthy /\ conn = "open" /\ armed
          /\ Throw
       \/ /\ healthy /\ conn = "open" /\ ~armed
          /\ pc' = "gateFile" /\ UNCHANGED first
    /\ UNCHANGED <<tables, armed, event, seen, todo, healthy, conn, handler,
                   exchange, faults, history>>

\* Mutant: an unresolved attempt ends the cycle before its age is asked for.
GateAttemptsNoTimeout ==
    /\ pc = "gateFile" /\ ~Busy
    /\ \/ Return
       \/ Unresolved = {} /\ pc' = "preflight" /\ UNCHANGED first
    /\ UNCHANGED <<tables, armed, event, seen, todo, healthy, conn, handler,
                   exchange, faults, history>>

\* After the await of assertCanTrade, which may still see the sentinel of an arm
\* that came meanwhile: stale attempts arm, unresolved ones end the cycle, and
\* so does a plan without an actionable decision.
GateAttempts ==
    /\ pc = "gateFile" /\ ~Busy
    /\ \/ /\ armed
          /\ Throw
          /\ UNCHANGED <<armed, history>>
       \/ /\ stale # {}
          /\ Arm
          /\ Return
       \/ /\ stale = {}
          /\ Return
          /\ UNCHANGED <<armed, history>>
       \/ /\ Unresolved = {}
          /\ pc' = "preflight"
          /\ UNCHANGED <<first, armed, history>>
    /\ UNCHANGED <<tables, event, seen, todo, healthy, conn, handler, exchange, faults>>

\* A failed preflight ends the cycle before there is an intent; a good one is
\* followed, in its turn, by the intent's INSERT and the start of its alert.
Preflight ==
    /\ pc = "preflight" /\ ~Busy
    /\ \/ /\ Return
          /\ UNCHANGED tables
       \/ \E a \in Attempts :
             /\ \A b \in Attempts : b < a => state[b] # "none"
             /\ Ledger!beginExecutionAttempt(a, event)
             /\ pc' = "intent" /\ UNCHANGED first
    /\ UNCHANGED <<armed, event, seen, todo, healthy, conn, handler, exchange,
                   faults, history>>

\* The attempt of the cycle, from its intent to its receipt.
Current == CHOOSE a \in Attempts : state[a] = "submitting"

\* Mutant: the order goes out before its audit alert is known to be delivered.
PostBeforeIntentAlert ==
    /\ pc = "intent" /\ ~Busy
    /\ requests' = requests \cup {Current}
    /\ late' = IF armed /\ late < 2 THEN late + 1 ELSE late
    /\ \/ /\ pc' = "posting"
          /\ UNCHANGED <<tables, faults>>
       \/ /\ Fault("alert")
          /\ Ledger!abortExecutionAttempt(Current)
          /\ pc' = "armIntent"
    /\ UNCHANGED <<armed, cycle, conn, handler, placed, cancelled, trade, excused>>

\* The intent's alert is delivered and the order goes out, or it is not and the
\* attempt is aborted.
Intent ==
    /\ pc = "intent" /\ ~Busy
    /\ \/ /\ requests' = requests \cup {Current}
          /\ late' = IF armed /\ late < 2 THEN late + 1 ELSE late
          /\ pc' = "posting"
          /\ UNCHANGED <<tables, faults>>
       \/ /\ Fault("alert")
          /\ Ledger!abortExecutionAttempt(Current)
          /\ pc' = "armIntent"
          /\ UNCHANGED <<requests, late>>
    /\ UNCHANGED <<armed, cycle, conn, handler, placed, cancelled, trade, excused>>

\* The second commit of the turn that aborts.
ArmForIntent ==
    /\ pc = "armIntent"
    /\ Arm
    /\ Return
    /\ UNCHANGED <<tables, event, seen, todo, healthy, conn, handler, exchange, faults>>

\* Mutant: an error of the submission is taken for a rejection.
ReceiptOrAbort ==
    /\ pc = "posting" /\ ~Busy
    /\ \/ /\ Current \in placed
          /\ \E ts \in {{}, {t \in Trades : t[1] = Current /\ trade[t] # "none"}} :
                Ledger!acceptExecutionAttempt(Current, Current, ts)
          /\ pc' = "alertAccepted"
          /\ UNCHANGED first
       \/ /\ Ledger!abortExecutionAttempt(Current)
          /\ Return
    /\ UNCHANGED <<armed, event, seen, todo, healthy, conn, handler, exchange,
                   faults, history>>

\* Mutant: an error of the submission ends the cycle like any other error.
ReceiptOrThrow ==
    /\ pc = "posting" /\ ~Busy
    /\ \/ /\ Current \in placed
          /\ \E ts \in {{}, {t \in Trades : t[1] = Current /\ trade[t] # "none"}} :
                Ledger!acceptExecutionAttempt(Current, Current, ts)
          /\ pc' = "alertAccepted"
          /\ UNCHANGED first
       \/ /\ Throw
          /\ UNCHANGED tables
    /\ UNCHANGED <<armed, event, seen, todo, healthy, conn, handler, exchange,
                   faults, history>>

\* The receipt, which may name the trades made so far; any error, a rejection
\* or a lost answer alike, arms the switch and leaves the attempt submitting.
Receipt ==
    /\ pc = "posting" /\ ~Busy
    /\ \/ /\ Current \in placed
          /\ \E ts \in {{}, {t \in Trades : t[1] = Current /\ trade[t] # "none"}} :
                Ledger!acceptExecutionAttempt(Current, Current, ts)
          /\ pc' = "alertAccepted"
          /\ UNCHANGED <<first, armed, history>>
       \/ /\ Arm
          /\ Throw
          /\ UNCHANGED tables
    /\ UNCHANGED <<event, seen, todo, healthy, conn, handler, exchange, faults>>

AcceptedAlert ==
    /\ pc = "alertAccepted" /\ ~Busy
    /\ \/ /\ Return
          /\ UNCHANGED <<armed, faults, history>>
       \/ /\ Fault("alert")
          /\ Arm
          /\ Throw
    /\ UNCHANGED <<tables, event, seen, todo, healthy, conn, handler, exchange>>

\* A request of the cycle fails where nothing catches it: discovery, positions,
\* open orders or trades.  When the first discovery fails there is no stream task
\* to wait for, and the process ends.
HttpFails ==
    /\ pc \in {"idle", "trades"} /\ ~Busy
    /\ Fault("http")
    /\ \/ Throw /\ UNCHANGED conn
       \/ /\ pc = "idle" /\ first
          /\ pc' = "down" /\ conn' = "closed" /\ UNCHANGED first
    /\ UNCHANGED <<tables, armed, event, seen, todo, healthy, handler,
                   exchange, history>>

-----------------------------------------------------------------------------
Connect ==
    /\ Up /\ conn = "closed" /\ ~Busy
    /\ conn' = "open"
    /\ UNCHANGED <<tables, armed, pc, cycle, handler, exchange, faults, history>>

Drop ==
    /\ conn = "open" /\ Fault("drop")
    /\ conn' = "closed"
    /\ UNCHANGED <<tables, armed, pc, cycle, handler, exchange, history>>

\* Half-open, or hanging in its handshake: no event of the socket ever comes,
\* and neither is given a timeout.
GoSilent ==
    /\ Up /\ conn \in {"closed", "open"} /\ Fault("silent")
    /\ conn' = "silent"
    /\ UNCHANGED <<tables, armed, pc, cycle, handler, exchange, history>>

\* No connection for userStreamUnhealthySeconds: run arms and returns for good.
Outage ==
    /\ Up /\ conn = "closed" /\ ~Busy
    /\ Arm
    /\ conn' = "gone"
    /\ UNCHANGED <<tables, pc, cycle, handler, exchange, faults>>

\* A trade message with any status the trade has had: messages may be lost,
\* late, repeated or out of order.  Other Events are outside the whitelist.
HandleTrade ==
    /\ conn = "open" /\ ~Busy
    /\ \E t \in Trades :
          /\ trade[t] # "none" /\ eventId[t[1]] = event
          /\ \E s \in {"MATCHED", trade[t]} :
                LET u == TradeReport(t, s, "stream")
                IN  /\ Ledger!recordTradeLifecycle(u)
                    /\ handler' = IF Ledger!Transitioned(u) # {} /\ s = "FAILED"
                                  THEN "armFailed" ELSE "free"
    /\ UNCHANGED <<armed, pc, cycle, conn, exchange, faults, history>>

HandlerArms ==
    /\ handler = "armFailed"
    /\ Arm
    /\ handler' = "free"
    /\ UNCHANGED <<tables, pc, cycle, conn, exchange, faults>>

HandleCancellation ==
    /\ conn = "open" /\ ~Busy
    /\ \E a \in cancelled :
          /\ eventId[a] = event
          /\ Ledger!recordUserOrderUpdate(Cancellation(a))
    /\ UNCHANGED <<armed, pc, cycle, conn, handler, exchange, faults, history>>

\* A message that cannot be parsed, or whose alert is not delivered.
HandlerFails ==
    /\ conn = "open" /\ ~Busy /\ Fault("alert")
    /\ Arm
    /\ UNCHANGED <<tables, pc, cycle, conn, handler, exchange>>

-----------------------------------------------------------------------------
\* The exchange takes a request, even after its sender gave up waiting.
Place ==
    /\ \E a \in requests \ placed : placed' = placed \cup {a}
    /\ UNCHANGED <<tables, armed, pc, cycle, conn, handler, requests, cancelled,
                   trade, faults, history>>

Unmatched(a) == \A i \in 1..Fills : trade[<<a, i>>] = "none"

\* All or nothing: the order is filled, by one trade or several, or cancelled.
Match ==
    /\ \E a \in placed \ cancelled :
          /\ Unmatched(a)
          /\ trade' = [t \in Trades |-> IF t[1] = a THEN "MATCHED" ELSE trade[t]]
    /\ UNCHANGED <<tables, armed, pc, cycle, conn, handler, requests, placed,
                   cancelled, faults, history>>

CancelOrder ==
    /\ \E a \in placed \ cancelled : Unmatched(a) /\ cancelled' = cancelled \cup {a}
    /\ UNCHANGED <<tables, armed, pc, cycle, conn, handler, requests, placed,
                   trade, faults, history>>

SettleTrade ==
    /\ \E t \in Trades, s \in {"CONFIRMED", "FAILED"} :
          trade[t] = "MATCHED" /\ trade' = [trade EXCEPT ![t] = s]
    /\ UNCHANGED <<tables, armed, pc, cycle, conn, handler, requests, placed,
                   cancelled, faults, history>>

\* terminalTimeoutSeconds pass since an attempt last moved.
Timeout ==
    /\ \E a \in Attempts : Ledger!Age(a)
    /\ UNCHANGED <<armed, pc, cycle, conn, handler, exchange, faults, history>>

\* kill-switch.ts and the documented touch, in another process.
OperatorArms ==
    /\ ~armed /\ Fault("arm")
    /\ Arm
    /\ UNCHANGED <<tables, pc, cycle, conn, handler, exchange>>

OperatorClears ==
    /\ armed /\ Fault("clear")
    /\ armed' = FALSE /\ excused' = TRUE /\ late' = 0
    /\ UNCHANGED <<tables, pc, cycle, conn, handler, exchange>>

-----------------------------------------------------------------------------
Cycle ==
    \/ Start \/ HungExit \/ StartCycle \/ FetchTrades \/ RecordTrade
    \/ ConfirmedAlert \/ ArmForFailedTrade \/ ArmReturns \/ Compare \/ Audit
    \/ Gate \/ GateAttempts \/ Preflight \/ Intent \/ ArmForIntent \/ Receipt
    \/ AcceptedAlert

Stream == HandleTrade \/ HandlerArms \/ HandleCancellation

Environment ==
    \/ Place \/ Match \/ CancelOrder \/ SettleTrade \/ Timeout \/ Connect \/ Outage
    \/ Drop \/ GoSilent \/ HandlerFails \/ HttpFails \/ Crash
    \/ OperatorArms \/ OperatorClears

Next == Cycle \/ Stream \/ Environment

Spec == Init /\ [][Next]_vars

\* The event loop goes on, timers fire, and a connection that can be opened again
\* and again is opened some time.  Nothing is assumed of the exchange, of the
\* delivery of messages or of the operator.
Fairness ==
    /\ WF_vars(Cycle)
    /\ WF_vars(HandlerArms)
    /\ WF_vars(Timeout)
    /\ SF_vars(Connect)

FairSpec == Spec /\ Fairness

-----------------------------------------------------------------------------
\* The cycle and the handlers use the tables as ExecutionLedger says.
ImplementsLedger == Ledger!Spec

\* An order has reached its end: no trade of it can change any more.
Settled(a) ==
    \/ a \in cancelled
    \/ \A i \in 1..Fills : trade[<<a, i>>] \in {"CONFIRMED", "FAILED"}

Promise == INSTANCE OneOrderAtATime WITH
    open    <- Unresolved,
    sent    <- requests,
    settled <- {a \in requests : Settled(a)},
    closed  <- {a \in Attempts : state[a] \in Ledger!Terminal}

\* Whatever crashes, is lost or comes late, an order goes out for a recorded
\* attempt only, and the next attempt is opened when it has come to its end.
ImplementsOneOrder == Promise!Spec

\* What the tables call final is what the exchange did: an order that was sent is
\* never aborted, and no verdict is taken from another order's report.
VerdictsMatchExchange ==
    \A a \in Attempts :
        /\ state[a] = "aborted"   => a \notin requests
        /\ state[a] = "cancelled" => a \in cancelled
        /\ state[a] = "confirmed" => \E i \in 1..Fills : trade[<<a, i>>] = "CONFIRMED"
        /\ state[a] = "failed"    => \E i \in 1..Fills : trade[<<a, i>>] = "FAILED"

\* After the switch is armed at most the one order leaves whose cycle had passed
\* the gate before.
AtMostOneLateOrder == late <= 1

\* Between two turns.
Quiet == pc = "idle" /\ handler = "free"

\* A FAILED trade that the poll has recorded stops live trading (README.md:67),
\* unless an operator clears the switch or the process dies between the commit
\* that records the trade and the one that arms.
RecordedFailureArms ==
    Quiet /\ ~excused /\ (\E u \in tradeLog : u.status = "FAILED" /\ u.origin = "poll")
        => armed

\* An order whose submission has no answer stops live trading: once its cycle is
\* over the switch is armed, with the same two exceptions.
AmbiguousOrderArms ==
    Quiet /\ ~excused /\ (\E a \in Attempts : state[a] = "submitting") => armed

\* An attempt does not stay open for ever without a stop: it is resolved, or the
\* terminal timeout or another failure arms the switch (README.md:67).
OpenAttemptEnds ==
    \A a \in Attempts :
        (a \in Unresolved) ~> (a \notin Unresolved \/ armed)
=============================================================================
