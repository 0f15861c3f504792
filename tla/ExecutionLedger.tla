-------------------------- MODULE ExecutionLedger --------------------------
(***************************************************************************)
(* The tables of persistence/database.ts that decide whether a live order  *)
(* may be sent: execution_attempts, execution_attempt_trades and the two   *)
(* logs of deduplicated reports, user_stream_events (trades) and           *)
(* user_order_events (orders).  Columns are functions on attempt ids; a    *)
(* row that does not exist has state "none".  Every method is one SQLite   *)
(* transaction, hence one action; the callers may interleave them freely.  *)
(***************************************************************************)
EXTENDS FiniteSets

CONSTANTS
    Attempts,       \* attempt_id values
    Events,         \* event_id values
    Orders,         \* order ids the exchange hands out
    Trades,         \* trade ids the exchange hands out
    Origins,        \* the rest of a trade fingerprint: transaction hash, source
    Fills,          \* size_matched / original_size of an order event
    TradeReports,   \* the trade reports stream and poll may deliver
    OrderReports,   \* the order reports the stream may deliver
    NoOrder,        \* SQL NULL in order_id
    NoEvent         \* event of a row that does not exist

Status    == {"MATCHED", "MINED", "RETRYING", "CONFIRMED", "FAILED"}
OrderType == {"PLACEMENT", "UPDATE", "CANCELLATION"}

TradeReport == [event: Events, trade: Trades, status: Status,
                orders: SUBSET Orders, origin: Origins]
OrderReport == [event: Events, order: Orders, type: OrderType, fill: Fills]

ASSUME LedgerAssumption ==
    /\ NoOrder \notin Orders
    /\ NoEvent \notin Events
    /\ TradeReports \subseteq TradeReport
    /\ OrderReports \subseteq OrderReport

VARIABLES
    state,      \* execution_attempts.state
    eventId,    \* execution_attempts.event_id
    orderId,    \* execution_attempts.order_id
    links,      \* execution_attempt_trades
    tradeLog,   \* user_stream_events, one element per fingerprint
    orderLog,   \* user_order_events, one element per fingerprint
    stale       \* unresolved attempts whose updated_at is past the timeout

vars == <<state, eventId, orderId, links, tradeLog, orderLog, stale>>

Unresolved == {"submitting", "accepted", "matched", "mined", "retrying"}
Terminal   == {"confirmed", "failed", "cancelled", "aborted"}

TypeOK ==
    /\ state    \in [Attempts -> {"none"} \cup Unresolved \cup Terminal]
    /\ eventId  \in [Attempts -> Events \cup {NoEvent}]
    /\ orderId  \in [Attempts -> Orders \cup {NoOrder}]
    /\ links    \subseteq Attempts \X Trades
    /\ tradeLog \subseteq TradeReports
    /\ orderLog \subseteq OrderReports
    /\ stale    \subseteq {a \in Attempts : state[a] \in Unresolved}

-----------------------------------------------------------------------------
\* The rows of the partial index and of hasAnyUnresolvedExecutionAttempt.
UnresolvedAttempts == {a \in Attempts : state[a] \in Unresolved}

\* Mutant: the status is stored as it comes.
NextStateAsReported(status) == status

\* The state a report brings: the status in lower case.
NextState(status) ==
    [MATCHED |-> "matched", MINED |-> "mined", RETRYING |-> "retrying",
     CONFIRMED |-> "confirmed", FAILED |-> "failed"][status]

\* Mutant: the event is not part of the join.
LinkedAnyEvent(u) ==
    IF u \in tradeLog THEN {}
    ELSE {a \in Attempts : /\ state[a] # "none"
                           /\ \/ orderId[a] \in u.orders
                              \/ <<a, u.trade>> \in links}

\* Mutant: a report already in the log is joined and applied again.
LinkedDespiteDuplicate(u) ==
    {a \in Attempts : /\ eventId[a] = u.event
                      /\ \/ orderId[a] \in u.orders
                         \/ <<a, u.trade>> \in links}

\* The attempts a trade report is about; a duplicate never reaches the join.
Linked(u) ==
    IF u \in tradeLog THEN {}
    ELSE {a \in Attempts : /\ eventId[a] = u.event
                           /\ \/ orderId[a] \in u.orders
                              \/ <<a, u.trade>> \in links}

\* Mutant: the UPDATE has lost its condition on the state.
TransitionedAnyState(u) == Linked(u)

\* The attempts whose state a trade report changes; the method returns how many.
Transitioned(u) == Linked(u) \cap UnresolvedAttempts

\* Mutant: an order without a known id is matched by its event alone.
CancelledByEvent(v) ==
    IF v \in orderLog \/ v.type # "CANCELLATION" THEN {}
    ELSE {a \in UnresolvedAttempts : /\ eventId[a] = v.event
                                     /\ orderId[a] \in {v.order, NoOrder}}

\* Mutant: the UPDATE of a cancellation has lost its condition on the state.
CancelledAnyState(v) ==
    IF v \in orderLog \/ v.type # "CANCELLATION" THEN {}
    ELSE {a \in Attempts : eventId[a] = v.event /\ orderId[a] = v.order}

\* The attempts an order report cancels.
Cancelled(v) ==
    IF v \in orderLog \/ v.type # "CANCELLATION" THEN {}
    ELSE {a \in UnresolvedAttempts : eventId[a] = v.event /\ orderId[a] = v.order}

-----------------------------------------------------------------------------
Init ==
    /\ state    = [a \in Attempts |-> "none"]
    /\ eventId  = [a \in Attempts |-> NoEvent]
    /\ orderId  = [a \in Attempts |-> NoOrder]
    /\ links    = {}
    /\ tradeLog = {}
    /\ orderLog = {}
    /\ stale    = {}

\* INSERT; the primary key and the index on unresolved rows refuse it otherwise.
beginExecutionAttempt(a, e) ==
    /\ state[a] = "none"
    /\ UnresolvedAttempts = {}
    /\ state'   = [state EXCEPT ![a] = "submitting"]
    /\ eventId' = [eventId EXCEPT ![a] = e]
    /\ UNCHANGED <<orderId, links, tradeLog, orderLog, stale>>

\* The receipt of order o, with the trades the exchange already names.  The row
\* changes only out of "submitting"; the trades are linked in any case.
acceptExecutionAttempt(a, o, ts) ==
    /\ state[a] # "none"
    /\ \/ /\ state[a] = "submitting"
          /\ state'   = [state EXCEPT ![a] = "accepted"]
          /\ orderId' = [orderId EXCEPT ![a] = o]
          /\ stale'   = stale \ {a}
       \/ /\ state[a] # "submitting"
          /\ UNCHANGED <<state, orderId, stale>>
    /\ links' = links \cup ({a} \X ts)
    /\ UNCHANGED <<eventId, tradeLog, orderLog>>

abortExecutionAttempt(a) ==
    /\ state[a] = "submitting"
    /\ state' = [state EXCEPT ![a] = "aborted"]
    /\ stale' = stale \ {a}
    /\ UNCHANGED <<eventId, orderId, links, tradeLog, orderLog>>

recordTradeLifecycle(u) ==
    /\ tradeLog' = tradeLog \cup {u}
    /\ links'    = links \cup (Linked(u) \X {u.trade})
    /\ state'    = [a \in Attempts |-> IF a \in Transitioned(u)
                                       THEN NextState(u.status) ELSE state[a]]
    /\ stale'    = stale \ Transitioned(u)
    /\ UNCHANGED <<eventId, orderId, orderLog>>

recordUserOrderUpdate(v) ==
    /\ orderLog' = orderLog \cup {v}
    /\ state'    = [a \in Attempts |-> IF a \in Cancelled(v)
                                       THEN "cancelled" ELSE state[a]]
    /\ stale'    = stale \ Cancelled(v)
    /\ UNCHANGED <<eventId, orderId, links, tradeLog>>

\* Time: terminalTimeoutSeconds pass and updated_at has not moved.
Age(a) ==
    /\ a \in UnresolvedAttempts \ stale
    /\ stale' = stale \cup {a}
    /\ UNCHANGED <<state, eventId, orderId, links, tradeLog, orderLog>>

Next ==
    \/ \E a \in Attempts, e \in Events : beginExecutionAttempt(a, e)
    \/ \E a \in Attempts, o \in Orders, ts \in SUBSET Trades :
           acceptExecutionAttempt(a, o, ts)
    \/ \E a \in Attempts : abortExecutionAttempt(a)
    \/ \E u \in TradeReports : recordTradeLifecycle(u)
    \/ \E v \in OrderReports : recordUserOrderUpdate(v)
    \/ \E a \in Attempts : Age(a)

Spec == Init /\ [][Next]_vars

-----------------------------------------------------------------------------
\* One order at a time: whatever order reports come in, repeated or late, no two
\* attempts are ever unresolved together (the partial unique index).
AtMostOneUnresolved ==
    \A a, b \in UnresolvedAttempts : a = b

\* No verdict out of thin air: the state of an attempt past its receipt is the
\* one of a report in the log, of the attempt's own event, about one of its
\* trades or about its order.
VerdictHasEvidence ==
    \A a \in Attempts :
        /\ state[a] \in {"matched", "mined", "retrying", "confirmed", "failed"} =>
              \E u \in tradeLog : /\ u.event = eventId[a]
                                  /\ NextState(u.status) = state[a]
                                  /\ <<a, u.trade>> \in links
        /\ state[a] = "cancelled" =>
              \E v \in orderLog : /\ v.type = "CANCELLATION"
                                  /\ v.event = eventId[a]
                                  /\ v.order = orderId[a]

\* A verdict is final: a late, repeated or reordered report never reopens an
\* attempt nor turns one terminal state into another.
TerminalIsFinal ==
    [][\A a \in Attempts : state[a] \in Terminal => state'[a] = state[a]]_vars

\* An attempt whose submission got no answer is out of reach of every report of
\* stream and poll: only the receipt or the local abort moves it.
SubmittingNeedsAnswer ==
    [][\A a \in Attempts : state[a] = "submitting" =>
           state'[a] \in {"submitting", "accepted", "aborted"}]_vars

\* The terminal timeout is put off by news only: the poll repeats every trade it
\* has reported before in each cycle, and none of these repeats may refresh an
\* attempt that still waits.
RepeatsDoNotRefresh ==
    [][\A a \in Attempts :
           a \in stale /\ a \notin stale' /\ state'[a] = state[a] =>
               \E u \in TradeReports : u \in tradeLog' \ tradeLog
                                       /\ NextState(u.status) = state[a]]_vars
=============================================================================
