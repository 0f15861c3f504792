----------------------------- MODULE Rebalance -----------------------------
(***************************************************************************)
(* What a run of cycles does to the follower's holdings.  runOnce of       *)
(* services/reconciler.ts reads the leader's positions, the books and the  *)
(* account, plans (TargetPosition) and sends at most one fill-or-kill      *)
(* order; the leader and the market move between cycles; the data API may  *)
(* show a position as gone for one snapshot, and a book request may fail.  *)
(* Books may change between plan and order, too, and the operator may have *)
(* an order of his own in the book.  How an order is sent and followed is  *)
(* the subject of LiveTrading: here it is filled or it is not.             *)
(***************************************************************************)
EXTENDS TargetPosition

CONSTANTS
    LeaderPositions,    \* what the data API may say of one token
    Books,              \* order books, best level first
    OwnOrders,          \* orders of the operator: shares, negative for a SELL
    MaxMoves            \* bound: moves of the leader and the market, and faults

\* A book is a request's answer, sorted.
BestFirst(book) ==
    /\ \A i, j \in DOMAIN book.asks : i < j => book.asks[i].price <= book.asks[j].price
    /\ \A i, j \in DOMAIN book.bids : i < j => book.bids[i].price >= book.bids[j].price

ASSUME RebalanceAssumption ==
    /\ LeaderPositions \subseteq [size : Nat, avgPrice : Nat]
    /\ Books \subseteq [asks : Seq([price : 1..Ticks, size : Nat]),
                        bids : Seq([price : 1..Ticks, size : Nat])]
    /\ \A book \in Books : BestFirst(book)
    /\ OwnOrders \subseteq Int \ {0}
    /\ MaxMoves \in Nat

Nothing == [size |-> 0, avgPrice |-> 0]

ASSUME NothingAssumption == Nothing \in LeaderPositions

VARIABLES
    leader,             \* the leader's positions
    market,             \* the order books
    buyable,            \* the tokens that may be bought: Event and market open
    held,               \* the follower's shares
    resting,            \* the operator's order in the book of each token, 0: none
    cost,               \* what they have cost (tokenLedger.costBasis)
    loss,               \* realizedLoss
    zeros,              \* consecutive_zero, up to the 2 that confirm an exit
    pc,                 \* "read" or "act": the cycle's two halves
    order,              \* the first order of the plan, or NoOrder
    moves,              \* moves so far
    sold,               \* history: the tokens with a SELL planned since the last move
    gone                \* history: the tokens without a position in the last snapshot

NoOrder == [side |-> "NONE"]
Orders  == [side : {"BUY", "SELL"}, token : Tokens, amount : Nat \ {0}, worstPrice : 1..Ticks]

vars == <<leader, market, buyable, held, resting, cost, loss, zeros, pc, order, moves, sold, gone>>

TypeOK ==
    /\ leader \in [Tokens -> LeaderPositions]
    /\ market \in [Tokens -> Books]
    /\ buyable \subseteq Tokens
    /\ held \in [Tokens -> Nat]
    /\ resting \in [Tokens -> OwnOrders \cup {0}]
    /\ cost \in [Tokens -> Nat]
    /\ loss \in Nat
    /\ zeros \in [Tokens -> 0..2]
    /\ pc \in {"read", "act"}
    /\ order \in Orders \cup {NoOrder}
    /\ moves \in 0..MaxMoves
    /\ sold \subseteq Tokens
    /\ gone \subseteq Tokens

Init ==
    /\ leader = [t \in Tokens |-> Nothing]
    /\ market \in { [t \in Tokens |-> b] : b \in Books }
    /\ buyable = Tokens
    /\ held = [t \in Tokens |-> 0]
    /\ resting = [t \in Tokens |-> 0]
    /\ cost = [t \in Tokens |-> 0]
    /\ loss = 0
    /\ zeros = [t \in Tokens |-> 0]
    /\ pc = "read"
    /\ order = NoOrder
    /\ moves = 0
    /\ sold = {}
    /\ gone = {}

-----------------------------------------------------------------------------
Move ==
    /\ moves < MaxMoves
    /\ moves' = moves + 1
    /\ sold' = {}

LeaderMoves ==
    /\ Move
    /\ \E t \in Tokens : \E position \in LeaderPositions \ {leader[t]} :
         leader' = [leader EXCEPT ![t] = position]
    /\ UNCHANGED <<market, buyable, held, resting, cost, loss, zeros, pc, order, gone>>

MarketMoves ==
    /\ Move
    /\ \E t \in Tokens : \E book \in Books \ {market[t]} :
         market' = [market EXCEPT ![t] = book]
    /\ UNCHANGED <<leader, buyable, held, resting, cost, loss, zeros, pc, order, gone>>

\* A market stops accepting orders, or the Event's buy window ends.
BuyingEnds ==
    /\ Move
    /\ \E still \in SUBSET buyable \ {buyable} : buyable' = still
    /\ UNCHANGED <<leader, market, held, resting, cost, loss, zeros, pc, order, gone>>

-----------------------------------------------------------------------------
\* The operator's own orders, seen by every cycle (getOpenOrders).

Placed ==
    /\ Move
    /\ \E t \in Tokens, own \in OwnOrders :
         /\ resting[t] = 0 /\ held[t] + own >= 0
         /\ resting' = [resting EXCEPT ![t] = own]
    /\ UNCHANGED <<leader, market, buyable, held, cost, loss, zeros, pc, order, gone>>

Cancelled ==
    /\ Move
    /\ \E t \in Tokens :
         /\ resting[t] # 0
         /\ resting' = [resting EXCEPT ![t] = 0]
    /\ UNCHANGED <<leader, market, buyable, held, cost, loss, zeros, pc, order, gone>>

-----------------------------------------------------------------------------
\* Mutant: zeros count, consecutive or not.
CountEveryZero(snapshot) ==
    [t \in Tokens |-> IF snapshot[t].size = 0 THEN Lower(zeros[t] + 1, 2) ELSE zeros[t]]

\* The new consecutive_zero of every token.
observeLeaderPositions(snapshot) ==
    [t \in Tokens |-> IF snapshot[t].size = 0 THEN Lower(zeros[t] + 1, 2) ELSE 0]

\* What the cycle plans from, with some books not fetched.
Input(snapshot, missing) ==
    LET observed == observeLeaderPositions(snapshot)
        active   == { t \in Tokens : snapshot[t].size > 0 \/ held[t] > 0 }
    IN  [leader      |-> snapshot,
         held        |-> held,
         resting     |-> resting,
         books       |-> [t \in active \ missing |-> market[t]],
         loss        |-> loss,
         buyable     |-> buyable,
         unconfirmed |-> { t \in Tokens : snapshot[t].size = 0 /\ observed[t] < 2 }]

First(plan) == IF plan = <<>> THEN NoOrder ELSE Head(plan)

\* The first half of a cycle, with this snapshot of the leader and without these
\* books: maxOrdersPerCycle is one.
Plan(snapshot, missing) ==
    /\ pc = "read" /\ pc' = "act"
    /\ zeros' = observeLeaderPositions(snapshot)
    /\ gone' = { t \in Tokens : snapshot[t].size = 0 }
    /\ order' = First(buildReconciliationPlan(Input(snapshot, missing)))
    /\ UNCHANGED <<leader, market, buyable, held, resting, cost, loss>>

Reconcile ==
    /\ Plan(leader, {})
    /\ sold' = IF order'.side = "SELL" THEN sold \cup {order'.token} ELSE sold
    /\ UNCHANGED moves

\* The data API does not show one of the leader's positions.
ReconcileGlitch ==
    /\ Move
    /\ \E t \in Tokens : leader[t].size > 0 /\ Plan([leader EXCEPT ![t] = Nothing], {})

\* One of the books cannot be fetched.
ReconcileBlind ==
    /\ Move
    /\ \E t \in Tokens : (leader[t].size > 0 \/ held[t] > 0) /\ Plan(leader, {t})

-----------------------------------------------------------------------------
\* Mutant: gains pay for losses.
BookNetOfGains(t, size, proceeds) ==
    LET released == (cost[t] * size) \div held[t]
    IN  /\ cost' = [cost EXCEPT ![t] = IF held[t] = size THEN 0 ELSE cost[t] - released]
        /\ loss' = Higher(0, loss + released - proceeds)

\* Mutant: a sale releases what it brings, not what was paid.
BookSaleAtMarket(t, size, proceeds) ==
    LET released == (cost[t] * size) \div held[t]
    IN  /\ cost' = [cost EXCEPT ![t] = IF held[t] = size THEN 0 ELSE cost[t] - proceeds]
        /\ loss' = loss + Higher(0, released - proceeds)

\* reconstructEventLedger on a SELL: the average cost of what is sold is
\* released, and a loss, never a gain, is added up.
BookSale(t, size, proceeds) ==
    LET released == (cost[t] * size) \div held[t]
    IN  /\ cost' = [cost EXCEPT ![t] = IF held[t] = size THEN 0 ELSE cost[t] - released]
        /\ loss' = loss + Higher(0, released - proceeds)

\* The shares an amount of money buys at the asks up to a price: as many as it
\* pays for, fee included, and none if the asks do not take the whole amount.
SharesFor(book, amount, worstPrice) ==
    LET depth == MapThenSumSet(LAMBDA i : book.asks[i].size,
                               { i \in DOMAIN book.asks : book.asks[i].price <= worstPrice })
        Debit == [shares \in 0..depth |-> TotalDebit(quoteBuy(book, shares, 1..worstPrice))]
    IN  IF Debit[depth] < amount THEN 0
        ELSE Max({ shares \in 0..depth : Debit[shares] <= amount })

Money(shares, price) == shares * price * Ticks * FeeScale

Filled(t, shares) ==
    /\ held' = [held EXCEPT ![t] = held[t] + shares]
    /\ cost' = [cost EXCEPT ![t] = cost[t] + TotalDebit(quoteBuy(market[t], shares, AnyPrice))]
    /\ UNCHANGED loss

\* An order of the operator is matched at its own side of the book, as a maker
\* without a fee.
OwnOrderFills ==
    /\ Move
    /\ \E t \in Tokens :
         /\ resting[t] # 0 /\ held[t] + resting[t] >= 0
         /\ resting' = [resting EXCEPT ![t] = 0]
         /\ held' = [held EXCEPT ![t] = held[t] + resting[t]]
         /\ \/ /\ resting[t] > 0 /\ market[t].bids # <<>>
               /\ cost' = [cost EXCEPT ![t] = cost[t] + Money(resting[t], market[t].bids[1].price)]
               /\ UNCHANGED loss
            \/ /\ resting[t] < 0 /\ market[t].asks # <<>>
               /\ BookSale(t, -resting[t], Money(-resting[t], market[t].asks[1].price))
    /\ UNCHANGED <<leader, market, buyable, zeros, pc, order, gone>>

BuyFills ==
    /\ order.side = "BUY"
    /\ \E shares \in {SharesFor(market[order.token], order.amount, order.worstPrice)} :
         shares > 0 /\ Filled(order.token, shares)

OrderedSale == quoteSell(market[order.token], order.amount, order.worstPrice..Ticks)

\* preflightFok: the shares are there.
Covered == order.amount <= held[order.token]

SellFills ==
    /\ order.side = "SELL" /\ Covered /\ Complete(OrderedSale)
    /\ held' = [held EXCEPT ![order.token] = held[order.token] - order.amount]
    /\ BookSale(order.token, order.amount, NetProceeds(OrderedSale))

\* The market has no room for the whole order, or the preflight fails.
Kill ==
    /\ \/ /\ order.side = "BUY"
          /\ SharesFor(market[order.token], order.amount, order.worstPrice) = 0
       \/ /\ order.side = "SELL"
          /\ ~(Covered /\ Complete(OrderedSale))
    /\ UNCHANGED <<held, cost, loss>>

\* The second half: the order, if there is one, is sent.
Act ==
    /\ pc = "act" /\ pc' = "read"
    /\ \/ order = NoOrder /\ UNCHANGED <<held, cost, loss>>
       \/ order # NoOrder /\ (BuyFills \/ SellFills \/ Kill)
    /\ order' = NoOrder
    /\ UNCHANGED <<leader, market, buyable, resting, zeros, moves, sold, gone>>

\* It is not: a closed gate, a failed preflight, or a mode that sends nothing.
Hold ==
    /\ pc = "act" /\ pc' = "read"
    /\ order' = NoOrder
    /\ UNCHANGED <<leader, market, buyable, held, resting, cost, loss, zeros, moves, sold, gone>>

Next ==
    \/ LeaderMoves \/ MarketMoves \/ BuyingEnds
    \/ Placed \/ Cancelled \/ OwnOrderFills
    \/ Reconcile \/ ReconcileGlitch \/ ReconcileBlind
    \/ Act \/ Hold

Spec == Init /\ [][Next]_vars

\* Cycles go on for ever, and are not kept from sending for ever.  (Act is
\* always two steps away at most.)
FairSpec == Spec /\ []<><<Act>>_vars

-----------------------------------------------------------------------------
\* The estimate grows with the scale, and no larger scale is affordable than one
\* that is not: what CapScale assumes of its curves, and without which the
\* bisection of solveCapScale would miss the largest position that fits.
CurveRises ==
    LET input == Input(leader, {})
        affordable == { k \in 0..Grid : Fits(k, RawTargets(input), input.books,
                                            calculateAvailableRisk(loss)) }
    IN  \A k \in affordable : k = 0 \/ k - 1 \in affordable

\* The rounds of the bisection find the largest scale that fits: a target is not
\* smaller than the cap and the asks make it, and is not one that they do not cover.
LargestScale ==
    LET input     == Input(leader, {})
        raw       == RawTargets(input)
        available == calculateAvailableRisk(loss)
        scale     == solveCapScale(raw, input.books, available)
    IN  \A k \in 0..Grid : Fits(k, raw, input.books, available) <=> k <= scale

\* A BUY is planned for a position that, with what the operator's own order adds
\* and at the asks of the moment, costs no more than maxOpenDebit and than what
\* losses have left of maxEventLoss.  (An order to sell more than is held makes a
\* deficit that is no position: it is bought although the losses leave nothing.)
BuyWithinRisk ==
    [][order' # order /\ order'.side = "BUY"
       /\ held[order'.token] + resting[order'.token] >= 0 =>
         LET t      == order'.token
             shares == SharesFor(market[t], order'.amount, order'.worstPrice)
         IN  TotalDebit(quoteBuy(market[t], held[t] + resting[t] + shares, AnyPrice))
                 <= Lower(MaxOpenDebit, MaxEventLoss - loss)]_vars

\* A position is not given up for one snapshot in which the data API does not
\* show it: a SELL of what this snapshot lacks was lacking in the one before.
OneZeroSellsNothing ==
    [][order' # order /\ order'.side = "SELL" /\ order'.token \in gone'
         => order'.token \in gone]_vars

\* No churning: while neither the leader nor the market moves, no cycle buys what
\* an earlier one meant to sell (a loss lowers the cap, and no gain raises it).
NoReversalInQuietMarket ==
    [][order' # order /\ order'.side = "BUY" => order'.token \notin sold']_vars

\* Once leader, market and operator have stopped, the cycles come to a plan
\* without orders and stay there, or to a SELL of more than is held, whose
\* preflight fails in every cycle: a surplus with a BUY of the operator in it.
QuietMarketSettles ==
    <>[](\/ order = NoOrder
         \/ order.side = "SELL" /\ ~Covered /\ resting[order.token] > 0)

\* services/reconciler.ts:207, of a book that could not be fetched: "token will
\* fail closed".  A cycle with a full snapshot sells no token that it would not
\* have sold with all books.
BlindSellsNoMore ==
    [][/\ order' # order /\ order'.side = "SELL"
       /\ gone' = { t \in Tokens : leader[t].size = 0 }
       => \E decision \in ToSet(buildReconciliationPlan(Input(leader, {}))) :
            decision.side = "SELL" /\ decision.token = order'.token]_vars
=============================================================================
