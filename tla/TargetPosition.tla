--------------------------- MODULE TargetPosition ---------------------------
(***************************************************************************)
(* The plan of one cycle: domain/target-position.ts with the quotes of     *)
(* domain/order-book.ts and domain/fees.ts.  Numbers are integers: shares  *)
(* in steps of 1/Grid, prices in ticks of 1/Ticks, money in the unit that  *)
(* makes every amount whole (Dollar of them are a dollar).                 *)
(***************************************************************************)
EXTENDS Integers, Sequences, FiniteSetsExt, SequencesExt

CONSTANTS
    Assets,             \* the tokens in the order of the Event's asset list
    Bits,               \* rounds of the bisection (80 in the code)
    Ticks,              \* price steps of a dollar
    FeeRate, FeeScale,  \* a fee rate of FeeRate/FeeScale, exponent 1
    CopyRatio,          \* shares copied for a share of the leader
    MinOrderSize, Epsilon,          \* in steps of 1/Grid
    MaxOpenDebit, MaxEventLoss,     \* in units of money
    MaxPriceDrift, MaxSlippageBps   \* in ticks; in 1/10000 of the price

Tokens == ToSet(Assets)
Grid   == 2 ^ Bits
Dollar == Grid * Ticks * Ticks * FeeScale

ASSUME TargetPositionAssumption ==
    /\ Assets \in Seq(Tokens)
    /\ Bits \in Nat /\ CopyRatio \in Nat /\ FeeRate \in Nat
    /\ Ticks \in Nat \ {0} /\ FeeScale \in Nat \ {0}
    /\ MinOrderSize \in Nat \ {0} /\ Epsilon \in Nat
    /\ MaxOpenDebit \in Nat /\ MaxEventLoss \in Nat
    /\ MaxPriceDrift \in Nat /\ MaxSlippageBps \in Nat

\* What a power of 2 is, for the provers, which know nothing of powers.
ASSUME PowersAssumption == 2 ^ 0 = 1 /\ \A n \in 1..Bits : 2 ^ n = 2 * 2 ^ (n - 1)

Lower(a, b)  == IF a <= b THEN a ELSE b
Higher(a, b) == IF a <= b THEN b ELSE a

-----------------------------------------------------------------------------
\* Quotes.  A level is a record of a price and a size, the best level first: the
\* walk ends before the first level whose price is not allowed, and passes by all
\* such levels here, which are the same.

calculateTakerFee(shares, price) == shares * FeeRate * price * (Ticks - price)

Fill(quote, level) ==
    LET fill == Lower(quote.remaining, level.size)
    IN  [remaining  |-> quote.remaining - fill,
         notional   |-> quote.notional + fill * level.price * Ticks * FeeScale,
         fee        |-> quote.fee + calculateTakerFee(fill, level.price),
         worstPrice |-> IF fill > 0 THEN level.price ELSE quote.worstPrice]

\* What a quote says of itself once the levels have been walked.
Complete(quote)    == quote.remaining = 0
TotalDebit(quote)  == quote.notional + quote.fee
NetProceeds(quote) == quote.notional - quote.fee

quoteLevels(requested, levels, allowed) ==
    LET Take(quote, level) == IF level.price \in allowed THEN Fill(quote, level) ELSE quote
    IN  FoldLeft(Take, [remaining |-> requested, notional |-> 0, fee |-> 0, worstPrice |-> 0],
                 levels)

quoteBuy(book, shares, allowed)  == quoteLevels(shares, book.asks, allowed)
quoteSell(book, shares, allowed) == quoteLevels(shares, book.bids, allowed)
AnyPrice == 1..Ticks

\* The limit of a BUY around what the leader paid on average; none without it.
BuyPrices(average) ==
    { price \in AnyPrice :
        \/ average = 0
        \/ /\ price <= average + MaxPriceDrift
           /\ price * 10000 <= average * (10000 + MaxSlippageBps) }

-----------------------------------------------------------------------------
\* The cap.  raw[t] is the copied position in shares, books maps the tokens
\* whose book was fetched; a scale is a multiple of 1/Grid.

NoQuote == -1

calculateAvailableRisk(realizedLoss) ==
    Lower(MaxOpenDebit, Higher(0, MaxEventLoss - realizedLoss))

Wanted(scale, raw) == { t \in Tokens : raw[t] * scale > Epsilon }

\* The quotes of the wanted tokens whose book is there.
TargetQuotes(scale, raw, books) ==
    [t \in Wanted(scale, raw) \cap DOMAIN books |-> quoteBuy(books[t], raw[t] * scale, AnyPrice)]

\* Mutant: a token without a quote is left out of the sum.
SumOfComplete(quotes, wanted) ==
    MapThenSumSet(LAMBDA t : TotalDebit(quotes[t]), { t \in DOMAIN quotes : Complete(quotes[t]) })

SumOfQuotes(quotes, wanted) ==
    IF \A t \in wanted : t \in DOMAIN quotes /\ Complete(quotes[t])
    THEN MapThenSumSet(LAMBDA t : TotalDebit(quotes[t]), wanted)
    ELSE NoQuote

estimateTargetRisk(scale, raw, books) ==
    SumOfQuotes(TargetQuotes(scale, raw, books), Wanted(scale, raw))

Within(risk, available) == risk # NoQuote /\ risk <= available

Fits(scale, raw, books, available) == Within(estimateTargetRisk(scale, raw, books), available)

\* Mutant: the part of the full risk that is available, as if there were one price.
ProportionalScale(raw, books, available) ==
    LET risk == estimateTargetRisk(Grid, raw, books)
    IN  IF Within(risk, available) THEN Grid
        ELSE IF risk = NoQuote THEN 0 ELSE (Grid * available) \div risk

\* The algorithm of module CapScale as a function.  Targets of nothing have no
\* risk and keep the whole scale.
solveCapScale(raw, books, available) ==
    LET Halve(interval, i) ==
            LET middle == (interval.low + interval.high) \div 2
            IN  IF Fits(middle, raw, books, available)
                THEN [interval EXCEPT !.low = middle]
                ELSE [interval EXCEPT !.high = middle]
    IN  IF Fits(Grid, raw, books, available) THEN Grid
        ELSE FoldLeft(Halve, [low |-> 0, high |-> Grid], [i \in 1..Bits |-> i]).low

-----------------------------------------------------------------------------
\* The decisions.  input is a record of what the cycle has read: leader (a size
\* and an average price per token), held, resting (what the operator's own orders
\* would add), books, loss, buyable (the tokens with an open Event and market)
\* and unconfirmed (the tokens with a first zero).

RawTargets(input) == [t \in Tokens |-> input.leader[t].size * CopyRatio]

\* Mutant: orders in the book do not count.
ConfirmedSize(input, t) == input.held[t]

effectiveSize(input, t) == input.held[t] + input.resting[t]

\* How far each holding is below its target.
Deltas(input) ==
    LET raw   == RawTargets(input)
        scale == solveCapScale(raw, input.books, calculateAvailableRisk(input.loss))
    IN  [t \in Tokens |-> raw[t] * scale - effectiveSize(input, t)]

BuyQuote(input, t, shares) ==
    quoteBuy(input.books[t], shares, BuyPrices(input.leader[t].avgPrice))
SellQuote(input, t, shares) == quoteSell(input.books[t], shares, AnyPrice)

\* Mutant: a BUY although the asks do not cover it.
BuysUncovered(input, t, delta) ==
    /\ delta > Epsilon /\ delta >= MinOrderSize
    /\ t \in DOMAIN input.books /\ t \in input.buyable

Buys(input, t, delta) ==
    /\ delta > Epsilon /\ delta >= MinOrderSize
    /\ t \in DOMAIN input.books /\ t \in input.buyable
    /\ Complete(BuyQuote(input, t, delta))

\* What can be sold of a surplus.
SellSize(input, t, delta) == Lower(-delta, input.held[t])

Sells(input, t, delta) ==
    /\ delta < -Epsilon /\ -delta >= MinOrderSize
    /\ t \notin input.unconfirmed
    /\ t \in DOMAIN input.books
    /\ SellSize(input, t, delta) >= MinOrderSize
    /\ Complete(SellQuote(input, t, SellSize(input, t, delta)))

\* An order: the amount is money for a BUY, shares for a SELL.  The shares are
\* the whole surplus, more than was quoted if not all of it can be sold.
BuyOrder(t, quote) ==
    [side |-> "BUY", token |-> t, amount |-> TotalDebit(quote), worstPrice |-> quote.worstPrice]
SellOrder(t, shares, quote) ==
    [side |-> "SELL", token |-> t, amount |-> shares, worstPrice |-> quote.worstPrice]

\* The actionable decisions, in the order of the assets.
Actionable(input, deltas) ==
    LET Acts(t)     == Buys(input, t, deltas[t]) \/ Sells(input, t, deltas[t])
        Decision(t) == IF deltas[t] > 0
                       THEN BuyOrder(t, BuyQuote(input, t, deltas[t]))
                       ELSE SellOrder(t, -deltas[t], SellQuote(input, t, SellSize(input, t, deltas[t])))
        Add(orders, t) == IF Acts(t) THEN Append(orders, Decision(t)) ELSE orders
    IN  FoldLeft(Add, <<>>, Assets)

buildReconciliationPlan(input) == Actionable(input, Deltas(input))
=============================================================================
