# Poly follower: a verification development in TLA+

The program under `src/` copies one leader's positions in one Polymarket Event.
A cycle reads the leader, the account and the order books, plans target
positions under a risk cap and, in live mode, sends at most one fill-or-kill
order. A WebSocket and a poll follow that order to its end. A persistent kill
switch stops everything. This directory models the parts in which a mistake
costs money: the execution tables, the kill switch, the live order cycle with
its stream, the planner with what it does to the holdings over many cycles, the
monitor that decides when a cycle runs, and the alerts the operator relies on.

Paths below are relative to `src/src/` unless they start with `src/`.

## 1. Inventory

| component | state it keeps | operations | talks to |
|---|---|---|---|
| execution ledger, `persistence/database.ts:173-230, 591-810, 949-957` | attempts (at most one unresolved, by a partial unique index), trade links, logs of trade and order reports | begin, accept, abort, record a trade, record an order update, ask for open and stale attempts | cycle and stream write it; it survives crashes |
| kill switch, `services/safety.ts`, `kill-switch.ts` | a row and a sentinel file | arm, clear, check; `touch` by hand | cycle, stream, CLI processes, the operator |
| cycle, `services/reconciler.ts` | none between cycles (all in the database) | `runOnce`: poll, record, compare, plan, audit, gate, preflight, intent, post, receipt | everything else |
| user stream, `services/user-stream.ts` | markets of the Event, socket, health, outage timer, back-off | connect, change the Event, handle a trade, handle an order, outage | ledger, kill switch, alerts; runs between any two awaits of the cycle |
| monitor, `services/monitor.ts` | Event, time of the last cycle, activity cursor (database) | first cycle, loop, end | cycle, stream, data client |
| planner, `domain/target-position.ts`, `order-book.ts`, `fees.ts` | none | quotes, fees, cap scale, decisions | called by the cycle |
| trade ledger, `domain/trade-ledger.ts` | none (rebuilt from the trades) | cost basis, realized loss, comparison with public positions | called by the cycle |
| leader observations, `database.ts:418-454` | consecutive zeros per token | observe | called by the cycle |
| activity store, `database.ts:456-518` | activity, cursors | insert, get and set | monitor |
| alerts, `services/alerts.ts` with `database.ts:854-915` | deliveries by key | send with deduplication | every part; the network |
| decision audit, `services/decision-audit.ts` | a fingerprint per token | notify changes | cycle, alerts |
| discovery, data and CLOB clients, HTTP client, config, credentials | none | queries, parsing, validation | the network, files |

**What is hard.** One JavaScript thread, but every `await` lets a message
handler, a timer or another process in; the database commits per call, so a
crash falls between two commits; reports of one trade come from stream and poll,
twice, late, and in any order; a POST may take effect although its answer is
lost; the two sources of the switch are read and written one after the other;
snapshots of different services do not belong to one instant; the planner feeds
back on itself through the realized loss. `PROJECT.json` lists these hazards,
each at its line, with the properties that would catch it going wrong.

**What makes each part correct.** Ledger: one open attempt; verdicts are
backed by a report and final. Switch: what was armed before a check began is
seen by it; arm and clear may race without leaving a hole. Cycle and stream: no
second live order; verdicts agree with the exchange; failures and silence end in
a verdict or in an armed switch. Planner: the largest position under the cap,
and never more. Over time: no churning, no exit for one bad snapshot, rest when
the market rests, and purchases under the cap. Stream: healthy only with the
right subscription; an outage arms, neither late nor early. Monitor: what a poll
has shown reaches a cycle, once; cycles and the new Event come in time. Alerts
and audit: what counts as delivered was shown, and no plan is traded that the
operator has not heard of.

## 2. Modules

| module | models | built on |
|---|---|---|
| `ExecutionLedger` | the execution tables and their transactions | |
| `KillSwitch` | arm, clear and check, one action per await | |
| `LiveTrading` | cycle, stream, monitor, exchange, network, operator, crashes | `INSTANCE ExecutionLedger` (its operations are the steps on the tables) |
| `OneOrderAtATime` | what the live mode promises, abstractly | implemented by `LiveTrading` |
| `CapScale` | the bisection of `solveCapScale`, a step per round | |
| `TargetPosition` | the planner as operators: fees, quotes, cap scale, decisions | |
| `Rebalance` | cycles over time: leader, market, snapshots, plan, fill, losses | `EXTENDS TargetPosition` |
| `UserStream` | connection, health, outage timer and back-off of the stream, over time | |
| `ActivityPoll` | the monitor's loop: polls, cursor, stored activity, triggers, discovery | |
| `Alerts` | `PushoverNotifier.send` by overlapping callers, and its table | |
| `DecisionAudit` | the audit of each plan, beside handlers that alert | `INSTANCE Alerts` (its sends are steps of that module) |
| `MC*` | instances for TLC | |
| `*Proofs` | theorems | |

### ExecutionLedger
`state`, `eventId`, `orderId`, `links`, `tradeLog`, `orderLog` are the columns
and tables; `stale[a]` says that the terminal timeout has passed since the last
change of `a` (`updated_at`). One action per method: `beginExecutionAttempt`,
`acceptExecutionAttempt`, `abortExecutionAttempt`, `recordTradeLifecycle`,
`recordUserOrderUpdate`; `Age` is the passing of time. The partial unique index is
the guard of `beginExecutionAttempt`. A report is a record; two reports with the
same fields have the same fingerprint, so the log is a set. `Linked` is the join
by Event and by order id or earlier link, empty for a report already logged.

### KillSwitch
`dbArmed` and `sentinel` are the sources; each actor is a call of `arm`, `clear` or
`assertCanTrade` and has a program counter at every await. The temporary file is
one for all actors, as in the code; a rename can move another's file or find
none. `FsMayFail` lets file operations throw, `Crash` ends an actor anywhere,
`Touch` is the documented `touch`. The emergency alert succeeds or throws.

### LiveTrading
`pc` goes through `runOnce` and `monitor.run`: `down`, `idle`, `trades` (answers of the
poll to come), `record` (one trade after the other, no await in between),
`alertConfirmed`, `armFailed`, `armWait`, `planning`, `gate`, `gateFile`, `preflight`,
`intent`, `armIntent`, `posting`, `alertAccepted`, `hung` (the first cycle has thrown
and `run` waits for its stream). Stream handlers run while the cycle is at an
await, never within a turn (`Busy`). Two commits of one turn are two steps
between which only a crash, the exchange or another process comes. The exchange takes a
request or not, matches, cancels and settles; reports reach the follower by
stream, if its connection is open, and by every poll. Abstracted: token, side and
size; `MINED` and `RETRYING`, which change the tables as `MATCHED` does; the two
sources of the switch, one flag here because `KillSwitch` shows what they do; a
signal to stop, which is a crash at a turn's end. Public positions
may lag behind the trades, which is a mismatch and arms.

### CapScale, TargetPosition, Rebalance
`TargetPosition` keeps the arithmetic in integers: shares in steps of `1/Grid`,
prices in ticks, money in a unit in which all amounts are whole; fees have
exponent 1. The decisions keep the code's conditions: size against epsilon and
minimum, unconfirmed zero, missing book, buy window, price limit, depth.
`solveCapScale` is written there as a fold; `CapScale` has the same loop as a state
machine over any curve. `CurveRises`, checked in every state of `Rebalance`, is the
assumption `CapScale` makes of its curves, and `LargestScale` says of the fold over
the planner's own quotes what `CapScale` promises.

`Rebalance` splits a cycle into `Plan` (snapshot, zeros, plan, first order) and
`Act` (fill or kill at the books of that moment) or `Hold` (not sent). Leader,
books and buy window move at any time, also in between; a snapshot may lack one
position (`ReconcileGlitch`), one book request may fail (`ReconcileBlind`). A BUY is sent
as an amount of money and buys what that pays for at the asks of the moment;
that the exchange takes its fee out of that amount is an assumption. `BookSale`
is the average-cost bookkeeping of `reconstructEventLedger`. `held` stands for
confirmed positions and trades alike: where the two differ the cycle does not
trade (LiveTrading). `resting` is what one order of the operator would add to or
take from a token (`Placed`, `Cancelled`, `OwnOrderFills`): `effectiveSize` counts
it as filled, a SELL is quoted for what is held (`SellSize`) and sent for the
whole surplus (`SellOrder`), and the preflight asks for the whole (`Covered`). The
operator's orders fill at the best price of a side that is not empty. Books are
sorted as the public client sorts them (`BestFirst`). Left out: the freshness test of books, which cannot fail as written (`nowMs` is taken
before the books are fetched, and their timestamp is the time of receipt).

### UserStream
`pc` is where `run` is: before or in its sleep (`loop`), in `runConnection`
(`connection`), after it (`after`), or returned (`ended`). `socket` is
`activeSocket` with its `readyState`; `subscribed` is what the exchange was asked
for when it opened, `quiet` the age of `lastHealthyAtMs`, `outage` the age of
`outageStartedAtMs`. Time goes in ticks, and code without an await takes none.
`stuck` says that the peer answers no more: a handshake hangs, or an open socket
is half-open; nothing in the code ends either. `unopened` is a history variable:
how long no socket has been open, whatever the code's own timer says.

### ActivityPoll
`made` are the leader's fills by Event and second, `visible` those the data API
shows, `stored` the table, `cursor` the cursor of each Event. `pc` goes through
`monitor.run`; `Ask` begins a round: the first at once after the first cycle
(`loop`), any other after a second of sleep. `since` is the local `cursor` of
`monitor.ts:51`, the stored one or the second of the request, and `start` lies
`Overlap` before it. `Poll` is the answer with both commits and the decision what
follows. Fills of one second are alike, as
two fills of one order can be, and `insertActivity` counts them: the n-th of like
items in an answer has the n-th fingerprint. `Page` is the answer: from `start` on,
the oldest first, `Limit` of them. The loop sleeps a second; a second that passes
elsewhere counts as a fault, so that `CycleInTime` and `FollowsToday` name the
cost of delays. The histories say what was visible at the last poll and at the
last snapshot.

### Alerts and DecisionAudit
`calls[s]` is a `send` under way: `posted` after the question of the window and
the new row (one turn), `taken` once Pushover shows it, `ok` or `failed` when the
answer, or none, has come. `deliveries` are the keys that suppress; `told` and
`unsure` are histories of what was shown, and shown without an answer. `Expire`
ends the window of keys; a request under way is younger than the window
(`request_timeout_ms` is far below `dedupe_seconds`). A crash loses the calls and
keeps the table, where rows left `sending` suppress nothing.

`DecisionAudit` is the loop of `notifyDecisionChanges` with its catch in `runOnce`:
one token after the other, `Pass` or `Announce`, then `Save`; a failed alert ends
the cycle and, in live mode, arms (`armed`, one flag for the two sources of
`KillSwitch`). Message handlers arm and send emergencies meanwhile. A process that is
`down` starts again unless it is live and armed (`Start`, `main.ts:76-78`); if the
cycle before the loop throws (`first`, `Throw`), the process waits for its stream
(`hung`), and in live mode an outage of the stream ends it (`HungExit`). So a crash
after a failed announcement leaves no cycle to come until an operator clears the
switch, of whom nothing is assumed: `NoCycleComes` is the exception of
`AuditCatchesUp`.
The key of an announcement holds the run's id, so the rows of earlier runs do
not matter and are forgotten with `NewPlan`.

## 3. Runs

| run | instance | shows |
|---|---|---|
| `ledger` | two attempts, two orders, two trades, repeated, reordered and misattributed reports | the tables keep one open attempt, evidence for verdicts, finality, and a timeout only news puts off |
| `kill_switch` | three calls of any kind, crashes, file errors | checks are sound, arms reach both sources, clears do not undo later arms |
| `live` | two orders in a row, any two faults of seven kinds | refinement of `ExecutionLedger` and of `OneOrderAtATime`; verdicts match the exchange; FAILED trades and lost answers arm; at most one order leaves after an arm |
| `live_ends` | one order, two Events, two of crash, dropped socket and lost alert, fairness | an open attempt is resolved or the switch is armed |
| `cap_scale` | four rounds, every rising curve of four kinds of value | the bisection ends at the largest affordable scale |
| `rebalance` | two tokens, three leader positions, four books, two kinds of order of the operator, four moves or faults, fairness on `Act` | purchases under cap and loss limit with resting orders counted, the largest scale that fits, no churning, no sale for one zero, rest, or one SELL that fails its preflight |
| `audit` | two tokens, a decision to act and one to hold, two handlers, two changes of plan, two FAILED trades, three of failed alert or request, crash and arm elsewhere, fairness | success means shown, repetitions have a reason, a traded plan was heard, no word twice; the fingerprints catch up with the plan, or no cycle comes any more, and why |
| `activity` | two Events, three fills, five seconds, answers of two items, one fault | what polls show reaches a cycle, once; cycles and the new Event in time |
| `user_stream` | two Events, threshold 6, pauses up to 4, handshakes up to 2, fairness | health means the right subscription; outages arm neither late nor early; an unhealthy stream recovers or stops |
| `live_first_cycle_fails` | one order, a crash and a failed request | **violation**: the process waits for its stream for ever (`monitor.ts:40`) |
| `live_two_fills` | one order with two trades | **violation**: a FAILED second trade arms nothing (`database.ts:717`) |
| `rebalance_missing_book` | as `rebalance` | **violation**: a book that cannot be fetched sells the other tokens (`target-position.ts:87`) |

A violation run states what a document or comment of the repository says;
`PROJECT.json` quotes it.

**Bounds, and why they are enough.** `ledger`: two of everything is the least that
lets a report hit the wrong attempt, and there is no third role for a third
attempt, since only one is unresolved. `kill_switch`: two racing calls and one
that clears; the theorems hold for any number. `live`: `MaxAttempts = 2` lets
a late report of one order meet the next; `MaxFaults = 2` lets a second
fault hit the recovery from the first; `Fills = 1` where a property would
otherwise only repeat `live_two_fills`, for with two fills one promise is
broken and others with it. `Days = 2` in `live_ends` brings the change
of Event under an open attempt. `rebalance`: two tokens compete for the cap,
targets cost several times the cap, `MaxMoves = 4` allows leader in, price
down, price up, and a fault or an order of the operator; the scale has eight steps instead of 2^80 (the
proofs hold for any number of rounds). The books are: two ask levels;
dearer than the price limit; cheap, with a thin best bid; and too thin for a full target.
The operator's orders are a BUY of a whole share and a SELL of half. `audit`: two
tokens are the least for one to fail after the other was saved, two handlers for
two sends of one key to overlap, two changes for a plan to return to what it was,
three faults for a lost announcement, a crash and one more after the restart; the
decisions tell apart what acts and what holds (that two acts differ is left to the
theorems). `activity`: an overlap of 1, a full interval of 2 and 5 seconds let
a fill be shown in time and too late, and a full interval pass twice; three fills
fill an answer of two. The code's numbers are 10 s, 15 s and 500 items.
`user_stream`: the threshold spans three attempts with doubling pauses (1, 2, 4);
the code's are 60 s, and 0.5 to 10 s. The largest runs are
`activity`, `audit` and `live`, with 3.8, 3.2 and 1.8 million states.

**Deadlock** is checked in `ledger`, `kill_switch`, `user_stream` and the
`rebalance` runs. `CapScale` returns. `activity` has `CHECK_DEADLOCK FALSE` because
time ends at its bound, `audit` because a process in read-only mode
whose first cycle throws waits for its stream for ever. The live runs have `CHECK_DEADLOCK FALSE`: once the orders of the bound are
sent and the process is down with its faults spent, nothing is left to do.

**Fairness.** `live_ends`: the event loop goes on (`WF` of the cycle and of a handler
between its commits), the terminal timeout passes (`WF` of `Timeout`), and a
connection that can be opened again and again is opened some time (`SF` of `Connect`: the code
retries for ever, and an outage longer than its limit arms). Nothing is
assumed of the exchange or of messages. The fairness of the cycle includes that
each request ends: the HTTP client of the program has a timeout, the CLOB
client library is outside `src/` and is assumed to have one. It also includes that
a crashed process is started again (`Start`; `Restart=on-failure` of
`src/deploy/polymarket-weather-follower.service`). `rebalance`: cycles go on and
are not kept from sending for ever (`[]<><<Act>>`); where the kill switch stays armed
nothing is sent and nothing is claimed. `audit`: the event loop goes on, Pushover
answers, unless the request fails (its timeout ends it), and a process that is down
is started again (`Restart=on-failure`), which in live mode it survives only if the
switch is clear. The operator, and the stream that a hung process waits for, are
not fair. `user_stream`: time
passes, the loop goes on, a close comes to its end, a connection that is tried
again and again opens some time, and a peer that is there answers pings; of a
peer that hangs nothing is assumed.

## 4. Proofs

| module | theorem | argument |
|---|---|---|
| `ExecutionLedgerProofs` | `TypeCorrect` | inductive |
| | `OneUnresolved` | inductive with types: only `begin` adds an unresolved attempt, and only when there is none; reports move unresolved attempts only |
| | `VerdictsHaveEvidence` | inductive, by kind of verdict; logs only grow and the order id of an attempt is set once |
| | `SubmissionsNeedAnswer` | needs the invariant `Blind`: a submitting attempt has neither order id nor links, so no report joins it |
| | `VerdictsAreFinal`, `RepeatsNeverRefresh` | action properties from the types |
| `KillSwitchProofs` | `TypeCorrect`, `ChecksAreSound`, `ArmsReachBoth`, `ArmsOutliveEarlierClears` | one inductive invariant `IInv`, for any number of actors: what each program counter implies of row and file (`RowSet`, `FileSet`, `CheckHolds`). The properties alone are not inductive: they speak of the end of a call |
| `CapScaleProofs` | `TypeCorrect`, `ReportedRiskFits`, `ScaleIsLargest` | `IInv`: the interval has width `Gap[iteration]`, its lower end fits and its upper end does not. With `Gap[Iterations] = 1` the lower end is the largest scale that fits |
| `LiveTradingProofs` | `TypeCorrect`, `VerdictsAreTrue`, `OneLateOrder`, `AmbiguityStops`, `FailureStops` | the core (`Core`) says what row, exchange and program counter tell of each other; each of the model's actions moves them in one of eleven ways (`Moves`), so that the core is preserved once for each way and not once for each action. `OneLateOrder`: after a switch is armed at most the check that had passed goes on (`WayClosed`). The two about arms follow an unresolved or failed attempt to the row of the switch, the log and the excuse that a crash leaves (`AmbiguousStops`, `FailedStops`, `LoggedStops`) |
| | `LedgerKept` | every step is one of `ExecutionLedger` or leaves it alone; so the theorems of `ExecutionLedgerProofs` hold here |
| | `OneOrderKept`, `OneLiveOrderKept` | every step is one of `OneOrderAtATime` by what it does to row and exchange, and `NeverTwoLiveOrders` is about that one |
| `UserStreamProofs` | `TypeCorrect`, `HealthyMeansSubscribed`, `StopsAreEarned`, `OutagesAreStopped` | one `IInv`: the outage's timer never runs ahead (`TimerIsHonest`) and lags by one close at most (`Behind`), followed through pause, handshake and close (`Bounds`). `OutageIsStopped` alone says nothing of the timer, so it is not inductive |
| `DecisionAuditProofs` | `AlertsTypeCorrect`, `SuccessTellsTruth`, `RepeatsHaveReasons` | about `Alerts` alone, named `Mail!` there. `IInv`: what is on record was shown, and what was shown is on record, waits for its answer, or has lost it (`ShownIsKnown`) |
| | `ImplementsAlerts` | each step of audit, handlers and process is a step of `AlertsNext` or leaves the alerts alone; so the theorems about `Alerts` hold here: `AuditSuccessTellsTruth`, `AuditRepeatsHaveReasons` |
| | `TypeCorrect`, `HeardBeforeTrade`, `WordsAreNew` | `IInv`: the loop leaves saved decisions behind (`Passed`), no old row suppresses an announcement (`Fresh`), and a fingerprint is what was heard, or neither asks for anything (`Known`), but for words whose save was lost |
| `ActivityPollProofs` | `CyclesComeInTime`, `TodayIsFollowed` | `IInv`: how old the last cycle, and the change of Event, can be at each place of the loop, with the faults so far |
| | `TypeCorrect`, `NothingGoesUnseen`, `NoSecondCycle` | `NewsInv`: what polls saw is stored if the cursor has not passed it (`Kept`), and what the cursor has passed was there for the last cycle, or was shown too late (`Read`). `NothingUnseen` alone is not inductive: it says nothing of cursor and request (`Cursors`, `Asked`). An answer leaves fills out only after all it has (`PageInOrder`), from facts about sums over sets of slots (`SumFacts`) |
| `RebalanceProofs` | `TypeCorrect`, `ExitsAreConfirmed` | `RInv`: types, and a counted zero is of a token that the last snapshot lacked (`ZerosAreGone`), without which the exits are not inductive. What a plan may contain (`Sound`) follows from a walk along the assets |
| | `CurvesRise` | two walks along the same levels, for fewer and for more shares, side by side (`QuotesGrow`); then the sum over fewer tokens of smaller costs is smaller (`EstimateRises`) |
| | `ScaleIsLargest` | round by round the interval has width `Gap`, its lower end fits and its upper end does not (`ScaleIsLast`); `EstimateRises` decides all other scales |
| | `BuysStayWithinRisk` | the target fits (`TargetFits`); the shares that the money of a BUY pays for are those it was quoted for, because the levels up to its worst price are those it took (`QuoteToWorst`, `SharesWithinQuote`); and one token costs no more than the sum of all |
| | `QuietMeansNoReversal` | not inductive; `SoldHasSurplus` is: of what was meant to be sold at least its target is held. A SELL leaves as much, and a loss lowers the scale and with it every target (`ScaleFollowsCap`: of two bisections side by side, the intervals are equal or the one with less available lies below) |

All are proved for every value of the constants, from the named assumptions of
the modules. `FailureStops`, `OneOrderKept` and `OneLiveOrderKept` have one hypothesis more,
`Fills = 1`: an order fills in one trade. With two, one trade of an order may fail
after another was confirmed, and the properties do not hold: the run
`live_two_fills` is the counterexample of the first.

The provers have no induction over data, but the library has the order of the
subsets of a finite set as a well-founded one, so a claim about all of them can
be proved from its least counterexample (`SmallestSubset`). With it
`ActivityPollProofs` and `RebalanceProofs` prove that the equation behind the folds
of the community modules has a solution, and from there what its sums come to and
through which steps a fold along a sequence goes (`FoldExists`, `SumFacts`,
`SumTakes`, `LeftFold`, `MaxExists`). Of powers the provers know nothing:
`PowersAssumption` of `TargetPosition` says what 2^n is, and TLC evaluates it.

`BuyWithinRisk` needed the exception it has: the proof stopped at a token whose
resting SELL is larger than what is held, and the code does buy there (section 5).

**Model-checked only.** Liveness (`OpenAttemptEnds`, `QuietMarketSettles`,
`AuditCatchesUp`, `HealthyOrStopped`), which is out of the prover's reach. The type
invariants of `KillSwitch`, `CapScale`, `UserStream` and `DecisionAudit` are
proved and not checked again by TLC.

## 5. Known gaps of the program

Beyond the violation runs, the models excuse the following explicitly: each is
what the code does, and an exception in a property names it where one is needed.

Live orders:

* The switch is checked once, before preflight and intent alert: one order may
  leave after an arm (`reconciler.ts:295`). `AtMostOneLateOrder` says it is one.
* A crash between the commit that records a FAILED trade, or an order in
  flight, and the arm: the arm is not made up for (`excused`). An
  unanswered attempt still blocks orders, and the terminal timeout arms.
* A check reads row and file one after the other (`safety.ts:27`). It
  can pass if an operator clears during it (`disturbed`).
* A handshake that hangs has no limit, and a half-open socket is not closed
  (`user-stream.ts:125`). While either lasts no outage arms, and since a cycle
  returns for an unhealthy stream before it asks for stale attempts
  (`reconciler.ts:288`), no terminal timeout either, although `src/README.md:67` says
  that both arm. `OutageIsStopped` and `HealthyOrStopped` except a peer that hangs
  (`stuck`), and `live_ends` has none: no property catches this.
* A verdict of the stream that comes after the account was read lets the same
  cycle order from the old positions (`reconciler.ts:306`); the cancellation alert
  at `user-stream.ts:251` says "account will be reconciled before another order".
* After an outage `run` has returned for good (`user-stream.ts:118`): clearing the
  switch without a restart gives a process whose stream is never healthy again. The
  properties count that end as a stop.
  A stream that flaps, open for a moment each time, is never an outage
  (`user-stream.ts:99`).

Planner:

* The cap bounds what the targets would cost at this cycle's asks, not what the
  positions have cost (`target-position.ts:90`), and `BuyWithinRisk` compares with the
  asks of the moment too. After a fall in price, or when a
  token drops out of one snapshot, the freed cap is spent again.
* With a BUY of the operator resting, a surplus larger than what is held is
  quoted for what is held and sent for the whole
  (`clob-authenticated-client.ts:298, 318`): the preflight fails in every cycle, and
  since one order is sent per cycle, later tokens wait. `QuietMarketSettles` names
  this state.
* A resting SELL of the operator for more than is held makes the effective size
  negative (`target-position.ts:200`). With a target of nothing the deficit is
  bought, also when losses have left no budget: `BuyWithinRisk` is about the other
  tokens.
* `max_signal_age_seconds` is configured (`config.ts:94`) and read by nothing, and a
  book is never found old.

Monitor:

* A cycle that fails after its activity was stored is not repeated before the
  next full interval (`monitor.ts:58`; `missed` in `NothingUnseen`, bounded by
  `CycleInTime`).
* The first poll of an Event begins `activity_overlap_seconds` before now
  (`monitor.ts:51`): what was made earlier and after the first snapshot starts no
  cycle of its own, nor does what the data API shows later than that.
  `NothingUnseen` excepts both (`tooLate`); the next full interval reads the
  positions themselves.
* An answer of 500 items leaves the rest to later polls, and if all share the
  overlap the cursor stands still (`data-client.ts:76`). `NothingUnseen` excepts the
  round after such an answer (`cut`) and holds again after the next whole one.
* Every cycle that activity starts puts the next discovery off by a full
  interval (`monitor.ts:83`; `postponed` in `FollowsToday`).

Alerts:

* An emergency's key is its reason: a second failure with the same reason within
  the window is not sent, whatever its details (`safety.ts:55`). `Alerts` has keys and
  no details, so no property tells the two apart.
* The alert of a CONFIRMED trade is not sent again once the trade is recorded
  (`reconciler.ts:121-128`).
* An announcement that was taken but whose answer or save was lost leaves the
  old fingerprint: if the plan returns to that decision, nothing is announced
  (`unsaved` in `TradedPlanWasHeard`).
* A failed announcement arms; a live process that then goes down does not start
  again before an operator clears the switch (`main.ts:76`; `NoCycleComes`).

## 6. Plan

Done: the modules above; the core first, then resting orders, the stream over
time, the monitor, the alerts and the audit; then the proofs about each, the
planner's last. What would come next:

1. `UserStream` inside `LiveTrading` in place of its up-or-down connection.
2. Incomplete trade histories and rounding in `reconstructEventLedger`.

**Not modelled and why.** Discovery, public CLOB client, HTTP client, and of the
data and authenticated clients what parses: queries without state, whose answers
and failures are inputs of the models. Configuration, credentials, types: no
behaviour after the start. Logging, the text of alerts, and the stored plans and
snapshots: nothing reads them back.
