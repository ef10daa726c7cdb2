# TLA+ verification of quant-finance-pipeline

TLA+ modules, TLC configurations and TLAPS proofs for the Go code of this
repository. Paths are relative to the repository root (`src/` in
`PROJECT.json`). `tlc -config <cfg> <module>` repeats a run, `tlapm
<module>.tla` repeats the proofs; `PROJECT.json` lists them all, with the lines
of code behind every definition.

## 1. Inventory

### The system

A trading pipeline in three programs over common packages. `cmd/api` serves HTTP
clients, `cmd/processor` moves market data from Kafka to in-process subscribers,
`cmd/risk-engine` saves the portfolios that arrive and sends their risk metrics.
The order side is written as packages: an `EnhancedProcessor` owns one
`MatchingEngine` per symbol and relays its events to Kafka, a WebSocket hub
serves clients from it. No program makes them at this commit (`NewHub`,
`NewEnhancedProcessor`, `NewDataProcessor` and `CreateHandlers` have no caller);
they are modelled as they are written. The utilities (circuit breaker,
backpressure, rate limiters, pools, profiler) are libraries.

```
 HTTP/WS client --> pkg/api, internal/websocket.Hub
                        |  PlaceOrder/CancelOrder/ModifyOrder, GetOrderBook
                        v
                internal/market.EnhancedProcessor -- one per symbol --> orderbook.MatchingEngine
                        ^        | sends order events to Kafka <-- eventChannel --'
     Kafka consumer ----'        v
 internal/kafka.{Consumer,Producer} <--> market.Processor, market.DataManager, risk.*
```

### Components

| component | state | operations | what makes it hard | what makes it correct |
|---|---|---|---|---|
| Matching engine (`internal/orderbook/engine.go`, `tree.go`) | two trees of price levels, FIFO list and volume per level, `orderIndex`, event channel (1000) | AddOrder, CancelOrder, ModifyOrder, GetOrder, GetSnapshot, GetMarketDepth, Close | ModifyOrder is three critical sections; index and levels are updated apart; events are sent while the lock is held | price-time priority, book not crossed, quantity conserved, index = book, no level lost, callers always come back |
| Red-black tree (`internal/orderbook/rbtree.go`) | nodes with colour, parent, children, sentinel | Insert, Delete, Search, GetBest, GetLevels | pointer surgery on rotation, transplant and the two fix-ups, shared sentinel | search order, red and black rules, the map it stands for |
| Circuit breaker (`pkg/utils/circuit`) | state, failures, requests, lastFailureTime; registry of breakers | Execute, State, Counts, Reset, GetBreaker | a result arrives after the state it was admitted in is over | no request while open, bounded probing, one breaker per name |
| Backpressure controller (`pkg/utils/backpressure/controller.go`) | input and output channel, queue, currentLoad, four strategies | Submit, Receive, Close, manager, adaptive thresholds | counter and channel are updated apart; blocking strategy; close | load counter = items held, nothing stranded, no send on a closed channel |
| Rate limiters (`pkg/utils/backpressure/rate_limiter.go`) | token bucket, sliding window, adaptive limiter, manager | Allow, Wait, Reset, TokensRemaining | lock upgraded under itself, state mutated under a read lock, adaptive loop | never more than the limit in a window, waiters get in |
| WebSocket hub (`internal/websocket/hub.go`) | clients, subscriptions per symbol and per client, send buffers | register, unregister, subscribe, unsubscribe, broadcasts, pumps | two locks in two orders; `clients` written by several goroutines; channels closed by several parties | no send on a closed channel, subscriptions only of clients, no deadlock |
| Kafka consumer (`internal/kafka/consumer.go`) | position, committed offset, batch | ConsumeMessage(s), ConsumeMessagesBatch, ConsumeBatch, CommitMessage, Stop | handler failures, crash between handling and commit | nothing is committed that no handler saw |
| Kafka producer and client (`producer.go`, `client.go`) | delivery channel, queue of the library | ProduceMessage(Sync), ProduceBatch, Close | a timeout races the delivery report | order kept, a late report meets a closed channel |
| Enhanced processor (`internal/market/enhanced_processor.go`) | engine per symbol, running flag, WaitGroup, event relay | Start, Stop, PlaceOrder, CancelOrder, ModifyOrder, event loop | the relay drains engine channels in any order; Stop waits for goroutines | events relayed in order, none left behind |
| Market processor (`internal/market/processor.go`) | subscriptions in three maps, channels, WaitGroup | Start, Stop, Subscribe, Unsubscribe, consume, distribute, clean up | sends to subscribers race a close; IDs made from the clock | every subscriber served or told, Stop returns |
| Data manager and DataProcessor (`internal/market/data.go`) | latest data, index by underlying, books, pool | UpdateMarketData, RemoveOldData, GetDerivatives; Subscribe, Unsubscribe, processData | an index kept apart from the data; maps of the aggregator without its mutex; pooled updates still referenced | index agrees with the data |
| Risk calculator (`internal/risk/calculator.go`) | per call: workers, jobs, results, risks by symbol | CalculateRiskMetrics | workers, closer and collector share channels; NaN | complete metrics of one portfolio |
| Risk engine (`cmd/risk-engine`) | - | update loop, tick loop, shutdown | two loops send for the same portfolios | what was sent last catches up with the store |
| Hedging (`internal/risk/hedging.go`, handlers in `pkg/api/handlers.go`) | none; orders placed one by one | three strategies, optimisation under a budget, placing | rounding to lots, signs, orders that fail half-way | a hedge helps, and costs what it may |
| Stores (`internal/store`) | portfolios; made-up histories | get, save, list | none beyond one lock | - |
| HTTP API (`pkg/api`), mains (`cmd/*`) | server, routes | handlers, start-up, shutdown | shutdown order | - |
| Support (`pkg/models`, `pkg/metrics`, `pkg/utils/{errors,logger,pools,performance}`, `config`, `internal/adapters`, `proto`, `scripts`) | pools, metrics, profiles, settings | conversions, logging | object pools | - |

The operators commented as faulty variants are used nowhere: each, put in the
place of the definition it names, breaks a property, and shows that the property
would notice. Sections 3 to 11 describe what is modelled, section 12 what is not.

## 2. Plan and structure

The modules, in the order they were written, most important behaviour first.

| step | modules | proofs |
|---|---|---|
| 1 | `MatchingEngine`, `MatchingEngineProperties`, abstract `PriceTimeBook` | `MatchingEngineProofs` |
| 2 | `CircuitBreaker` | `UtilityProofs` |
| 3 | `BackpressureController` | `UtilityProofs` |
| 4 | `RedBlackTree`, abstract `PriceLevels` | `RedBlackTreeProofs` |
| 5 | `WebSocketHub` | `WebSocketHubProofs` |
| 6 | `RateLimiter`, and `RateLimiterManager`, which composes it with its registry | `LimiterProofs` |
| 7 | `KafkaTopic` (producer, broker, consumer) | `PipelineProofs` |
| 8 | `EventPipeline`: engines' channels, relay and `KafkaTopic` | `PipelineProofs` |
| 9 | `DataManager`, and `MarketDataProcessor`, which composes it with processor, aggregator and DataProcessor | `MarketProofs` |
| 10 | `PortfolioStore`, `RiskCalculator`, `RiskEngine`, `Hedging`, composed by `RiskService` | `RiskProofs` |

What is left, in this order: the two managers of breakers and controllers;
ConsumeBatch, ProduceBatch and the producer's Close.

## 3. Matching engine

### Correspondence

`MatchingEngine.tla` follows `engine.go` function by function.

| TLA+ | Go |
|---|---|
| `order` | the `*models.Order` objects, by pointer |
| `tree[s]` | `bidTree`, `askTree`: the set of levels a tree holds |
| `queue`, `volume` | `PriceLevel.Orders`, `PriceLevel.Volume` |
| `orderIndex`, `level` | `orderIndex` and the `PriceLevel` of its entries |
| `call` | the call that holds `me.mutex`, and the events it has yet to send |
| `modify` | ModifyOrder calls between their critical sections |
| `eventChannel`, `closed` | the buffered channel of events |
| `asked`, `traded` | history only: what an order asked for, what was executed for it |

A level is named by the order that created it, so a level that was deleted and
a later level at the same price stay apart. That matters: an index entry keeps
pointing at the level it was made with.

AddOrder is `BeginAdd`, one `Match` per resting order it trades with, one of
the three `Finish...` steps and one `SendEvent` per event. The mutex is held
from the first to the last, so no other call can see the steps; the reader of
the event channel can, and does, come in between. A send on a channel that
`Close` closed panics (`SendPanics`): the deferred Unlock runs, the caller is
gone. CancelOrder is one step and its event. ModifyOrder is a process per
caller, since it takes the mutex three times.

Left out: an order for another symbol or of an unsupported type is refused and
changes nothing (a stuttering step); metrics, logs and time stamps; the pieces
of GetMarketDepth, which reads what GetSnapshot reads; time in force, which the
engine ignores. Quantities are positive, as the HTTP handlers demand. The
`ModifyOrder` of a market order cannot happen, since market orders are never
indexed. `tree.go` calls `rand.Read` without an import and misses a brace in
`randomString`; execution IDs are not modelled.

`PriceTimeBook.tla` is what a client may expect of any order book, stated
without levels, trees and index: `HasPriority` picks the trading partner.
`MatchingEngineProperties.tla` holds the properties and the refinement mapping:
`Request`, `Open`, `Resting`, `Ahead` and `Trading` say what the engine's data
structures mean as such a book, who is ahead of an order being read off the
queue of its level.

### Runs

All runs use `MCMatchingEngine.tla`. Orders are symmetric. `CHECK_DEADLOCK` is
off because the orders of a run are finite: once they are used up the engine
rests. The `Environment` says which unusual calls the clients make.

| run | instance | shows |
|---|---|---|
| `engine_any` | 4 orders, 2 prices, 2 quantities, cancels of filled orders | `NoEmptyLevel`, `NotCrossed`, `QuantityConserved`, `ViewsAgree`, `TradesAreFair`, `ImplementsBook` |
| `engine_modify` | 3 orders, 1 ModifyOrder caller, 1-event channel that may be closed and need not be read, cancels of filled orders | `TypeOK`, `ModifyReplaces`, `CanceledNeverTrades`, `CallsEnd` |
| `engine_priority` | 5 orders, cancels of filled orders | the violation of `PricePriority`, below |

`ViewsAgree` and `ImplementsBook` hold up to the first cancel of a filled order
(`FilledCanceled`), which breaks both: every behaviour without one implements
`PriceTimeBook`, and so does every other one until then.

Bounds: four orders are enough for an order that sweeps two levels and rests,
a level that dies and is created again at the same price, and a cancel through
an old index entry; two prices give crossing and non-crossing pairs on both
sides; two quantities give full, partial and exact fills. The priority
violation needs five: one to fill, its partner, the new level, a worse level
and the order that trades past it.

Fairness (`engine_modify`): a goroutine inside the engine goes on (weak
fairness of `Holder`); a ModifyOrder that waits for the mutex gets it in the
end (strong fairness of its critical sections: `sync.Mutex` hands the lock to a
waiter that starved for a millisecond). Nothing is assumed of the reader of the
event channel and of new calls.

### Where the code and its description differ

`PricePriority` (`engine_priority`): cancelling a filled order succeeds,
because `MatchQuantity` does not take it out of `orderIndex`; if its level died
and a new one has the price, `CancelOrder` deletes the new level with its
orders, and a worse price trades while they should rest.

The same cause has lesser effects: the cancel subtracts the order's quantity
from the level's volume once more. A reused OrderID hides the older order from
the index; the runs give every order its own, the proofs do not.
Read from the code but not stated as properties: an incoming order that is
partly filled stays `New`, and ModifyOrder of an order that is filled meanwhile
places a second one.

### Proofs

`MatchingEngineProofs.tla`, for all values of the constants under the named
assumptions (finite non-empty set of positive prices, positive quantities):

- `TypeCorrect`: `Spec => []TypeOK`. `TypeOK` alone is not inductive: a match
  changes the status of the order at the head of a queue, so the orders in
  queues, index and `modify` must be placed ones. `TypeInv` adds that
  (`WellFormed`).
- `NoEmptyLevels`, `BookNotCrossed`: from `BookInv`. The argument for an empty
  level: `CancelOrder` deletes from the tree of the *order's* side, so `BookInv`
  says that an order and its level are on one side, and every level in its own
  tree. For the crossing: a limit order is booked only when `Matchable` is
  empty; by `PricesHaveExtremes` a non-empty tree has a best level, by
  `NoEmptyLevel` it is not empty, so it does not cross, and neither does any
  worse one (`NothingToMatch`).
- `QuantityNeverLost`: needs to know that an order is in one place. `PlaceInv`
  says so: a queue holds an order once, in the queue of its own level
  (`QueueMembers`), never the one that is being matched, and a canceled order is
  in none. With it each step changes what one order or the two of a trade have,
  and `QuantityInv` follows.
- `TradesKeepLimits`, `CanceledIsOut`: the action properties, from `PlaceInv` and
  `BookInv`. A trade takes the head of a level that crosses, which is in the other
  tree and rests with a limit; it is in a queue, so it was not canceled.

All of these hold with reused OrderIDs and cancels of filled orders, where price
priority does not. The next three say in their hypotheses what they need.

- `ReplacementIsAlone`, `Spec => []ModifyReplaces` if no OrderID is used twice:
  `ReplaceInv` says that the index finds under an ID the order that has it, and
  that what a ModifyOrder looked up is out of every queue once its cancel is
  done. TLC finds the counterexample with reused IDs: the cancel removes
  the wrong order.
- `EngineImplementsBook`, `Spec => ImplementsBook`: every step maps to a step of
  `PriceTimeBook` or changes none of its variables, until a filled order is
  canceled; reused OrderIDs do not matter. `ViewInv` is what makes the
  mapping one: the prices of a tree are unique, an order that is open is in its
  queue, the index holds an order under its own ID and no canceled one, and a
  level with orders is in its tree. `StepImplements` goes through the steps:
  a match takes the head of the best level, which has priority (`MatchIsTrade`)
  and nobody ahead; whoever was behind it loses one (`OneLeaves`); a rest puts
  the order behind all others of its price (`OneJoins`); a cancel closes the gap
  (`CancelIsCancel`); an order whose rest cannot be matched is discarded, since
  `Matchable` is empty only when nobody crosses (`NoCandidates`). Every other
  step moves nobody (`NobodyMoves`). `RemovalKeepsOrder` and
  `AppendKeepsOrder` are the facts about sequences below it.
- `SnapshotsAreTrue`, `Spec => []ViewsAgree` if no OrderID is used twice: the
  volume of a level is the sum of what its orders have (`VolumeInv`), and every
  order that is open is filed under its ID (`FiledInv`). `Total` is a recursive
  function; its value at a queue is reached without an induction theorem, by an
  induction over the set `0 .. n` (`UpTo`), in which `TotalIsSum` says that the
  steps of the sum determine it. `JoinedTotal`, `LeftTotal` and `TradedTotal`
  are what an append, a removal and a fill do to it.

TLC was asked first: the invariants named here were run as INVARIANTs of the
instances above, and those that were not inductive at first were strengthened
until they were.

Only model-checked: `CallsEnd`, since liveness is out of the prover's reach, and
the violation of `PricePriority`.

## 4. Circuit breaker

`CircuitBreaker.tla` models `Execute` as two steps, `beforeRequest` (`Begin`,
with one of the three `Admit...` for the state it meets) and the recording of
the result (`Succeed`, `Fail`), because the protected function runs between
them without the mutex. A request therefore reports in a state it was not
admitted in. `call` says of each goroutine whether it runs the function, and, as
history, whether the state has changed since (`late`); `Expire` lets the timeout
pass; `failures` is capped at `FailureBound` (`Bump`), above every value the code
compares it with. The specification's own names carry a prefix (`BreakerInit`,
`BreakerNext`, ...), so that one proof module can extend it beside the
controller of section 5.

One run, `breaker`, with fairness: four goroutines, `MaxFailures` 3 and
`MaxRequests` 2, checks `ProbesInFlight`, `TripsInTime`, `TripsOnlyInARow` and
`Recovers`. Four goroutines are enough to fill
the half-open state (the request that opens it and two more) while one admitted
in an earlier state is still running. The breaker lets `MaxRequests + 1`
requests through while half-open, because the one that turns it half-open is
not counted: `ProbesInFlight` states that number exactly. Failures of requests that
were admitted in an earlier state count into the row that `TripsInTime` and
`TripsOnlyInARow` speak of, as in the code: an early trip by a late failure is
not excluded by them.

Fairness: the protected function returns, the timeout passes, and requests keep
coming; the second half of `Recovers` assumes in its premise that the function
stops failing.

`UtilityProofs.tla` proves `BreakerTypeOK` and the three safety properties for
any number of callers, from `BreakerInv == BreakerTypeOK /\ CountsInARow /\
TripsInTime /\ ProbesInFlight`. `ProbesInFlight` is not inductive without the type of
`requests`; `TripsInTime` needs `CountsInARow`, that a closed breaker's
`failures` is the history variable counting failures since it closed.

## 5. Backpressure controller

`BackpressureController.tla`: the queue is a Go channel and `currentLoad` an
atomic beside it; there is no lock. Each `select` is a step and each update of
the load another (`Enqueue` and `CountSubmit`, `Dequeue` and `CountReceive`).
`submit[p].pc` names the select a producer stands at: `try` in Submit,
`strategy` in one of the four `submit...` functions, `evict` and `wait` in the
inner selects of `submitDropOldest`. The strategy is chosen in `Init` and kept.
A context may be canceled at any select; Close may come at any time, and a send
on the closed channel panics in the caller. `result`, `received` and `evicted`
are history.

One run, `backpressure`: all strategies, 2 producers, 1 consumer, 3 messages, a
queue of 1. It checks `LoadAccounts`, `OneFate`, `DeliveredUnlessBlock` and
`CallsReturn`. Under Block nothing is delivered: Submit fills `c.queue`, Receive
reads `c.blockingQueue`; `DeliveredUnlessBlock` says that it is the only
strategy with that fate.

`LoadAccounts` says exactly what the counter is: queue length, plus calls that
have yet to count down, minus those that have yet to count up, plus everything
ever evicted: an eviction is never counted down, so a DropOldest controller
drifts above its high-water mark and stays there. Three messages are two more
than the queue holds: one queued, and two producers that find the queue full
and evict in turn, and the consumer between them.

Fairness: goroutines go on, consumers call Receive again and again, and a
`select` with several ready cases takes each in the end, as Go chooses at
random (strong fairness of `ReceiveStep` and `Handover`, which a cancelation
keeps disabling). Nothing is assumed of cancelation or Close. The messages of a
run are finite, so DropOldest cannot be starved for ever by other producers;
with an endless stream it could, and `CallsReturn` does not say otherwise.

**Proofs** (`UtilityProofs.tla`), for any producers, consumers, messages,
queue capacity and strategy: `ControllerType`, `LoadIsAccounted` and
`MessagesHaveOneFate` prove `TypeOK`, `LoadAccounts` and `OneFate`. The
inductive invariant is `ControllerInv == TypeOK /\ Bookkeeping`. Neither of the
two safety properties is inductive alone: an eviction adds to the account only
if the message was not evicted before, and a receive to `OneFate` only if the
message is not received already, so each needs the other; and both need
`CallsCarry` and `OneCaller` (a message is in the hands of one call at most),
`Apart` (the queue
holds no message twice, and queue, `received` and `evicted` share none) and
`PlacedExactly` (in one of the three are exactly the messages whose Submit
succeeded or has only the counting left). The
liveness properties stay with TLC.

## 6. Red-black tree

`RedBlackTree.tla` keeps the pointers: root, colors, children, parents, and the
one sentinel `Nil` whose parent the code overwrites in `transplant` and reads
in `deleteFixup`. Nodes are named by price; `Null` is Go's nil. The mirrored
halves of the code (`leftRotate`/`rightRotate`, the two branches of both
fix-ups, `successor`/`predecessor`) are one definition with a direction. An
iteration of a fix-up loop is a step, so the invariants also speak of the tree
inside a loop. `PriceLevels.tla` is what the engine needs of it.

One run, `tree`, over every sequence of insertions and deletions of seven prices
and, from the tree of the first eight on, of trees of nine and ten levels (`Few`,
`Many` in `MCRedBlackTree`): `IsRedBlackTree` (types, links, search order, colors, no
read past the sentinel), `LevelsInOrder`, `HoldsTheLevels` (the refinement of
`PriceLevels`) and `FixupEnds`. Seven prices alone would not do for `FixupEnds`: no
loop then goes more than one round. The loop of an insert climbs a second time from
eight levels on. That of a delete needs a black node that loses a black child, has
a black child left and a black parent; the smallest such tree that insertions and
deletions make has ten levels (1 to 10 in order, then 1 is deleted). A third round
needs more levels than TLC gets to. Fairness: the
goroutine that holds the mutex goes on. A node that was deleted is garbage in Go;
here its fields go back to those of no node, so that only the sentinel carries
over what an operation wrote to it. The engine's model uses the tree as the set of
its levels, which is what `HoldsTheLevels` and `LevelsInOrder` justify. The engine
calls it from one goroutine at a time, under its own mutex.

**Proofs** (`RedBlackTreeProofs.tla`), for any set of integer prices, finite or
not: `StaysRedBlack` (`Spec => []IsRedBlackTree`), `ImplementsPriceLevels`
(`Spec => HoldsTheLevels`) and `ListsTheLevelsInOrder` (`Spec => []LevelsInOrder`).

`IsRedBlackTree` is far from inductive: it says nothing of colors while a loop
runs. The invariant (`Inv`, theorem `Phases`) says that the tree is in one of three
phases. At `Rest` all is well. `Inserting`: every path has its black nodes, and the
only red node with a red parent is the loop's `z`. `Deleting`: no red node has a
red child, except next to `x`, and the paths through `x` are one black node short,
unless `x` is the root. In both loops the root is black unless it is `z` or `x`.
Each phase also says that the pointers agree, the sentinel's parent included where
`deleteFixup` reads it.

Two witnesses carry the phases: `sub`, the prices below each node, and `bh`, its
black height. They are described by what they are at a node and at its children
(`Spans`, `Links`, `Balanced`), never by recursion, so that a step proves its
successor's phase by giving the new functions: a rotation changes `sub` at two
nodes (`Swung`), an insertion at the nodes above the new leaf, a deletion at those
above the gap (`Without`). `deleteNode` with
two children is done in two: the successor is taken out from below (`Spliced`), and
then takes the place, the color and the links of the deleted node (`InStead`).

The properties speak of recursive functions (`Subtree`, `BlackHeights`, `Extreme`,
`Following`). For each the proof gives a function in closed form that satisfies the
recursion, so that the chosen one exists, and shows by induction that every
solution has those values: from the leaves for the heights and keys, along the way
down for the searches, along the way up for `successor`. The induction is that of
finite sets of nodes, from `sub`. `Following` is then the best of the keys that are
worse (`FollowingIs`): it is in the subtree on that side, or, when there is none,
the first node above which the walk up leaves on the other side (`Past`).
`LevelsInOrder` follows with the rank of a key, the number of better ones: the
k-th node of the walk, counted from zero, is the key of rank k (`WalkIs`, `LevelsAre`).

`FixupEnds` is liveness and stays with TLC.

## 7. WebSocket hub

`WebSocketHub.tla` has four kinds of process: `run` (the loop, with the
iterations of `broadcastMarketUpdates` as steps), per client a `reader`
(HandleWebSocket, then readPump with the request handlers) and a `writer`
(writePump), and `publisher` calls of BroadcastOrderBookEvent. `clients`,
`subscribers` and `symbols` are the three maps; `buffer` counts the messages in
a send channel and `closed` holds the closed ones. `hub.mu` is held over several
steps only in `removeClientSubscriptions`, the mutex of a client only while a
request of its own is handled, so both are read off the processes. A panic
stops everything (`panicked`): these goroutines are not recovered. Map accesses
without a lock are atomic here; Go may also abort on them.

One run, `hub`: a client, two symbols (one without a book), a buffer of two
messages and a publisher. It checks `TypeOK`, `SubscriptionsAgree`,
`ClientsAreOpen`, `PanicsOnlyAfterDrop`, `HubReturns` and `HandlersEnd`.

A client dropped for a full buffer stays in `subscriptions`, and its reader
goes on; the next send to it panics. With a full buffer the book pass of an
update closes the channel and the depth pass hits it.
`BroadcastOrderBookEvent` sends to a copy of the subscribers, so a client that
leaves in peace meanwhile makes it panic, too; `PanicsOnlyAfterDrop` allows
that, and shows that there is no third way.

The two lock orders do no harm: the loop asks for a client's mutex only after
its reader is gone (`HubReturns`). After Run has ended nobody takes the
unregistrations any more and readers stay blocked at line 153; `HandlersEnd`
excludes that. Fairness: goroutines go on; the loop's `select` takes every
ready case in the end; reading from a connection that writePump closed fails.
Peers need neither read nor send.

**Proofs** (`WebSocketHubProofs.tla`), for any clients, symbols, publishers and
buffer size: `HubType`, `SubscriptionsAgreeAlways`, `RegisteredClientsAreOpen`
and `PanicNeedsDrop` prove the four invariants of the run, all from one
inductive invariant, `HubInv`. What it adds says where a client can be known:
before it is registered nowhere (`NewcomersAreUnknown`), afterwards in the map
unless it was dropped (`Registered`); that only the subscriptions of a client
that has left are being removed (`RemovesTheGone`), so that until then the two
kinds of subscriptions agree even in the middle of a request (`Agreement`); and
that a closed channel belongs to a client that was dropped or has left
(`ClosedIsDroppedOrGone`), of which the loop, in an update, reaches the former
only (`UpdatesReachOpen`), because a client that left is out of `subscribers`
before the next tick. That last step is what `PanicsOnlyAfterDrop` rests on.
The steps that move a reader and change nothing the others see are one lemma
(`QuietStep`).

With a buffer of two a send succeeds, a later one finds the buffer full, and the
one after it finds the channel closed. One client is enough for every race the properties are about, since
each is between the goroutines of one client, the loop and the publisher; that
clients do not disturb each other is in the theorems, for any number of them.
`clientSendTimeout` is not declared anywhere in the package: the model takes it
as some duration. `hub.broadcast` has no sender and is left out.

## 8. Rate limiters

`RateLimiter.tla` has the three limiters as records in a sequence, by address: an
adaptive limiter refers to its bucket by address and puts another in its place.
Time is kept as ages, in ticks (two are a second), each stopped at the value
from which nothing depends on it; rates are in tenths of a token per second. A
critical section is a step: `WaitN` is `Ask`, `Calculate` (for a window also
`First`, which looks at its requests a second time) and a sleep of so many
ticks, and other callers come in between. `granted` (what passed, by age),
`slept`, `lost` and `peeked` are history. `RateLimiterManager.tla` adds the map
of limiters for one name, with both looks of the double-checked creation
(`Lookup`, `Create`), `Remove` and `GetStats`.

One run, `limiter`: two callers, five calls in all, at most four limiters, a
token bucket of 1.5 tokens a second, a window of 2 in 2 ticks and an adaptive
limiter between 0.5 and 1.2. Every fractional refill, a window that slides past
half of its requests and a bucket that is replaced under a waiter occur.

- `BucketKeepsItsRate` compares what a bucket or a window lets pass in every
  stretch of time with its rate or limit, and the sleep of a waiter with what its
  tokens, and those others took before it, need to come. It speaks of one bucket
  at a time. An adaptive limiter as a whole is excluded: `AdjustRate` puts a full
  bucket in place of one that callers still wait at (rate_limiter.go:390), so
  that it may pass a burst with every adjustment, beside what the waiters get from
  the buckets before.
- `OneLimiter`: all callers of a name share one, in spite of the double look.
- `WaitersReturn`: every call ends, if the others come only so often and nobody
  asks for the remaining tokens. `MaxCalls` stands in the guards of the calls, so
  the run cannot show, and the property does not claim, what the code permits
  without it: a `WaitN` for two tokens that never ends, because others call
  `Allow` again and again and take the first before the second has come. What is
  left is that a retry after a refusal finds its tokens at last, also in a bucket
  that was replaced. How long it may sleep for each token that others took is
  bounded by `BucketKeepsItsRate`, and proved for any number of calls.
- `WaitersReturn` also ends with the first request for the remaining tokens, and
  shows nothing of what happens then: `TokensRemaining` takes the mutex of a bucket for reading and, inside, for
  writing: it never returns, and everyone at the bucket waits with it; under
  `GetStats` so does everyone at the manager (`Peek`). On a window it trims the
  requests under the lock for reading, so a waiter that has just found them not
  empty indexes an empty slice and panics (`First`).

Fairness: time passes and goroutines run on.

**Proof** (`LimiterProofs.tla`): `CallersShareOneLimiter`, `Spec => []OneLimiter`,
for any callers and any number of limiters. It needs little more than the type
of the callers' records (`HoldInv`), because a limiter that is replaced or removed
is retired in the same step; the lemmas (`CallsKeep`) are about the calls of a
limiter, each of which leaves its caller with the one it has.

`EveryBucketKeepsItsRate`, `Spec => []BucketKeepsItsRate`, for every rate, burst and window
and any number of callers, has more to carry. The inductive invariant (`KeepInv`)
says of every limiter and every waiter why the numbers come out.

- A bucket's books (`Accounts`): for every stretch of time, what passed and the
  tokens at hand came from a burst and from refills inside the stretch, up to the
  last one; and a grant made after the last refill came too early to bring a token
  itself. Refills round down and drop the rest, so the books are kept in products,
  with one rounded quotient for the whole stretch (`CeilingAdds`).
- A window's requests (`Orderly`): sorted by age, no more than the limit, and the
  last of them are the grants of each stretch, so that cutting off the old ones
  (`SinceCuts`) forgets nothing that still counts.
- A waiter's sleep (`BucketWaiter`, `WindowWaiter`): what it slept, with the sleep it
  has begun, is within the bound; and unless the bucket has had the time to fill up,
  it slept for tokens that came and were lost to others, or since the last refill.
  This is what makes a retry after a refusal no worse than the first sleep.

The sums over `granted` are a recursive function; that it exists, and what it adds
up to a tick later, is shown by induction on the ages (`UpTo`). The assumptions on
the constants (`RateAssumption`) are what the constructors make of their arguments
(a window's limit and length are positive, the adaptive bounds are in order); that
nobody asks for a negative number of tokens is how the callers in the repository
behave, the code does not check it.

Looking for the proof corrected the property: the sleep of a waiter had been
compared with the time that its tokens take at the nominal rate. A refill drops
the fraction of a token, almost as much as it adds when it comes just before the
second token; TLC then found the sleep that this costs (rate 0.7, burst 3), and
the bound is twice the nominal time.

## 9. Topic and event pipeline

`KafkaTopic.tla` is one topic seen through the wrappers. The library and the
broker are external: `Enqueue`, `Deliver` and `DeliveryFails` keep the order of
an idempotent producer. A consumer group goes on at the committed offset; in a
partition where it committed nothing it starts at the beginning or behind all that
is there, by the `auto.offset.reset` that NewConsumer passes on (`FirstOffset`).
`reset` is `earliest` or `latest` from the first state on, since each caller of
NewConsumer gives a constant: `market/processor.go` the first, `enhanced_processor.go`
and the risk engine the second. The consumer is of one of three kinds (ConsumeMessages,
ConsumeMessagesBatch, ConsumeMessage), may crash at every step and comes back as
any kind. Its loops are the steps `Poll`, `BatchTimeout`, `Handle`, `Commit` and
`CommitFails`. The caller of `ProduceMessageSync` may give up before its report
comes, which then panics on a closed channel (`Report`).

`EventPipeline.tla` composes it with the EnhancedProcessor. Of an engine it has
the channel, of which section 3 has the rest. The relay visits the channels in
any order (`NextChannel`), takes an event at a time (`Relay`) and drops what the
producer refuses. `Stop` never returns after a `Start`, because `processEvents`
does not call `wg.Done`; the market data goroutine dereferences a nil message
after five quiet seconds (`MarketPanics`).

One run, `pipeline`: two symbols, a partition each, three events, channels and
the producer's queue of 2, batches of 2. Three events are one more than a channel
holds, and two of them make a batch. The caller of `ProduceMessageSync` and Stop
touch the events nowhere, so `OneAtATime` in `MCEventPipeline` explores each of
them with at most one event per engine and before anything was handled, and not
together.

- `CommittedWereOffered`: no commit runs ahead of the handlers, although failures
  of handlers are skipped and a batch commits its last message only. What a start
  under `latest` passed over (`skipped`) is excepted. (A consumer that polls with
  ConsumeMessage, as those of the programs do, never commits: under `latest` it
  loses, at every start, what came while it was down.)
- `EventsInOrder`, an action property: what reaches a handler for the first time
  comes after everything of its symbol that handlers saw before, in the order in
  which the engine emitted it, with gaps. (A crash makes handlers see events again:
  `offered` is a set.)
- `EventsArrive`: nothing stays on the way while relay and consumer run. It is about
  waiting, not about loss: what the library gives up has left the queue, what was
  skipped is not waited for, and a program that panicked owes nothing.

Fairness: goroutines run, and the library sends what it has or gives it up.

**Proofs** (`PipelineProofs.tla`), for any symbols, partitions, channel, queue and
batch sizes: `PipelineInvariant`, `CommitsFollowHandlers` (`Spec =>
[]CommittedWereOffered`) and `HandlersSeeEventsInOrder` (`Spec => EventsInOrder`).
`CommittedWereOffered` is not inductive: it lacks what the consumer has in its
hands. `ReadInv` adds it: everything below the position was offered, is in the
batch until the handlers are through, or was passed over (`ReadOn`), the batch is
read in order and lies below the position (`BatchInOrder`), positions and commits are
within the log (`WithinLog`), handlers saw each partition from its start without a
gap but what was passed over (`OfferedFromTheStart`), and that is behind the commit,
the position and all that is read since (`SkippedIsBehind`). The last two are also
what makes `EventsInOrder` true of a consumer that went back to the committed offset,
or forward to the end: what it sees for the first time
lies above everything seen. The other half is `OrderInv`: a symbol has one
partition, and its events are in order in the channel, the queue of the producer
and the partition, and each of these before the next. The facts about heads,
tails and appended elements are lemmas of their own (`TailInOrder`,
`AppendInOrder`).

## 10. Market data

`DataManager.tla`: of the data only the underlying is kept, which is what the
index depends on. `MarketDataProcessor.tla` has the consuming goroutine (`Wait`,
a poll, `Look`, and `Consider` and `Send` per subscriber, with the aggregator's
mutex held), the cleanup and Stop; the DataProcessor with its feed, books and
pool; and the Subscribe and Unsubscribe of both, of which the DataProcessor's take
the mutex nowhere.

A call is a process of its own (`calls[c]`), and its accesses to the shared maps
are a step each: `Subscribe` or `SubscribeUnlocked` makes the subscription,
`Register` enters it by ID, and for each symbol it named `Check`, `MakeEmpty`,
`ReadList`, `AppendTo` and `WriteBack` follow; `Unsubscribe` looks it up, `Close`
clears `Active` and closes the channels, `Delete` takes out the ID, and for each
symbol come `ReadList`, `Search`, `TakeOut` and `WriteBack`. A call with the mutex
holds it from the first step to the last; several without it may be anywhere, two
cancels of one subscription included, of which the second one closes a closed
channel. So a list that one call read is written back over what another wrote
meanwhile.

Lists are Go slices, `[array, len]` of `arrays[symbol]`, because the distribution
goes through the slice that it read: an append writes past its end in the same
array if there is room there, else into a new array of twice the size; the
mutex's Unsubscribe puts the last element into the gap, the other one moves the
later ones up, both in the array itself. What a read of a field returns that is being blanked is a
choice (`Reads`). Where two goroutines meet inside a Go map, the runtime may abort
the program: the model orders them.

Two things would end every real behaviour early and are actions among others
here: a poll of 100 ms without a message yields neither message nor error, and
the message is dereferenced (`PollPanics`); and `UnmarshalJSON` of market data is
a stub that panics (`pkg/models/market.go:77`). `Receive` lets a
document decode, to say what the rest of the processor does with it.

One run, `market`: a share and an option on it, four documents (one of them
changes the option's underlying), two subscriptions with buffers of 1 and 0, one
of which names the option twice and is in its list twice, one clock-made ID that
both may get, two callers, three updates, a feed of one. A list has up to three elements, so
appends go into new arrays and, after a removal, in place, and a removal has
elements to move. `MCMarketDataProcessor` keeps apart what does not touch: subscriptions
change neither the index nor the end of the DataProcessor (`OneAtATime`: three
updates without subscriptions, one with them, of which one is canceled); in the
middle of a call come steps of the other caller and of a distribution only
(`Together`); and no call begins where `ServedOrTold` says nothing any more
(`Relevant`). Not explored, therefore: two cancels of one subscription together
with an update to a third, three callers, a second distribution after a
contended list. The proof has none of these bounds.

- `IndexIsExact` relates the index to the data through every update and cleanup.
- `ServedOrTold`: those whose Subscribe had returned before the update came, who
  asked for it and are still there when its distribution ends, have it or word
  of it, whatever is appended to their list meanwhile. It is not true of every
  behaviour, and says of which not: two calls had the list of the symbol in hand
  at once, one of them without the mutex, and one may have written back what the
  other one changed (`contended`); the DataProcessor blanked the update, or moved
  elements of the list, during the distribution (`raced`); another subscription
  has the same ID (`Mistaken`: `GenerateSubscriptionID` returns the clock at six
  moments, so two can be equal). In these cases subscribers are missed, today.
- `StopsEnd`: Stop returns only once the context of Start is canceled as well,
  since the cleanup waits for that one. `main` of the risk engine and of the
  processor call Stop before they cancel it.

Fairness: goroutines run, so a call goes on and a cleanup that has begun removes
what it found to be old; a reader gets the mutex between two writers, as
`sync.RWMutex` has it (strong fairness of `Look`); a `select` with two cases ready
again and again takes each some time (strong fairness of `DataProcessorEnds`).

**Proofs** (`MarketProofs.tla`): `IndexStaysExact`, `Spec => []IndexIsExact`, for any
symbols and underlyings, any data that come and any choice of what is old, from
`DataInv`, which adds the types of the two maps. The work is in the lists:
a new derivative is appended if it is not there (`AppendKeepsApart`), one
that goes has the last one put in its place (`SwapRemoves`), and an update that
changes the underlying is both, in two lists that differ
(`UpdateKeepsIndex`, `RemoveKeepsIndex`). `MessagesAssumption` says what the
documents may hold: a share indexes nothing, a derivative names what it is on.

`SubscribersAreServed`, `Spec => ServedOrTold`, for any subscriptions, callers and
ids, any number of updates and any feed; of a request it assumes that it has a
list of symbols (`RequestsAssumption`). The parts of `DistInv`, each kept by every
step:

- `SubTypes`: what the maps, slices and calls may hold; every element of a slice,
  listed or in hand, is a subscription (`Proper`), and what a call cancels is
  closed once it is past `Close` (`Sound`). A canceled one is gone from then on
  (`GoneForEver`).
- `AllKept`: of a symbol that was never contended, one call at most has the list in
  hand; until it has changed it, its slice is the one listed, and then it has
  everybody who is subscribed (`Handled`); and everybody who is subscribed is in
  the list (`Subscribed`, `Has`). `AppendWrites` and `TakeOutWrites` say what the
  two steps that write into an array do to it: nothing below the end of the slice
  changes, or one element goes and its ID is that of a canceled one.
- `UpdateInv`, `Intact`: the feed holds updates that were received, and what the
  DataProcessor recycles it has begun to blank. Hence the update at hand stays
  intact unless its booking was seen, which is one of the exemptions.
- `Distribution`: in a distribution without an exemption, each subscription that is due
  asked for this update and is gone or still ahead in the array (`AtHand`): at an
  element within every slice of that array that is listed or in hand (`Within`),
  so that an append to any of them goes past it.

`Look`, `Consider` and `Send` are a lemma each, which also says who has been
served when the list is at its end (`NextKeeps`), and so is each step of a call
(`AppendHand`, `TakeOutHand`, `WriteBackHand`, ...).

## 11. Risk and hedging

`RiskCalculator.tla` models a call of CalculateRiskMetrics: `jobs` (filled and
closed at once), `workers` and what they are at (`busy`), the goroutine that
closes the results, and the collector with its map by symbol. Two positions of
one symbol share an entry; the last result stays. Floating point is left to what
decides control: a portfolio without a positive value has a shortfall of zero,
its contributions are NaN or infinite, and json.Marshal refuses its metrics
(`Encodable`). `RiskEngine.tla` has the two loops of `cmd/risk-engine`;
`Hedging.tla` the three strategies, the optimisation under a budget (exchange
sort, greedy, the rest scaled down and rounded to a lot) and the two handlers, in
integers: prices and exposures are sets, Greeks of options in hundredths. The
pricing model is external. `RiskService.tla` composes both over a store; in the
repository they are in two programs, each with a store of the same code.

| run | instance | shows |
|---|---|---|
| `risk` | 2 portfolios in 3 versions (a symbol twice, one without data, a short one), 2 workers a call, 3 updates; hedges of 10 exposures, 2 pairs of options, 2 markets, 3 budgets | `MetricsOfOnePortfolio`, `HedgeHelps`, `MetricsCatchUp` |
| `delta_gamma` | the same | the violation of `SolvesTheSystem` |

A hedge reads of the engine only that a portfolio is stored, so
`MCRiskService` lets requests come while the loops rest (`Quiet`).

`MetricsCatchUp` is what the ticks are for: the two loops may send in the wrong
order, and a full queue drops what they send. Fairness: goroutines run, and for
each portfolio the queue of the producer has room time and again (strong
fairness of the ticks' `Produce`); with a queue that is always full nothing is
ever sent. Portfolios without positive value are exempt: nothing is sent for them.

The second half of `HedgeHelps` holds for delta hedges, each a single order, so
it says nothing of the orders of one hedge of which some are refused; its first
half allows the half lot that the rounding may add to the budget. A minimum-variance hedge adds to the
exposure, because its weights are negative and the delta is negated once more;
there is no claim in the repository to hold against it. Of the delta-gamma hedge
there is one:

**`SolvesTheSystem`** (`delta_gamma`): the comment in front of the formulas says
`q1 * callDelta + q2 * putDelta = -netDelta`; the formulas solve for `+netDelta`.
With both numerators negated the property holds.

**Proof** (`RiskProofs.tla`): `MetricsAreComplete`, `Spec =>
[]MetricsOfOnePortfolio`, for any portfolios, positions, symbols and number of
workers. The property speaks of what was sent, so it needs an invariant of every
call. `Working` says that each position that counts is among the jobs, in a
worker's hands or in the results, or its symbol has a risk (`HasRisk`); that
workers are not all gone while there are jobs; and that results are closed only
when they are. `CallInv` adds that no more positions are being worked on than
there are workers: closed results then mean that no position is anywhere but in
the map (`DoneIsComplete`). Each step of a call is a lemma about its record
(`TakeJobCall`, `FinishJobCall`, ...), and `OneCall` lifts it to the engine, where
calls do not meet.

`HedgesHelp`, `Spec => []HedgeHelps`, holds for any exposures, Greeks, budgets and
positive prices. The invariant (`HedgeInv`) is small, what a strategy is made of
is not. Sums and the sort are recursive functions, of which the prover knows
nothing until a function that satisfies the recursion is shown to exist
(`RunsExist`, from the least element of a finite set of numbers); then the sort
keeps the length and the set of the actions (`SortedType`), and a sum is the last
of its partial sums (`SumIs`). `Fits` says that the budget pays for the chosen
actions and not for one more; `ScaledCost` that what is bought with the rest of it
costs at most half a lot more. A delta hedge rounds to n lots only if the delta is
50 or more, and then goes at most to the other side of it (`WholeIsAgainst`); a
part of it has its sign and is no larger (`PartIsLess`); and of its one order
either all or nothing is placed (`BoughtInAll`). `HedgingAssumption` asks for whole
numbers and positive prices, nothing else.

## 12. Not modelled

Of modelled components:

- AdaptiveController (an interval scaled in floating point), and the managers of
  breakers and controllers, which create by the double-checked locking that
  `RateLimiterManager` models;
- ConsumeBatch, ProduceBatch, Flush, Close, transactions, topic administration
  and calls passed through to the library (Seek, Pause, CommitOffset): nothing in
  the repository calls them while messages flow;
- prices and levels of the books of the DataProcessor, which nothing branches on,
  and provider subscriptions: no provider is implemented;
- the statistics of VaR and expected shortfall, the stress test, the calculator's
  own hedging and the recommendations: they read and return. Black-Scholes and
  the Greeks are floating-point mathematics without state.

Of the rest: the routes of `pkg/api` answer with made-up data; the profiler does
not compile (`profiler.go:271` returns a time as a duration); the adapter's
PlaceOrder always fails; `main` functions wire, and their shutdown stays in
`Stop` of the market processor (section 10); historical data are made up for any
symbol, and `History` lets the store miss one, as its interface may. Metrics,
logging, configuration, errors and generated code have no state that interacts.

Only model-checked, of all modules:

- liveness (`CallsEnd`, `Recovers`, `DeliveredUnlessBlock`, `CallsReturn`,
  `HubReturns`, `HandlersEnd`, `WaitersReturn`, `StopsEnd`, `EventsArrive`,
  `FixupEnds`, `MetricsCatchUp`): out of the prover's reach;
- the two violations of sections 3 and 11, which are examples.

Every other property of a passing run has a theorem, `ModifyReplaces` and
`ViewsAgree` for the clients that use no OrderID twice.
