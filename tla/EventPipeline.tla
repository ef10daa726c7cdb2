----------------------------- MODULE EventPipeline -----------------------------
(***************************************************************************)
(* The EnhancedProcessor of internal/market/enhanced_processor.go between  *)
(* the matching engines and the topic orderbook.events.  An engine is here *)
(* what it shows the processor: orders make it emit events, numbered from  *)
(* one, into a channel that drops what does not fit (MatchingEngine has    *)
(* the rest).  A relay empties the channels every 100 ms into the topic.   *)
(***************************************************************************)
EXTENDS KafkaTopic

CONSTANTS
    ChannelSize,   \* 1000 in the code
    MaxEvents      \* bound: events that all engines emit

VARIABLES
    engines,      \* matchingEngines: [emitted, channel, open] by symbol; partial
    registered,   \* eventChannels
    ctx,          \* the context given to Start is live
    started,      \* Start was called; nothing prevents a second call, left out here
    relay,        \* the goroutine of processEvents
    market,       \* the goroutine of consumeMarketData
    stop

pipeVars == <<engines, registered, ctx, started, relay, market, stop>>
vars == <<topicVars, pipeVars>>

RelayIs(at) == [at |-> at, todo |-> {}, symbol |-> None]

Init ==
    /\ TopicInit
    /\ engines = <<>> /\ registered = {}
    /\ ctx = TRUE /\ started = FALSE
    /\ relay = RelayIs("off") /\ market = "off" /\ stop = "no"

Event(symbol, n) == [key |-> symbol, n |-> n]
Closed(e) == [e EXCEPT !.open = FALSE]

-----------------------------------------------------------------------------
(* Start and Stop.                                                          *)

\* without a producer nothing starts
Start ==
    /\ ~started /\ stop # "waiting"
    /\ started' = TRUE
    /\ \/ UNCHANGED <<relay, market>>
       \/ relay' = RelayIs("idle") /\ market' = "polling"
    /\ UNCHANGED <<topicVars, engines, registered, ctx, stop>>

CancelStart ==
    /\ ctx /\ ctx' = FALSE
    /\ UNCHANGED <<topicVars, engines, registered, started, relay, market, stop>>

\* Stop cancels a context that no goroutine looks at, and waits for both.
Stop ==
    /\ stop = "no" /\ stop' = "waiting"
    /\ UNCHANGED <<topicVars, engines, registered, ctx, started, relay, market>>

\* processEvents never says that it is done: Stop returns, and closes the
\* engines, only if nothing was started.
StopReturns ==
    /\ stop = "waiting" /\ relay.at = "off" /\ market = "off"
    /\ stop' = "returned"
    /\ engines' = [s \in DOMAIN engines |-> Closed(engines[s])]
    /\ UNCHANGED <<topicVars, registered, ctx, started, relay, market>>

\* no consumer, or the context is canceled
MarketEnds ==
    /\ market = "polling" /\ market' = "off"
    /\ UNCHANGED <<topicVars, engines, registered, ctx, started, relay, stop>>

\* No message for 5 s is a nil message without an error, and is dereferenced.
\* (A message becomes a mock of AAPL for the DataManager: see there.)
MarketPanics ==
    /\ market = "polling" /\ panicked' = TRUE
    /\ UNCHANGED <<producerVars, consumerVars, pipeVars>>

-----------------------------------------------------------------------------
(* Orders.                                                                  *)

\* PlaceOrder makes the engine of the symbol, and its channel known to the relay
getOrCreateMatchingEngine(symbol) ==
    IF symbol \in DOMAIN engines THEN engines[symbol] ELSE [emitted |-> 0, channel |-> <<>>, open |-> TRUE]

\* PlaceOrder, or a CancelOrder or ModifyOrder of an order of that engine: it
\* emits an event, and panics if Stop closed its channel
Order(symbol) ==
    LET engine == getOrCreateMatchingEngine(symbol)
        n == engine.emitted + 1
    IN  /\ SumFunction([s \in DOMAIN engines |-> engines[s].emitted]) < MaxEvents
        /\ engines' = [s \in DOMAIN engines \cup {symbol} |->
              IF s # symbol THEN engines[s]
              ELSE [engine EXCEPT !.emitted = n,
                       !.channel = IF Len(@) < ChannelSize THEN Append(@, Event(symbol, n)) ELSE @]]
        /\ registered' = IF symbol \in DOMAIN engines THEN registered ELSE registered \cup {symbol}
        /\ panicked' = ~engine.open
        /\ UNCHANGED <<producerVars, consumerVars, ctx, started, relay, market, stop>>

-----------------------------------------------------------------------------
(* The relay.                                                               *)

RelayEnds ==
    /\ relay.at = "idle" /\ ~ctx
    /\ relay' = RelayIs("ended")
    /\ UNCHANGED <<topicVars, engines, registered, ctx, started, market, stop>>

\* the ticker; the channels are copied
Tick ==
    /\ relay.at = "idle" /\ registered # {}
    /\ relay' = [RelayIs("draining") EXCEPT !.todo = registered]
    /\ UNCHANGED <<topicVars, engines, registered, ctx, started, market, stop>>

\* a range over a map visits it in any order
NextChannel(symbol) ==
    /\ relay.at = "draining" /\ relay.symbol = None /\ symbol \in relay.todo
    /\ relay' = [relay EXCEPT !.symbol = symbol, !.todo = @ \ {symbol}]
    /\ UNCHANGED <<topicVars, engines, registered, ctx, started, market, stop>>

\* (faulty variant: the newest event is taken first)
RelaysNewest ==
    /\ relay.symbol # None /\ engines[relay.symbol].channel # <<>>
    /\ ProduceMessage(Last(engines[relay.symbol].channel))
    /\ engines' = [engines EXCEPT ![relay.symbol].channel = Front(@)]
    /\ UNCHANGED <<log, sync, consumerVars, panicked, registered, ctx, started, relay, market, stop>>

\* processChannelEvents takes an event and hands it to the producer, whose error
\* is only logged
Relay ==
    /\ relay.symbol # None /\ engines[relay.symbol].channel # <<>>
    /\ ProduceMessage(Head(engines[relay.symbol].channel))
    /\ engines' = [engines EXCEPT ![relay.symbol].channel = Tail(@)]
    /\ UNCHANGED <<log, sync, consumerVars, panicked, registered, ctx, started, relay, market, stop>>

RelayDone == IF relay.todo = {} THEN RelayIs("idle") ELSE [relay EXCEPT !.symbol = None]

\* (faulty variant: an empty channel ends the round)
EndsRound ==
    /\ relay.symbol # None /\ engines[relay.symbol].channel = <<>>
    /\ relay' = RelayIs("idle")
    /\ registered' = IF engines[relay.symbol].open THEN registered ELSE registered \ {relay.symbol}
    /\ UNCHANGED <<topicVars, engines, ctx, started, market, stop>>

\* nothing there, for now or for good
ChannelEmpty ==
    /\ relay.symbol # None /\ engines[relay.symbol].channel = <<>>
    /\ relay' = RelayDone
    /\ registered' = IF engines[relay.symbol].open THEN registered ELSE registered \ {relay.symbol}
    /\ UNCHANGED <<topicVars, engines, ctx, started, market, stop>>

-----------------------------------------------------------------------------
RelayStep == RelayEnds \/ Tick \/ (\E s \in Keys : NextChannel(s)) \/ Relay \/ ChannelEmpty

\* somebody else who waits for his message to arrive
Probe(symbol) == Event(symbol, 0)

Next ==
    /\ ~panicked
    /\ \/ TopicNext /\ UNCHANGED pipeVars
       \/ \E s \in Keys : ProduceMessageSync(Probe(s)) /\ UNCHANGED pipeVars
       \/ Start \/ CancelStart \/ Stop \/ StopReturns \/ MarketEnds \/ MarketPanics
       \/ \E s \in Keys : Order(s)
       \/ RelayStep

Spec == Init /\ [][Next]_vars

\* Goroutines run, and the library sends what is in its queue or gives it up.
\* (The topic is bounded, so a consumer that runs comes to every partition.)
Fairness ==
    /\ WF_vars(~panicked /\ RelayStep)
    /\ WF_vars(~panicked /\ (Deliver \/ DeliveryFails) /\ UNCHANGED pipeVars)
    /\ WF_vars(~panicked /\ ConsumerStep /\ UNCHANGED pipeVars)

FairSpec == Spec /\ Fairness

-----------------------------------------------------------------------------
Message(m) == log[m.partition][m.offset]

Precedes(e, f) == e.key = f.key /\ e.n # 0 /\ f.n # 0 => e.n < f.n

\* From an engine to a handler the events of a symbol keep their order, through a
\* relay that visits the channels as it likes, a producer and consumers that
\* crash: some are lost on the way, but one that a handler sees for the first time
\* is later than all that handlers saw before, earlier in the same batch too, and
\* none is there twice (enhanced_processor.go:361-419).
EventsInOrder ==
    [][LET batch == consumer.batch
       IN  \A i \in DOMAIN batch : batch[i] \in offered' \ offered =>
              \A m \in offered \cup {batch[j] : j \in 1 .. i - 1} : Precedes(Message(m), Message(batch[i]))]_vars

Arrived ==
    \/ relay.at = "off" \/ ~ctx \/ panicked
    \/ queue = <<>> /\ \A s \in DOMAIN engines : engines[s].channel = <<>>

Handled ==
    \/ consumer.at = "down" \/ panicked
    \/ \A p \in Partitions : \A o \in DOMAIN log[p] :
          [partition |-> p, offset |-> o] \in offered \cup skipped

\* Events that are in a channel leave all channels and the producer's queue until
\* the relay is told to end, and what comes into the topic while a consumer is up,
\* or was there when it started and was not passed over under 'latest', comes to
\* a handler: nothing stays on the way.  A message that the library gives up has
\* left the queue, a consumer that is down owes nothing, and neither does a program
\* that panicked (enhanced_processor.go:346-391, consumer.go:79-136).
EventsArrive == []<>Arrived /\ []<>Handled
=============================================================================
