-------------------------- MODULE MarketDataProcessor --------------------------
(***************************************************************************)
(* The market data processor (internal/market/processor.go), its           *)
(* aggregator and, on the same aggregator, the DataProcessor and its order *)
(* books (internal/market/data.go).                                        *)
(*                                                                         *)
(* One goroutine takes updates from Kafka, stores them, forwards them to   *)
(* the DataProcessor and offers a copy to every subscriber, under the      *)
(* aggregator's mutex.  The DataProcessor takes that mutex nowhere: it     *)
(* changes the subscriptions, and blanks the forwarded update when it puts *)
(* it into the pool, while the first goroutine reads them.                 *)
(*                                                                         *)
(* So the calls that change subscriptions are taken apart, the locked ones *)
(* too: a list is read, searched, changed in its array, and written back,  *)
(* in a step each.  Lists are Go slices, of arrays that calls and the      *)
(* distribution share.  What a read of a field that is being blanked       *)
(* returns is a choice; where two accesses meet inside one map, which Go   *)
(* may abort, they are ordered.                                            *)
(*                                                                         *)
(* Init is the state once both are started.                                *)
(***************************************************************************)
EXTENDS DataManager

CONSTANTS
    Messages,       \* documents on the topic: [symbol, type, underlying]
    BlankType,      \* the zero MarketDataType, TRADE
    BookTypes,      \* DEPTH and QUOTE
    Subs,           \* subscriptions, by address
    Requests,       \* what each of them asks for: [symbols, types, buffer]
    Ids,            \* what GenerateSubscriptionID may return: the clock, in short
    Callers,        \* goroutines that subscribe and unsubscribe
    FeedCapacity,   \* 10000 in the code
    MaxUpdates,     \* bound: updates received
    None

ASSUME MessagesAssumption ==
    \A data \in Messages : data.symbol \in Symbols /\ data.underlying \in Symbols \cup {NoInfo, NoName}

ASSUME RequestsAssumption == \A s \in Subs : Requests[s].symbols \in Seq(Symbols)

ASSUME NoneAssumption == None \notin Subs

VARIABLES
    consumer,    \* the goroutine of consumeMarketData
    cleaner,     \* the goroutine of cleanupStaleData
    stop,        \* MarketDataProcessor.Stop
    dataProc,    \* the DataProcessor
    updates,     \* every update received, by address: its data and phase
    feed,        \* ConsolidatedFeed
    books,       \* the symbols the DataProcessor has a book of
    subs, byID,  \* subscriptions, and SubscriptionsByID
    listed,      \* SymbolSubscriptions: a slice by symbol, partial
    arrays,      \* the arrays of each symbol's slices
    calls,       \* of each caller, the Subscribe or Unsubscribe it is in
    contended,   \* history: symbols whose list two calls had in hand at once
    panicked

procVars == <<consumer, cleaner, stop>>
dpVars == <<dataProc, books>>
subVars == <<subs, byID, listed, arrays, calls, contended>>
vars == <<dataVars, procVars, dpVars, subVars, updates, feed, panicked>>

Empty == [array |-> 0, len |-> 0]

\* due and raced are history: who is to have the update at hand, and whether the
\* DataProcessor changed the update, or moved the elements of its list, meanwhile
Waiting == [at |-> "waiting", update |-> None, symbol |-> None, slice |-> Empty,
            next |-> 1, sub |-> None, due |-> {}, raced |-> FALSE]

\* sub is the subscription that is made or canceled, left the symbols to come
Idle == [op |-> "none", locked |-> FALSE, at |-> "idle", sub |-> None, id |-> None,
         left |-> <<>>, slice |-> Empty, found |-> 0]

Init ==
    /\ DataInit
    /\ consumer = Waiting /\ cleaner = "running" /\ stop = "no"
    /\ dataProc = [at |-> "waiting", update |-> None, stop |-> "no"]
    /\ updates = <<>> /\ feed = <<>> /\ books = {}
    /\ subs = <<>> /\ byID = <<>> /\ listed = <<>> /\ contended = {}
    /\ arrays = [symbol \in Symbols |-> <<>>] /\ calls = [c \in Callers |-> Idle]
    /\ panicked = FALSE

Panic == panicked' = TRUE

-----------------------------------------------------------------------------
(* The goroutines of the MarketDataProcessor, and Stop.                     *)

Stop ==
    /\ stop = "no" /\ stop' = "waiting"
    /\ UNCHANGED <<dataVars, consumer, cleaner, dpVars, subVars, updates, feed, panicked>>

StopReturns ==
    /\ stop = "waiting" /\ consumer.at = "off" /\ cleaner = "off"
    /\ stop' = "returned"
    /\ UNCHANGED <<dataVars, consumer, cleaner, dpVars, subVars, updates, feed, panicked>>

\* the context given to Start is canceled, which ends cleanupStaleData; Stop
\* cancels another one
CancelStart ==
    /\ cleaner = "running" /\ stale = {} /\ cleaner' = "off"
    /\ UNCHANGED <<dataVars, consumer, stop, dpVars, subVars, updates, feed, panicked>>

CleanUp ==
    /\ cleaner = "running"
    /\ RemoveOldData \/ RemoveNext
    /\ UNCHANGED <<procVars, dpVars, subVars, updates, feed, panicked>>

Goes(at) == consumer' = [consumer EXCEPT !.at = at]

\* top of the loop
Wait ==
    /\ consumer.at = "waiting"
    /\ Goes(IF stop = "no" THEN "polling" ELSE "off")
    /\ UNCHANGED <<dataVars, cleaner, stop, dpVars, subVars, updates, feed, panicked>>

\* ConsumeMessage returns an error, or a message that is no JSON document
PollFails ==
    /\ consumer.at = "polling"
    /\ Goes("waiting")
    /\ UNCHANGED <<dataVars, cleaner, stop, dpVars, subVars, updates, feed, panicked>>

\* Nothing arrives for 100 ms: the message is nil, and msg.Value panics.  So
\* does UnmarshalJSON, a stub at this commit, for every document it is given.
PollPanics ==
    /\ consumer.at = "polling"
    /\ Panic
    /\ UNCHANGED <<dataVars, procVars, dpVars, subVars, updates, feed>>

Data(k) == updates[k].data
Settled(s) == ~\E c \in Callers : calls[c].op = "subscribe" /\ calls[c].sub = s
Matches(s, data) == data.type \in Requests[s].types /\ data.symbol \in Range(Requests[s].symbols)

\* A document that UnmarshalJSON fills in: it is stored, and forwarded unless
\* the feed is full.  The stub never gets here; the model allows it, to say what
\* the rest of the processor does with an update.
Receive ==
    /\ consumer.at = "polling" /\ Len(updates) < MaxUpdates
    /\ \E data \in Messages :
          /\ updates' = Append(updates, [data |-> data, phase |-> "intact"])
          /\ UpdateMarketData(data)
          /\ consumer' = [Waiting EXCEPT !.at = "looking", !.update = Len(updates'),
                          !.due = {s \in DOMAIN subs : subs[s].active /\ Settled(s) /\ Matches(s, data)}]
    /\ feed' = IF Len(feed) < FeedCapacity THEN Append(feed, Len(updates')) ELSE feed
    /\ UNCHANGED <<cleaner, stop, dpVars, subVars, panicked>>

-----------------------------------------------------------------------------
(* distributeToSubscribers.                                                 *)

Distributing == consumer.at \in {"offering", "sending"}
MutexFree == ~Distributing /\ \A c \in Callers : ~calls[c].locked

Cell(symbol, slice, i) == arrays[symbol][slice.array][i]

BlankData == [symbol |-> NoName, type |-> BlankType, underlying |-> NoInfo]

\* what a read of an update that is being blanked may return
Reads(k, field) == {Data(k)[field]} \cup
                   IF updates[k].phase = "resetting" THEN {BlankData[field]} ELSE {}

\* the mutex is taken for reading and the slice of subscribers read
Look ==
    /\ consumer.at = "looking" /\ \A c \in Callers : ~calls[c].locked
    /\ \E symbol \in Reads(consumer.update, "symbol") :
          consumer' = IF symbol \notin DOMAIN listed THEN Waiting
                      ELSE IF listed[symbol].len = 0 THEN Waiting
                      ELSE [consumer EXCEPT !.at = "offering", !.symbol = symbol, !.slice = listed[symbol]]
    /\ UNCHANGED <<dataVars, cleaner, stop, dpVars, subVars, updates, feed, panicked>>

NextSubscriber ==
    consumer' = IF consumer.next = consumer.slice.len THEN Waiting
                ELSE [consumer EXCEPT !.at = "offering", !.next = @ + 1, !.sub = None,
                                      !.due = IF consumer.at = "sending" THEN @ \ {consumer.sub} ELSE @]

Consider ==
    /\ consumer.at = "offering"
    /\ LET s == Cell(consumer.symbol, consumer.slice, consumer.next)
       IN  \E type \in Reads(consumer.update, "type") :
              IF subs[s].active /\ type \in Requests[s].types
              THEN consumer' = [consumer EXCEPT !.at = "sending", !.sub = s] ELSE NextSubscriber
    /\ UNCHANGED <<dataVars, cleaner, stop, dpVars, subVars, updates, feed, panicked>>

\* (faulty variant: the send waits for room in the channel)
SendWaits ==
    /\ consumer.at = "sending" /\ subs[consumer.sub].queued < Requests[consumer.sub].buffer
    /\ subs' = [subs EXCEPT ![consumer.sub].queued = @ + 1]
    /\ NextSubscriber
    /\ UNCHANGED <<dataVars, cleaner, stop, dpVars, byID, listed, arrays, calls, contended, updates, feed, panicked>>

\* a copy; in a full channel's stead an error, and a warning if that has no room
Send ==
    /\ consumer.at = "sending"
    /\ LET s == consumer.sub
       IN  IF subs[s].open
           THEN /\ subs' = [subs EXCEPT ![s].queued = IF @ < Requests[s].buffer THEN @ + 1 ELSE @]
                /\ NextSubscriber
                /\ UNCHANGED panicked
           ELSE Panic /\ UNCHANGED <<consumer, subs>>
    /\ UNCHANGED <<dataVars, cleaner, stop, dpVars, byID, listed, arrays, calls, contended, updates, feed>>

-----------------------------------------------------------------------------
(* Subscribe and Unsubscribe, of both: those of the MarketDataProcessor hold *)
(* the mutex from their first step to their last.                           *)

Subscription(id) == [id |-> id, active |-> TRUE, open |-> TRUE, queued |-> 0]

Call(op, locked, at, s, id) ==
    [Idle EXCEPT !.op = op, !.locked = locked, !.at = at, !.sub = s, !.id = id, !.left = Requests[s].symbols]

\* the next symbol; SubscriptionsByID is written first with the mutex, last without it
Turn(call) ==
    IF call.left # <<>> THEN [call EXCEPT !.at = IF call.op = "subscribe" THEN "checking" ELSE "reading"]
    ELSE IF call.op = "subscribe" /\ ~call.locked THEN [call EXCEPT !.at = "registering"]
    ELSE Idle

\* an id may come back: its characters are the clock at six moments
Subscribe(c, s, id) ==
    /\ calls[c] = Idle /\ MutexFree /\ s \notin DOMAIN subs
    /\ subs' = Put(subs, s, Subscription(id))
    /\ calls' = [calls EXCEPT ![c] = Call("subscribe", TRUE, "registering", s, id)]
    /\ UNCHANGED <<dataVars, procVars, dpVars, byID, listed, arrays, contended, updates, feed, panicked>>

\* once every provider agreed; its ids are uuids
SubscribeUnlocked(c, s) ==
    /\ calls[c] = Idle /\ s \notin DOMAIN subs
    /\ Requests[s].symbols # <<>> /\ Requests[s].types # {}
    /\ subs' = Put(subs, s, Subscription(s))
    /\ calls' = [calls EXCEPT ![c] = Turn(Call("subscribe", FALSE, "checking", s, s))]
    /\ UNCHANGED <<dataVars, procVars, dpVars, byID, listed, arrays, contended, updates, feed, panicked>>

\* an id that is not there is an error, which changes nothing
Unsubscribe(c, id, locked) ==
    /\ calls[c] = Idle /\ id \in DOMAIN byID /\ (locked => MutexFree)
    /\ calls' = [calls EXCEPT ![c] = Call("unsubscribe", locked, "closing", byID[id], id)]
    /\ UNCHANGED <<dataVars, procVars, dpVars, subs, byID, listed, arrays, contended, updates, feed, panicked>>

Register(c) ==
    /\ calls[c].at = "registering"
    /\ byID' = Put(byID, calls[c].id, calls[c].sub)
    /\ calls' = [calls EXCEPT ![c] = IF @.locked THEN Turn(@) ELSE Idle]
    /\ UNCHANGED <<dataVars, procVars, dpVars, subs, listed, arrays, contended, updates, feed, panicked>>

\* Active is cleared and both channels closed, the second time in a panic (what a
\* closed channel still holds is not kept)
Close(c) ==
    /\ calls[c].at = "closing"
    /\ LET s == calls[c].sub
       IN  IF subs[s].open
           THEN /\ subs' = [subs EXCEPT ![s] = [@ EXCEPT !.active = FALSE, !.open = FALSE, !.queued = 0]]
                /\ calls' = [calls EXCEPT ![c].at = "deleting"]
                /\ UNCHANGED panicked
           ELSE Panic /\ UNCHANGED <<subs, calls>>
    /\ UNCHANGED <<dataVars, procVars, dpVars, byID, listed, arrays, contended, updates, feed>>

Delete(c) ==
    /\ calls[c].at = "deleting"
    /\ byID' = [id \in DOMAIN byID \ {calls[c].id} |-> byID[id]]
    /\ calls' = [calls EXCEPT ![c] = Turn(@)]
    /\ UNCHANGED <<dataVars, procVars, dpVars, subs, listed, arrays, contended, updates, feed, panicked>>

-----------------------------------------------------------------------------
(* The list of one symbol.  A call has it in hand from its read, or from     *)
(* finding none, until it is written back.                                   *)

Symbol(c) == Head(calls[c].left)
InHand(c, symbol) ==
    calls[c].at \in {"emptying", "appending", "searching", "removing", "writing"} /\ Symbol(c) = symbol

Takes(c, call) ==
    /\ calls' = [calls EXCEPT ![c] = call]
    /\ contended' = contended \cup {symbol \in {Symbol(c)} : \E d \in Callers \ {c} : InHand(d, symbol)}

Check(c) ==
    /\ calls[c].at = "checking"
    /\ IF Symbol(c) \in DOMAIN listed
       THEN calls' = [calls EXCEPT ![c].at = "reading"] /\ UNCHANGED contended
       ELSE Takes(c, [calls[c] EXCEPT !.at = "emptying"])
    /\ UNCHANGED <<dataVars, procVars, dpVars, subs, byID, listed, arrays, updates, feed, panicked>>

MakeEmpty(c) ==
    /\ calls[c].at = "emptying"
    /\ listed' = Put(listed, Symbol(c), Empty)
    /\ calls' = [calls EXCEPT ![c].at = "reading"]
    /\ UNCHANGED <<dataVars, procVars, dpVars, subs, byID, arrays, contended, updates, feed, panicked>>

ReadList(c) ==
    /\ calls[c].at = "reading"
    /\ Takes(c, [calls[c] EXCEPT
            !.at = IF calls[c].op = "subscribe" THEN "appending" ELSE "searching",
            !.slice = IF Symbol(c) \in DOMAIN listed THEN listed[Symbol(c)] ELSE Empty])
    /\ UNCHANGED <<dataVars, procVars, dpVars, subs, byID, listed, arrays, updates, feed, panicked>>

\* append: past the end of the slice if its array has room, else in a copy of
\* twice the size
AppendTo(c) ==
    /\ calls[c].at = "appending"
    /\ LET slice == calls[c].slice
           n == slice.len + 1
           room == slice.array # 0 /\ slice.len < Len(arrays[Symbol(c)][slice.array])
           larger == [i \in 1 .. IF slice.len = 0 THEN 1 ELSE 2 * slice.len |->
                         IF i < n THEN Cell(Symbol(c), slice, i) ELSE IF i = n THEN calls[c].sub ELSE None]
       IN  /\ arrays' = IF room THEN [arrays EXCEPT ![Symbol(c)][slice.array][n] = calls[c].sub]
                        ELSE [arrays EXCEPT ![Symbol(c)] = Append(@, larger)]
           /\ calls' = [calls EXCEPT ![c].at = "writing",
                ![c].slice = [array |-> IF room THEN slice.array ELSE Len(arrays[Symbol(c)]) + 1, len |-> n]]
    /\ UNCHANGED <<dataVars, procVars, dpVars, subs, byID, listed, contended, updates, feed, panicked>>

Through(call) == Turn([call EXCEPT !.left = Tail(@), !.slice = Empty, !.found = 0])

\* the first in the list that has the id
Search(c) ==
    /\ calls[c].at = "searching"
    /\ LET call == calls[c]
           has == {i \in 1 .. call.slice.len : subs[Cell(Symbol(c), call.slice, i)].id = call.id}
       IN  calls' = [calls EXCEPT ![c] = IF has = {} THEN Through(@)
                                         ELSE [@ EXCEPT !.at = "removing", !.found = Min(has)]]
    /\ UNCHANGED <<dataVars, procVars, dpVars, subs, byID, listed, arrays, contended, updates, feed, panicked>>

\* (faulty variant: the slice is cut without moving its last element)
Cut(c) ==
    /\ calls[c].at = "removing"
    /\ calls' = [calls EXCEPT ![c].at = "writing", ![c].slice.len = @ - 1]
    /\ UNCHANGED <<dataVars, procVars, dpVars, subs, byID, listed, arrays, contended, updates, feed, panicked>>

\* With the mutex the last one takes its place.  Without it the later ones move up,
\* in the array that a distribution may be reading.
TakeOut(c) ==
    /\ calls[c].at = "removing"
    /\ LET call == calls[c]
           slice == call.slice
           shifted == [i \in DOMAIN arrays[Symbol(c)][slice.array] |->
                          Cell(Symbol(c), slice, IF i \in call.found .. slice.len - 1 THEN i + 1 ELSE i)]
       IN  /\ arrays' = [arrays EXCEPT ![Symbol(c)][slice.array] =
                            IF call.locked THEN [@ EXCEPT ![call.found] = Cell(Symbol(c), slice, slice.len)] ELSE shifted]
           /\ calls' = [calls EXCEPT ![c].at = "writing", ![c].slice.len = @ - 1]
           /\ consumer' = [consumer EXCEPT !.raced =
                @ \/ (Distributing /\ consumer.symbol = Symbol(c) /\ consumer.slice.array = slice.array)]
    /\ UNCHANGED <<dataVars, cleaner, stop, dpVars, subs, byID, listed, contended, updates, feed, panicked>>

WriteBack(c) ==
    /\ calls[c].at = "writing"
    /\ listed' = Put(listed, Symbol(c), calls[c].slice)
    /\ calls' = [calls EXCEPT ![c] = Through(@)]
    /\ UNCHANGED <<dataVars, procVars, dpVars, subs, byID, arrays, contended, updates, feed, panicked>>

\* a subscriber reads its channel
Take(s) ==
    /\ s \in DOMAIN subs /\ subs[s].queued > 0
    /\ subs' = [subs EXCEPT ![s].queued = @ - 1]
    /\ UNCHANGED <<dataVars, procVars, dpVars, byID, listed, arrays, calls, contended, updates, feed, panicked>>

-----------------------------------------------------------------------------
(* The DataProcessor, without it.                                           *)

StopDataProcessor ==
    /\ dataProc.stop = "no"
    /\ dataProc' = [dataProc EXCEPT !.stop = "waiting"]
    /\ UNCHANGED <<dataVars, procVars, books, subVars, updates, feed, panicked>>

\* processData ends, and Stop, which waits for nothing else, returns
DataProcessorEnds ==
    /\ dataProc.at = "waiting" /\ dataProc.stop = "waiting"
    /\ dataProc' = [dataProc EXCEPT !.at = "off", !.stop = "returned"]
    /\ UNCHANGED <<dataVars, procVars, books, subVars, updates, feed, panicked>>

TakeFromFeed ==
    /\ dataProc.at = "waiting" /\ feed # <<>>
    /\ dataProc' = [dataProc EXCEPT !.at = "booking", !.update = Head(feed)]
    /\ feed' = Tail(feed)
    /\ UNCHANGED <<dataVars, procVars, books, subVars, updates, panicked>>

UpdateBook(data) == books' = IF data.type \in BookTypes THEN books \cup {data.symbol} ELSE books

Book ==
    /\ dataProc.at = "booking"
    /\ UpdateBook(Data(dataProc.update))
    /\ dataProc' = [dataProc EXCEPT !.at = "recycling"]
    /\ updates' = [updates EXCEPT ![dataProc.update].phase = "resetting"]
    /\ consumer' = [consumer EXCEPT !.raced = @ \/ consumer.update = dataProc.update]
    /\ UNCHANGED <<dataVars, cleaner, stop, subVars, feed, panicked>>

\* Put: the fields are reset one by one; nobody ever takes from the pool
Recycle ==
    /\ dataProc.at = "recycling"
    /\ updates' = [updates EXCEPT ![dataProc.update] = [data |-> BlankData, phase |-> "blank"]]
    /\ dataProc' = [dataProc EXCEPT !.at = "waiting", !.update = None]
    /\ UNCHANGED <<dataVars, procVars, books, subVars, feed, panicked>>

-----------------------------------------------------------------------------
ConsumerStep == Wait \/ PollFails \/ PollPanics \/ Receive \/ Look \/ Consider \/ Send
DataProcessorStep == TakeFromFeed \/ Book \/ Recycle
CallStep(c) ==
    \/ Register(c) \/ Close(c) \/ Delete(c)
    \/ Check(c) \/ MakeEmpty(c) \/ ReadList(c) \/ AppendTo(c)
    \/ Search(c) \/ TakeOut(c) \/ WriteBack(c)

Next ==
    /\ ~panicked
    /\ \/ Stop \/ StopReturns \/ CleanUp \/ CancelStart
       \/ ConsumerStep
       \/ \E s \in Subs : Take(s)
       \/ \E c \in Callers :
             \/ \E s \in Subs : SubscribeUnlocked(c, s) \/ \E id \in Ids : Subscribe(c, s, id)
             \/ \E id \in Ids \cup Subs, locked \in BOOLEAN : Unsubscribe(c, id, locked)
             \/ CallStep(c)
       \/ StopDataProcessor \/ DataProcessorEnds
       \/ DataProcessorStep

Spec == Init /\ [][Next]_vars

\* Goroutines run, a reader that waits for the mutex has it before the next
\* writer, and a select that finds two cases ready again and again takes each of
\* them some time: it chooses at random.
Fairness ==
    /\ WF_vars(~panicked /\ ConsumerStep)
    /\ SF_vars(~panicked /\ Look)
    /\ \A c \in Callers : WF_vars(~panicked /\ CallStep(c))
    /\ WF_vars(~panicked /\ StopReturns)
    /\ WF_vars(~panicked /\ CleanUp /\ stale # {})
    /\ WF_vars(~panicked /\ DataProcessorStep)
    /\ SF_vars(~panicked /\ DataProcessorEnds)

FairSpec == Spec /\ Fairness

-----------------------------------------------------------------------------
\* another subscription with its id was canceled, and took its place in the lists
Mistaken(s) == \E t \in DOMAIN subs : subs[t].id = subs[s].id /\ ~subs[t].active

\* When the distribution of an update is over, every subscription whose Subscribe
\* had returned before it, and which asked for its symbol and type, has a copy, or
\* word that there was no room for one; that DataProcessor.Subscribe appends to the
\* list meanwhile, in the same array, changes nothing.  It is not so, and the
\* formula says where: if two calls ever had the symbol's list in hand at once, for
\* which one has to be without the mutex (one writes back what the other changed);
\* if the DataProcessor blanked the update, or moved the list's elements, during the
\* distribution; and for a subscription whose id was given to another one
\* (processor.go:225-334, data.go:96-179).
ServedOrTold == [][
    consumer.update # None /\ consumer'.update = None =>
        \/ consumer.raced \/ Data(consumer.update).symbol \in contended
        \/ \A s \in consumer.due :
              \/ consumer.at = "sending" /\ s = consumer.sub
              \/ ~subs[s].active \/ Mistaken(s)]_vars

\* Stop comes back once the context of Start is canceled too, and that of the
\* DataProcessor by itself, whatever subscribers leave unread and however full
\* the feed is (processor.go:156-161, 242-266, 337-349, data.go:75-93).
StopsEnd ==
    /\ (stop = "waiting" /\ cleaner = "off") ~> (stop = "returned" \/ panicked)
    /\ (dataProc.stop = "waiting") ~> (dataProc.stop = "returned" \/ panicked)
=============================================================================
