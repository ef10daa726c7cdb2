---------------------------- MODULE MatchingEngine ----------------------------
(***************************************************************************)
(* The limit order book of one symbol: MatchingEngine                      *)
(* (internal/orderbook/engine.go) and its price levels                     *)
(* (internal/orderbook/tree.go).                                           *)
(*                                                                         *)
(* Every public operation runs under me.mutex.  A call that holds the      *)
(* mutex is the record `call`; AddOrder is split into one step per resting *)
(* order it trades with, and every non-blocking event send is a step of    *)
(* its own, because the consumer of the event channel runs concurrently.   *)
(* ModifyOrder gives the mutex up between its look-up, its cancel and its  *)
(* add, so it is a small process per caller (`modify`).                    *)
(*                                                                         *)
(* Pointers.  An *Order is a member of Orders.  A *PriceLevel is named by  *)
(* the order whose arrival created it, so a level that was deleted from    *)
(* its tree and a later level at the same price are different objects.     *)
(* The red-black trees are the sets of levels they hold; RedBlackTree.tla  *)
(* is where the tree itself is modelled.                                   *)
(***************************************************************************)
EXTENDS Integers, Sequences, FiniteSets

CONSTANTS
    Orders,        \* the *Order objects a run can create
    Prices,        \* the limit prices clients use
    Quantities,    \* the quantities clients ask for
    Callers,       \* the goroutines that call ModifyOrder
    EventCapacity, \* cap(me.eventChannel), 1000 in the code
    Environment,   \* what the callers may do, see Behaviours
    None           \* Go's nil

(***************************************************************************)
(* What a run lets the callers do beyond the ordinary:                     *)
(*   "cancelFilled"  cancel (or modify) an order that is already filled    *)
(*   "reuseID"       place an order under an OrderID that was used before  *)
(*   "close"         call Close while orders are still coming in           *)
(***************************************************************************)
Behaviours == {"cancelFilled", "reuseID", "close"}

ASSUME OrdersAssumption == None \notin Orders
ASSUME PricesAssumption == Prices # {} /\ Prices \subseteq Nat \ {0} /\ IsFiniteSet(Prices)
ASSUME QuantitiesAssumption == Quantities # {} /\ Quantities \subseteq Nat \ {0}
ASSUME CallersAssumption == None \notin Callers
ASSUME CapacityAssumption == EventCapacity \in Nat
ASSUME EnvironmentAssumption == Environment \subseteq Behaviours

VARIABLES
    order,         \* the Order objects
    tree,          \* bidTree and askTree: the levels each one holds
    queue,         \* PriceLevel.Orders, oldest first
    volume,        \* PriceLevel.Volume
    orderIndex,    \* OrderID -> *OrderEntry (the Order of the entry)
    level,         \* OrderEntry.PriceLevel
    call,          \* the call that holds me.mutex
    modify,        \* the ModifyOrder calls, by caller
    eventChannel,  \* the buffered events
    closed,        \* eventChannel is closed
    asked,         \* history: the quantity an order was placed with
    traded         \* history: the quantity the engine has executed for it

book == <<tree, queue, volume, orderIndex, level>>
vars == <<order, book, call, modify, eventChannel, closed, asked, traded>>

-----------------------------------------------------------------------------
Sides == {"Buy", "Sell"}
Types == {"Market", "Limit"}
Statuses == {"Unborn", "New", "PartiallyFilled", "Filled", "Canceled"}
EventTypes == {"OrderAdded", "OrderCanceled", "OrderMatched", "OrderModified"}

Order == [id : Orders, side : Sides, type : Types, price : Prices,
          quantity : Nat, status : Statuses]

\* The order the code would have before anybody placed it.
Blank == [id |-> None, side |-> "Buy", type |-> "Market",
          price |-> CHOOSE p \in Prices : TRUE, quantity |-> 0, status |-> "Unborn"]

Idle == [pc |-> "idle", order |-> None, remaining |-> 0, pending |-> <<>>, caller |-> None]
NoModify == [pc |-> "idle", id |-> None, original |-> None,
             price |-> 0, quantity |-> 0, new |-> None]

Opposite(s) == IF s = "Buy" THEN "Sell" ELSE "Buy"
Born(o) == order[o].status # "Unborn"
PriceOf(l) == order[l].price
\* (faulty variant: Smaller as the larger)
TakesAll(a, b) == a
Smaller(a, b) == IF a <= b THEN a ELSE b

-----------------------------------------------------------------------------
(* The trees: Search, GetBest, Insert and Delete, all of them by price.     *)

Search(s, p) == {l \in tree[s] : PriceOf(l) = p}

\* bids compare highest first, asks lowest first
NoWorse(s, p, q) == IF s = "Buy" THEN p >= q ELSE p <= q

\* the level GetBest returns: a set with one member, or {} for nil
GetBest(s) == {l \in tree[s] : \A k \in tree[s] : NoWorse(s, PriceOf(l), PriceOf(k))}

\* (faulty variant: Delete that leaves the node)
KeepsNode(s, p) == tree

\* Delete looks the node up by its price, not by the level it holds
Delete(s, p) == [tree EXCEPT ![s] = @ \ Search(s, p)]

-----------------------------------------------------------------------------
(* The price levels.                                                        *)

IsEmpty(l) == queue[l] = <<>>

\* (faulty variant: Without that removes nothing)
StaysInList(q, o) == q

\* list.Remove: an element that was removed before is left alone
Without(q, o) ==
    IF \E i \in DOMAIN q : q[i] = o
    THEN LET i == CHOOSE j \in DOMAIN q : q[j] = o
         IN  SubSeq(q, 1, i - 1) \o SubSeq(q, i + 1, Len(q))
    ELSE q

-----------------------------------------------------------------------------
(* The mutex and the events.                                                *)

MutexFree == call.pc = "idle"

\* (faulty variant: Send beyond the buffer)
UnboundedSend(e) == eventChannel' = Append(eventChannel, e)

\* sendEvent outside any call: a full channel drops the event
Send(e) == IF Len(eventChannel) < EventCapacity
           THEN eventChannel' = Append(eventChannel, e)
           ELSE UNCHANGED eventChannel

\* The lock holder sends its next event; with the last one it returns.
SendEvent ==
    /\ call.pc = "emit"
    /\ ~closed
    /\ Send([type |-> Head(call.pending), order |-> call.order])
    /\ call' = IF Len(call.pending) = 1 THEN Idle
               ELSE [call EXCEPT !.pending = Tail(@)]
    /\ UNCHANGED <<order, book, modify, closed, asked, traded>>

\* A send on a closed channel panics.  The deferred Unlock frees the mutex,
\* the call is abandoned and so is the ModifyOrder it was part of.
SendPanics ==
    /\ call.pc = "emit"
    /\ closed
    /\ call' = Idle
    /\ modify' = IF call.caller = None THEN modify
                 ELSE [modify EXCEPT ![call.caller] = NoModify]
    /\ UNCHANGED <<order, book, eventChannel, closed, asked, traded>>

\* The reader of GetEventChannel().
Receive ==
    /\ eventChannel # <<>>
    /\ eventChannel' = Tail(eventChannel)
    /\ UNCHANGED <<order, book, call, modify, closed, asked, traded>>

\* Close takes no lock.
Close ==
    /\ "close" \in Environment
    /\ ~closed
    /\ closed' = TRUE
    /\ UNCHANGED <<order, book, call, modify, eventChannel, asked, traded>>

-----------------------------------------------------------------------------
(* AddOrder.                                                                *)

\* AddOrder takes the mutex and starts to match.  An order for another
\* symbol, and one of an unsupported type, is returned with an error and
\* leaves the engine as it was.
BeginAdd(o, id, side, type, price, q, c) ==
    /\ MutexFree
    /\ ~Born(o)
    /\ order' = [order EXCEPT ![o] = [id |-> id, side |-> side, type |-> type,
                                      price |-> price, quantity |-> q, status |-> "New"]]
    /\ call' = [pc |-> "match", order |-> o, remaining |-> q,
                pending |-> <<"OrderAdded">>, caller |-> c]
    /\ asked' = [asked EXCEPT ![o] = q]
    /\ UNCHANGED <<book, eventChannel, closed, traded>>

\* the OrderIDs a client may put into a request: a generated one, which is
\* named after the order itself, or one that was used before
RequestIDs(o) == {o} \cup IF "reuseID" \in Environment
                          THEN {order[x].id : x \in {y \in Orders : Born(y)}}
                          ELSE {}

\* a market order carries no price of its own
RequestPrices(type) == IF type = "Market" THEN {Blank.price} ELSE Prices

AddOrder ==
    \E o \in Orders, side \in Sides, type \in Types, q \in Quantities :
        \E id \in RequestIDs(o), price \in RequestPrices(type) :
            /\ BeginAdd(o, id, side, type, price, q, None)
            /\ UNCHANGED modify

\* (faulty variant: Crosses that wants a strictly better price)
CrossesAbove(o, l) ==
    \/ order[o].type = "Market"
    \/ NoWorse(order[o].side, order[o].price, PriceOf(l)) /\ order[o].price # PriceOf(l)
\* (faulty variant: Crosses at any price)
CrossesAlways(o, l) == TRUE

Crosses(o, l) ==
    \/ order[o].type = "Market"
    \/ NoWorse(order[o].side, order[o].price, PriceOf(l))

\* the best opposite level, if the incoming order may trade with it
Matchable ==
    {l \in GetBest(Opposite(order[call.order].side)) :
        call.remaining > 0 /\ ~IsEmpty(l) /\ Crosses(call.order, l)}

\* the order gets another quantity and another status
Amended(o, quantity, status) ==
    [order EXCEPT ![o] = [@ EXCEPT !.quantity = quantity, !.status = status]]

\* One round of MatchQuantity's loop, on the order at the front of level l;
\* the level is deleted when its last order goes.
MatchQuantity(l) ==
    LET o     == call.order
        maker == Head(queue[l])
        full  == order[maker].quantity <= call.remaining
        fill  == Smaller(order[maker].quantity, call.remaining)
    IN  /\ order' = IF full THEN Amended(maker, order[maker].quantity, "Filled")
                    ELSE Amended(maker, order[maker].quantity - fill, "PartiallyFilled")
        /\ queue' = IF full THEN [queue EXCEPT ![l] = Tail(@)] ELSE queue
        /\ volume' = [volume EXCEPT ![l] = @ - fill]
        /\ tree' = IF queue'[l] = <<>> THEN Delete(Opposite(order[o].side), PriceOf(l))
                   ELSE tree
        /\ call' = [call EXCEPT !.remaining = @ - fill,
                                !.pending = Append(@, "OrderMatched")]
        /\ traded' = [x \in Orders |-> IF x \in {o, maker} THEN traded[x] + fill
                                       ELSE traded[x]]
        /\ UNCHANGED <<orderIndex, level, modify, eventChannel, closed, asked>>

Match == call.pc = "match" /\ \E l \in Matchable : MatchQuantity(l)

\* The end of processMarketOrder: what was not filled is not booked.
FinishMarket ==
    LET o == call.order
    IN  /\ call.pc = "match"
        /\ Matchable = {}
        /\ order[o].type = "Market"
        /\ order' = Amended(o, call.remaining,
                            IF call.remaining = 0 THEN "Filled"
                            ELSE IF call.remaining < order[o].quantity
                            THEN "PartiallyFilled" ELSE order[o].status)
        /\ call' = [call EXCEPT !.pc = "emit"]
        /\ UNCHANGED <<book, modify, eventChannel, closed, asked, traded>>

\* The status processLimitOrder gives at its end; `quantity` is
\* order.Quantity, which was overwritten before with what is left.
LimitStatus(remaining, quantity) ==
    IF remaining = 0 THEN "Filled"
    ELSE IF remaining < quantity THEN "PartiallyFilled" ELSE "New"

FinishFilledLimit ==
    LET o == call.order
    IN  /\ call.pc = "match"
        /\ order[o].type = "Limit"
        /\ call.remaining = 0
        /\ order' = [order EXCEPT ![o].status = LimitStatus(0, order[o].quantity)]
        /\ call' = [call EXCEPT !.pc = "emit"]
        /\ UNCHANGED <<book, modify, eventChannel, closed, asked, traded>>

\* (faulty variant: AddToBook at the front)
AddsFirst(o, l, q) ==
    /\ tree' = [tree EXCEPT ![order[o].side] = @ \cup {l}]
    /\ queue' = [queue EXCEPT ![l] = <<o>> \o @]
    /\ volume' = [volume EXCEPT ![l] = @ + q]
    /\ level' = [level EXCEPT ![o] = l]
    /\ orderIndex' = [orderIndex EXCEPT ![order[o].id] = o]
\* (faulty variant: AddToBook with the quantity asked for)
AddsOriginalQuantity(o, l, q) ==
    /\ tree' = [tree EXCEPT ![order[o].side] = @ \cup {l}]
    /\ queue' = [queue EXCEPT ![l] = Append(@, o)]
    /\ volume' = [volume EXCEPT ![l] = @ + order[o].quantity]
    /\ level' = [level EXCEPT ![o] = l]
    /\ orderIndex' = [orderIndex EXCEPT ![order[o].id] = o]

\* addToBook: the level at the order's price, or a new one, gets the order
\* at its end, and the index gets its entry.
AddToBook(o, l, q) ==
    /\ tree' = [tree EXCEPT ![order[o].side] = @ \cup {l}]
    /\ queue' = [queue EXCEPT ![l] = Append(@, o)]
    /\ volume' = [volume EXCEPT ![l] = @ + q]
    /\ level' = [level EXCEPT ![o] = l]
    /\ orderIndex' = [orderIndex EXCEPT ![order[o].id] = o]

\* tree.Insert: the level that is there, or one this order creates
Insert(o) == IF Search(order[o].side, order[o].price) = {} THEN {o}
             ELSE Search(order[o].side, order[o].price)

FinishRestingLimit ==
    LET o == call.order
        q == call.remaining
    IN  /\ call.pc = "match"
        /\ Matchable = {}
        /\ order[o].type = "Limit"
        /\ q > 0
        /\ \E l \in Insert(o) : AddToBook(o, l, q)
        /\ order' = Amended(o, q, LimitStatus(q, q))
        /\ call' = [call EXCEPT !.pc = "emit"]
        /\ UNCHANGED <<modify, eventChannel, closed, asked, traded>>

-----------------------------------------------------------------------------
(* CancelOrder.                                                             *)

\* the cancels the run considers
MayCancel(o) == order[o].status = "Filled" => "cancelFilled" \in Environment

BeginCancel(id, c) ==
    LET o == orderIndex[id]
        l == level[o]
    IN  /\ MutexFree
        /\ o # None
        /\ MayCancel(o)
        /\ queue' = [queue EXCEPT ![l] = Without(@, o)]
        /\ volume' = [volume EXCEPT ![l] = @ - order[o].quantity]
        /\ order' = [order EXCEPT ![o].status = "Canceled"]
        /\ orderIndex' = [orderIndex EXCEPT ![id] = None]
        /\ tree' = IF queue'[l] = <<>> THEN Delete(order[o].side, PriceOf(l)) ELSE tree
        /\ call' = [pc |-> "emit", order |-> o, remaining |-> 0,
                    pending |-> <<"OrderCanceled">>, caller |-> c]
        /\ UNCHANGED <<level, eventChannel, closed, asked, traded>>

CancelOrder == \E id \in Orders : BeginCancel(id, None) /\ UNCHANGED modify

-----------------------------------------------------------------------------
(* ModifyOrder: look-up, cancel and add are three critical sections, and    *)
(* the last event is sent under no lock at all.                             *)

ModifyLookup(c) ==
    /\ MutexFree
    /\ modify[c].pc = "idle"
    /\ \E id \in Orders, p \in Prices, q \in Quantities :
        /\ orderIndex[id] # None
        /\ modify' = [modify EXCEPT ![c] = [pc |-> "cancel", id |-> id,
                          original |-> orderIndex[id], price |-> p,
                          quantity |-> q, new |-> None]]
    /\ UNCHANGED <<order, book, call, eventChannel, closed, asked, traded>>

\* (faulty variant: ModifyCancel that leaves the order in the book)
ModifySkipsCancel(c) ==
    /\ modify[c].pc = "cancel"
    /\ modify' = [modify EXCEPT ![c].pc = "add"]
    /\ UNCHANGED <<order, book, call, eventChannel, closed, asked, traded>>

ModifyCancel(c) ==
    /\ modify[c].pc = "cancel"
    /\ BeginCancel(modify[c].id, c)
    /\ modify' = [modify EXCEPT ![c].pc = "add"]

\* (faulty variant: ModifyNotFound that never returns)
NeverNotFound(c) == FALSE /\ UNCHANGED vars

\* another call removed the order first: ModifyOrder returns the error
ModifyNotFound(c) ==
    /\ MutexFree
    /\ modify[c].pc = "cancel"
    /\ orderIndex[modify[c].id] = None
    /\ modify' = [modify EXCEPT ![c] = NoModify]
    /\ UNCHANGED <<order, book, call, eventChannel, closed, asked, traded>>

\* the replacement takes side and type from the original and a new OrderID
ModifyAdd(c) ==
    LET m == modify[c]
    IN  /\ m.pc = "add"
        /\ \E o \in Orders :
            /\ BeginAdd(o, o, order[m.original].side, order[m.original].type,
                        m.price, m.quantity, c)
            /\ modify' = [modify EXCEPT ![c] = [@ EXCEPT !.pc = "event", !.new = o]]

ModifyEvent(c) ==
    /\ modify[c].pc = "event"
    /\ call.caller # c
    /\ ~closed
    /\ Send([type |-> "OrderModified", order |-> modify[c].new])
    /\ modify' = [modify EXCEPT ![c] = NoModify]
    /\ UNCHANGED <<order, book, call, closed, asked, traded>>

\* the channel was closed since: the send panics, the caller gets no answer
ModifyPanics(c) ==
    /\ modify[c].pc = "event"
    /\ call.caller # c
    /\ closed
    /\ modify' = [modify EXCEPT ![c] = NoModify]
    /\ UNCHANGED <<order, book, call, eventChannel, closed, asked, traded>>

-----------------------------------------------------------------------------
(* What the read operations return, whenever the mutex is free.             *)

\* GetOrder: the order filed under an OrderID
GetOrder(id) == orderIndex[id]

\* one row of GetSnapshot for each level GetLevels returns; empty levels are
\* left out
GetSnapshot(s) ==
    {[price |-> PriceOf(l), quantity |-> volume[l], orderCount |-> Len(queue[l])] :
        l \in {k \in tree[s] : ~IsEmpty(k)}}

-----------------------------------------------------------------------------
Init ==
    /\ order = [o \in Orders |-> Blank]
    /\ tree = [s \in Sides |-> {}]
    /\ queue = [l \in Orders |-> <<>>]
    /\ volume = [l \in Orders |-> 0]
    /\ orderIndex = [id \in Orders |-> None]
    /\ level = [o \in Orders |-> None]
    /\ call = Idle
    /\ modify = [c \in Callers |-> NoModify]
    /\ eventChannel = <<>>
    /\ closed = FALSE
    /\ asked = [o \in Orders |-> 0]
    /\ traded = [o \in Orders |-> 0]

\* the steps of a call that holds the mutex
Holder == Match \/ FinishMarket \/ FinishFilledLimit \/ FinishRestingLimit
          \/ SendEvent \/ SendPanics

ModifyOrder(c) == ModifyLookup(c) \/ ModifyCancel(c) \/ ModifyNotFound(c)
                  \/ ModifyAdd(c) \/ ModifyEvent(c) \/ ModifyPanics(c)

Next ==
    \/ AddOrder
    \/ CancelOrder
    \/ Holder
    \/ Receive
    \/ Close
    \/ \E c \in Callers : ModifyOrder(c)

Spec == Init /\ [][Next]_vars

\* A goroutine that holds the mutex runs on, and one that waits for it gets
\* it in the end: sync.Mutex hands over to a waiter that starves.
FairSpec ==
    /\ Spec
    /\ WF_vars(Holder)
    /\ \A c \in Callers : /\ SF_vars(ModifyCancel(c) \/ ModifyNotFound(c))
                          /\ SF_vars(ModifyAdd(c))
                          /\ WF_vars(ModifyEvent(c) \/ ModifyPanics(c))
=============================================================================
