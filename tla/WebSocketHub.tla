----------------------------- MODULE WebSocketHub -----------------------------
(***************************************************************************)
(* The WebSocket hub of internal/websocket/hub.go: its loop Run, the read  *)
(* and write pumps of every client, and BroadcastOrderBookEvent.           *)
(*                                                                         *)
(* Two mutexes are taken in two orders (hub.mu and the mutex of a client), *)
(* the map of clients is changed by goroutines that hold neither, and the  *)
(* send channel of a client is closed by whoever finds it full.  A send on *)
(* a closed channel, or closing it twice, panics in a goroutine nobody     *)
(* recovers: the program ends.                                             *)
(*                                                                         *)
(* Messages are counted, their contents left out.  hub.broadcast has no    *)
(* sender anywhere and is left out.                                        *)
(***************************************************************************)
EXTENDS Integers, FiniteSets

CONSTANTS
    Clients,      \* connections, each of which connects once
    Symbols,
    Books,        \* the symbols the processor has an order book of
    Publishers,   \* goroutines that call BroadcastOrderBookEvent
    BufferSize,   \* cap(client.send)
    None

ASSUME HubAssumption == /\ Books \subseteq Symbols
                        /\ BufferSize \in Nat \ {0}
                        /\ None \notin Clients \cup Symbols

VARIABLES
    clients,      \* hub.clients
    subscribers,  \* hub.subscriptions
    symbols,      \* client.subscriptions
    buffer,       \* the number of messages in client.send
    closed,       \* the clients whose send channel is closed
    run,          \* the loop of the hub
    reader,       \* readPump of a client, and HandleWebSocket before it
    writer,       \* writePump of a client
    publisher,    \* a call of BroadcastOrderBookEvent
    panicked,     \* a goroutine panicked: the program is gone
    dropped       \* history: the clients closed because their buffer was full

vars == <<clients, subscribers, symbols, buffer, closed, run, reader, writer, publisher,
          panicked, dropped>>
subscriptions == <<subscribers, symbols>>
channels == <<buffer, closed, panicked, dropped>>

Job == [sym : Symbols, kind : {"book", "depth"}, client : Clients]
NoJob == [pc |-> "select", client |-> None, left |-> {}, sym |-> None]

At(c, pc) == reader[c].pc = pc
Goto(c, pc) == reader' = [reader EXCEPT ![c].pc = pc]

\* hub.mu is held over several steps only by removeClientSubscriptions, the
\* mutex of a client only by its own request handlers
HubFree == run.pc # "remove"
ClientFree(c) == reader[c].pc \notin {"subscribe", "unsubscribe", "snapshot", "depth", "confirm"}

Init ==
    /\ clients = {}
    /\ subscribers = [s \in Symbols |-> {}]
    /\ symbols = [c \in Clients |-> {}]
    /\ buffer = [c \in Clients |-> 0]
    /\ closed = {}
    /\ run = NoJob
    /\ reader = [c \in Clients |-> [pc |-> "none", todo |-> {}, sym |-> None, dropping |-> FALSE]]
    /\ writer = [c \in Clients |-> "none"]
    /\ publisher = [p \in Publishers |-> [left |-> {}, dropping |-> None]]
    /\ panicked = FALSE
    /\ dropped = {}

-----------------------------------------------------------------------------
(* The three outcomes of a send to a client.                                *)

\* (faulty variant: Deliver into a full buffer)
DeliverAnyway(c) ==
    /\ c \notin closed /\ buffer[c] <= BufferSize
    /\ buffer' = [buffer EXCEPT ![c] = @ + 1]
    /\ UNCHANGED <<closed, panicked, dropped>>

Deliver(c) ==
    /\ c \notin closed /\ buffer[c] < BufferSize
    /\ buffer' = [buffer EXCEPT ![c] = @ + 1]
    /\ UNCHANGED <<closed, panicked, dropped>>

CloseSlow(c) ==
    /\ c \notin closed /\ buffer[c] = BufferSize
    /\ closed' = closed \cup {c}
    /\ dropped' = dropped \cup {c}
    /\ UNCHANGED <<buffer, panicked>>

SendOnClosed(c) ==
    /\ c \in closed
    /\ panicked' = TRUE
    /\ UNCHANGED <<buffer, closed, dropped>>

-----------------------------------------------------------------------------
(* Connections.                                                             *)

\* HandleWebSocket waits for the hub to take the registration
Connect(c) ==
    /\ ~panicked
    /\ At(c, "none")
    /\ Goto(c, "connect")
    /\ UNCHANGED <<clients, subscriptions, channels, run, writer, publisher>>

Register(c) ==
    /\ ~panicked
    /\ run.pc = "select"
    /\ At(c, "connect")
    /\ clients' = clients \cup {c}
    /\ Goto(c, "read")
    /\ writer' = [writer EXCEPT ![c] = "run"]
    /\ UNCHANGED <<subscriptions, channels, run, publisher>>

\* ReadMessage fails
Hangup(c) ==
    /\ ~panicked
    /\ At(c, "read")
    /\ Goto(c, "unregister")
    /\ UNCHANGED <<clients, subscriptions, channels, run, writer, publisher>>

\* the hub forgets the client, unless somebody already did, and closes its
\* channel; its subscriptions are removed next
Unregister(c) ==
    /\ ~panicked
    /\ run.pc = "select"
    /\ At(c, "unregister")
    /\ Goto(c, "done")
    /\ IF c \in clients
       THEN /\ clients' = clients \ {c}
            /\ closed' = closed \cup {c}
            /\ panicked' = (c \in closed)
            /\ run' = [run EXCEPT !.pc = "lock", !.client = c]
       ELSE UNCHANGED <<clients, closed, panicked, run>>
    /\ UNCHANGED <<buffer, dropped, subscriptions, writer, publisher>>

\* removeClientSubscriptions: hub.mu first ...
LockHub ==
    /\ ~panicked
    /\ run.pc = "lock"
    /\ run' = [run EXCEPT !.pc = "remove"]
    /\ UNCHANGED <<clients, subscriptions, channels, reader, writer, publisher>>

\* (faulty variant: RemoveSubscriptions that waits for its own lock)
LocksTwice ==
    /\ ~panicked
    /\ run.pc = "remove" /\ HubFree
    /\ run' = NoJob
    /\ UNCHANGED <<clients, subscriptions, channels, reader, writer, publisher>>

\* (faulty variant: RemoveSubscriptions that removes none)
KeepsSubscriptions ==
    /\ ~panicked
    /\ run.pc = "remove"
    /\ run' = NoJob
    /\ UNCHANGED <<clients, subscriptions, channels, reader, writer, publisher>>

\* ... and the client's mutex inside it
RemoveSubscriptions ==
    /\ ~panicked
    /\ run.pc = "remove"
    /\ ClientFree(run.client)
    /\ subscribers' = [s \in Symbols |-> IF s \in symbols[run.client]
                                         THEN subscribers[s] \ {run.client} ELSE subscribers[s]]
    /\ run' = NoJob
    /\ UNCHANGED <<clients, symbols, channels, reader, writer, publisher>>

-----------------------------------------------------------------------------
(* Requests of a client.                                                    *)

Request(c, pc, S) ==
    /\ ~panicked
    /\ At(c, "read")
    /\ reader' = [reader EXCEPT ![c] = [@ EXCEPT !.pc = pc, !.todo = S]]
    /\ UNCHANGED <<clients, subscriptions, channels, run, writer, publisher>>

Subscribe(c) == \E S \in SUBSET Symbols : Request(c, "subscribe", S)
Unsubscribe(c) == \E S \in SUBSET Symbols : Request(c, "unsubscribe", S)
\* a ping or something the hub does not understand
OtherRequest(c) == Request(c, "reply", {})

\* the client's mutex is held, hub.mu is taken inside it
SubscribeTo(c, s) ==
    /\ ~panicked
    /\ At(c, "subscribe") /\ s \in reader[c].todo
    /\ HubFree
    /\ symbols' = [symbols EXCEPT ![c] = @ \cup {s}]
    /\ subscribers' = [subscribers EXCEPT ![s] = @ \cup {c}]
    /\ reader' = [reader EXCEPT ![c] = [@ EXCEPT
                     !.pc = IF s \in Books THEN "snapshot" ELSE "subscribe",
                     !.todo = reader[c].todo \ {s}, !.sym = s]]
    /\ UNCHANGED <<clients, channels, run, writer, publisher>>

UnsubscribeFrom(c, s) ==
    /\ ~panicked
    /\ At(c, "unsubscribe") /\ s \in reader[c].todo
    /\ HubFree
    /\ symbols' = [symbols EXCEPT ![c] = @ \ {s}]
    /\ subscribers' = [subscribers EXCEPT ![s] = @ \ {c}]
    /\ reader' = [reader EXCEPT ![c].todo = @ \ {s}]
    /\ UNCHANGED <<clients, channels, run, writer, publisher>>

RequestDone(c) ==
    /\ ~panicked
    /\ At(c, "subscribe") \/ At(c, "unsubscribe")
    /\ reader[c].todo = {}
    /\ reader' = [reader EXCEPT ![c] = [@ EXCEPT !.pc = "confirm", !.sym = None]]
    /\ UNCHANGED <<clients, subscriptions, channels, run, writer, publisher>>

\* sendMessage, called in four places
Sending(c) == /\ ~panicked
              /\ reader[c].pc \in {"snapshot", "depth", "confirm", "reply"} /\ ~reader[c].dropping
After(pc) == CASE pc = "snapshot" -> "depth"
               [] pc = "depth" -> "subscribe"
               [] OTHER -> "read"

Send(c) ==
    /\ Sending(c)
    /\ Deliver(c)
    /\ Goto(c, After(reader[c].pc))
    /\ UNCHANGED <<clients, subscriptions, run, writer, publisher>>

\* (faulty variant: SendTimeout left out)
NeverTimesOut(c) == FALSE /\ UNCHANGED vars

\* after clientSendTimeout with a full buffer
SendTimeout(c) ==
    /\ Sending(c)
    /\ CloseSlow(c)
    /\ reader' = [reader EXCEPT ![c].dropping = TRUE]
    /\ UNCHANGED <<clients, subscriptions, run, writer, publisher>>

\* (faulty variant: Forget that keeps the client)
StaysRegistered(c) ==
    /\ ~panicked
    /\ reader[c].dropping
    /\ reader' = [reader EXCEPT ![c] = [@ EXCEPT !.pc = After(reader[c].pc), !.dropping = FALSE]]
    /\ UNCHANGED <<clients, subscriptions, channels, run, writer, publisher>>

\* the reader goes on reading from a client that it dropped
Forget(c) ==
    /\ ~panicked
    /\ reader[c].dropping
    /\ clients' = clients \ {c}
    /\ reader' = [reader EXCEPT ![c] = [@ EXCEPT !.pc = After(reader[c].pc), !.dropping = FALSE]]
    /\ UNCHANGED <<subscriptions, channels, run, writer, publisher>>

SendPanics(c) ==
    /\ Sending(c)
    /\ SendOnClosed(c)
    /\ UNCHANGED <<clients, subscriptions, run, reader, writer, publisher>>

-----------------------------------------------------------------------------
(* writePump.  It closes the connection when it ends.                       *)

\* a message and all that are queued behind it
Write(c) ==
    /\ ~panicked
    /\ writer[c] = "run"
    /\ buffer[c] > 0
    /\ buffer' = [buffer EXCEPT ![c] = 0]
    /\ UNCHANGED <<clients, subscriptions, closed, panicked, dropped, run, reader, writer,
                   publisher>>

\* a message, a ping, or neither could be written
WriteFails(c) ==
    /\ ~panicked
    /\ writer[c] = "run"
    /\ writer' = [writer EXCEPT ![c] = "stopped"]
    /\ \/ UNCHANGED buffer
       \/ buffer[c] > 0 /\ buffer' = [buffer EXCEPT ![c] = @ - 1]
    /\ UNCHANGED <<clients, subscriptions, closed, panicked, dropped, run, reader, publisher>>

WriterEnds(c) ==
    /\ ~panicked
    /\ writer[c] = "run"
    /\ c \in closed /\ buffer[c] = 0
    /\ writer' = [writer EXCEPT ![c] = "stopped"]
    /\ UNCHANGED <<clients, subscriptions, channels, run, reader, publisher>>

-----------------------------------------------------------------------------
(* broadcastMarketUpdates, on the ticker: symbol by symbol, the book to     *)
(* every subscriber of a copy and then the depth to every one of them.      *)

Tick ==
    /\ ~panicked
    /\ run.pc = "select"
    /\ run' = [run EXCEPT !.pc = "update",
                          !.left = {j \in Job : j.sym \in Books /\ j.client \in subscribers[j.sym]}]
    /\ UNCHANGED <<clients, subscriptions, channels, reader, writer, publisher>>

IsNext(j) ==
    /\ j \in run.left
    /\ (\E i \in run.left : i.sym = run.sym) => j.sym = run.sym
    /\ j.kind = "depth" => ~\E i \in run.left : i.sym = j.sym /\ i.kind = "book"

Update(j) ==
    /\ ~panicked
    /\ run.pc = "update"
    /\ IsNext(j)
    /\ run' = [run EXCEPT !.left = @ \ {j}, !.sym = j.sym]
    /\ \/ (Deliver(j.client) \/ SendOnClosed(j.client)) /\ UNCHANGED clients
       \/ CloseSlow(j.client) /\ clients' = clients \ {j.client}
    /\ UNCHANGED <<subscriptions, reader, writer, publisher>>

UpdateDone ==
    /\ ~panicked
    /\ run.pc = "update"
    /\ run.left = {}
    /\ run' = NoJob
    /\ UNCHANGED <<clients, subscriptions, channels, reader, writer, publisher>>

\* ctx is done
Stop ==
    /\ ~panicked
    /\ run.pc = "select"
    /\ run' = [run EXCEPT !.pc = "stopped"]
    /\ UNCHANGED <<clients, subscriptions, channels, reader, writer, publisher>>

-----------------------------------------------------------------------------
(* BroadcastOrderBookEvent, in the goroutine of its caller.                 *)

Publish(p, s) ==
    /\ ~panicked
    /\ publisher[p].left = {} /\ publisher[p].dropping = None
    /\ HubFree
    /\ publisher' = [publisher EXCEPT ![p].left = subscribers[s]]
    /\ UNCHANGED <<clients, subscriptions, channels, run, reader, writer>>

PublishTo(p, c) ==
    /\ ~panicked
    /\ c \in publisher[p].left /\ publisher[p].dropping = None
    /\ \/ /\ Deliver(c)
          /\ publisher' = [publisher EXCEPT ![p].left = @ \ {c}]
       \/ SendOnClosed(c) /\ UNCHANGED publisher
       \/ /\ CloseSlow(c)
          /\ publisher' = [publisher EXCEPT ![p] = [left |-> @.left \ {c}, dropping |-> c]]
    /\ UNCHANGED <<clients, subscriptions, run, reader, writer>>

PublisherForgets(p) ==
    /\ ~panicked
    /\ publisher[p].dropping # None
    /\ clients' = clients \ {publisher[p].dropping}
    /\ publisher' = [publisher EXCEPT ![p].dropping = None]
    /\ UNCHANGED <<subscriptions, channels, run, reader, writer>>

-----------------------------------------------------------------------------
HubStep == LockHub \/ RemoveSubscriptions \/ UpdateDone \/ \E j \in Job : Update(j)
Handle(c) ==
    \/ \E s \in Symbols : SubscribeTo(c, s) \/ UnsubscribeFrom(c, s)
    \/ RequestDone(c) \/ Send(c) \/ SendTimeout(c) \/ SendPanics(c) \/ Forget(c)

Next ==
    \/ HubStep \/ Tick \/ Stop
    \/ \E c \in Clients :
          \/ Connect(c) \/ Register(c) \/ Hangup(c) \/ Unregister(c)
          \/ Subscribe(c) \/ Unsubscribe(c) \/ OtherRequest(c) \/ Handle(c)
          \/ Write(c) \/ WriteFails(c) \/ WriterEnds(c)
    \/ \E p \in Publishers :
          \/ \E s \in Symbols : Publish(p, s)
          \/ \E c \in Clients : PublishTo(p, c)
          \/ PublisherForgets(p)

Spec == Init /\ [][Next]_vars

\* Goroutines run on.  A select with several cases ready takes each of them in
\* the end, since it chooses at random.  Reading from a closed connection
\* fails.  Peers need neither read nor send nor leave.
FairSpec ==
    /\ Spec
    /\ WF_vars(HubStep)
    /\ \A c \in Clients :
          /\ WF_vars(Handle(c))
          /\ WF_vars(WriterEnds(c))
          /\ SF_vars(Unregister(c))
          /\ SF_vars(writer[c] = "stopped" /\ Hangup(c))

-----------------------------------------------------------------------------
RunState == [pc : {"select", "lock", "remove", "update", "stopped"},
             client : Clients \cup {None}, left : SUBSET Job, sym : Symbols \cup {None}]
ReaderPoints == {"none", "connect", "read", "subscribe", "unsubscribe", "snapshot",
                 "depth", "confirm", "reply", "unregister", "done"}
ReaderState == [pc : ReaderPoints, todo : SUBSET Symbols, sym : Symbols \cup {None},
                dropping : BOOLEAN]
PublisherState == [left : SUBSET Clients, dropping : Clients \cup {None}]

TypeOK ==
    /\ clients \subseteq Clients /\ closed \subseteq Clients /\ dropped \subseteq Clients
    /\ subscribers \in [Symbols -> SUBSET Clients]
    /\ symbols \in [Clients -> SUBSET Symbols]
    /\ buffer \in [Clients -> 0 .. BufferSize]
    /\ run \in RunState
    /\ reader \in [Clients -> ReaderState]
    /\ writer \in [Clients -> {"none", "run", "stopped"}]
    /\ publisher \in [Publishers -> PublisherState]
    /\ panicked \in BOOLEAN

BeingRemoved(c) == run.client = c /\ run.pc \in {"lock", "remove"}
BeingDropped(c) == reader[c].dropping \/ \E p \in Publishers : publisher[p].dropping = c

\* The subscriptions of the hub and those of the clients agree whenever no
\* request of the client is in progress, and a client that left in peace is
\* subscribed to nothing (hub.go:241-312, 341-355).
SubscriptionsAgree ==
    \A c \in Clients : ClientFree(c) /\ ~panicked =>
        IF At(c, "done") /\ c \notin dropped /\ ~BeingRemoved(c)
        THEN \A s \in Symbols : c \notin subscribers[s]
        ELSE At(c, "done") \/ \A s \in Symbols : c \in subscribers[s] <=> s \in symbols[c]

\* The channel of a client in the map is open, but for the moment in which
\* somebody who closed it has yet to take the client out (hub.go:110-114, 325-329).
ClientsAreOpen ==
    \A c \in clients \cap closed : BeingDropped(c) \/ panicked

\* As long as no client was too slow, and BroadcastOrderBookEvent is not at
\* work, the hub does not panic (hub.go:93-125, 369-430).
PanicsOnlyAfterDrop == panicked => dropped # {} \/ \E p \in Publishers : publisher[p].left # {}

\* The loop comes back to its select: neither the two locks, taken in two
\* orders, nor a slow client stop it (hub.go:241-250, 341-345, 396-403).
HubReturns == run.pc \in {"lock", "remove", "update"} ~> run.pc = "select" \/ panicked

\* A request handler ends, whether or not anybody reads what it sends, and a
\* client whose connection was given up leaves the hub while the hub runs
\* (hub.go:152-155, 178-183, 315-330).
HandlersEnd ==
    \A c \in Clients :
        /\ ~ClientFree(c) ~> At(c, "read") \/ panicked
        /\ writer[c] = "stopped" ~> At(c, "done") \/ run.pc = "stopped" \/ panicked
=============================================================================
