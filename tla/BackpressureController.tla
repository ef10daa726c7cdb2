------------------------ MODULE BackpressureController ------------------------
(***************************************************************************)
(* The backpressure controller of pkg/utils/backpressure/controller.go:    *)
(* a bounded queue with a strategy for the messages that do not fit.       *)
(*                                                                         *)
(* There is no lock.  The queue is a Go channel, the load is an atomic     *)
(* counter beside it, and a call changes the two in separate steps; a      *)
(* call that found the queue full acts on that when it may be full no      *)
(* more.  Each select statement is one step and each update of the load    *)
(* another; the other counters are only ever read by Stats and change with *)
(* the select before them.  Close closes both channels in one step.        *)
(***************************************************************************)
EXTENDS Integers, Sequences, FiniteSets

CONSTANTS
    Producers, Consumers,  \* the goroutines that call Submit and Receive
    Messages,              \* what a run can submit, each message once
    Strategies,            \* the strategies a controller may be made with
    MaxQueueSize,          \* cap(c.queue)
    HighWaterPct,          \* config.HighWaterMark, a percentage
    None

ASSUME StrategyAssumption == Strategies \subseteq {"DropOldest", "DropNewest", "Block", "Reject"}
ASSUME SizeAssumption == MaxQueueSize \in Nat \ {0} /\ HighWaterPct \in 1 .. 100
ASSUME SetsAssumption == /\ IsFiniteSet(Producers) /\ IsFiniteSet(Consumers)
                         /\ IsFiniteSet(Messages) /\ None \notin Messages

VARIABLES
    strategy,   \* c.strategy, set once by NewController
    queue,      \* c.queue
    closed,     \* the channels are closed
    load,       \* c.currentLoad
    dropped, processed, rejected,  \* the counters of Stats
    submit,     \* Submit calls: what each producer does, and with which message
    receive,    \* Receive calls: what each consumer does
    result,     \* history: how the Submit of a message ended
    received,   \* history: the messages consumers got
    evicted     \* history: the messages that were dropped from the queue

vars == <<strategy, queue, closed, load, dropped, processed, rejected, submit, receive,
          result, received, evicted>>
counters == <<load, dropped, processed, rejected>>
history == <<strategy, result, received, evicted>>

highWaterMark == (HighWaterPct * MaxQueueSize) \div 100

Full == Len(queue) = MaxQueueSize
At(p, pc) == submit[p].pc = pc
Goto(p, pc) == submit' = [submit EXCEPT ![p].pc = pc]

\* Submit comes back, and with what
Return(p, r) ==
    /\ submit' = [submit EXCEPT ![p] = [pc |-> "idle", msg |-> None]]
    /\ result' = [result EXCEPT ![submit[p].msg] = r]

Init ==
    /\ strategy \in Strategies
    /\ queue = <<>>
    /\ closed = FALSE
    /\ load = 0
    /\ dropped = 0 /\ processed = 0 /\ rejected = 0
    /\ submit = [p \in Producers |-> [pc |-> "idle", msg |-> None]]
    /\ receive = [c \in Consumers |-> "idle"]
    /\ result = [m \in Messages |-> "none"]
    /\ received = {}
    /\ evicted = {}

-----------------------------------------------------------------------------
(* Submit.                                                                  *)

Submit(p, m) ==
    /\ At(p, "idle")
    /\ result[m] = "none" /\ \A x \in Producers : submit[x].msg # m
    /\ submit' = [submit EXCEPT ![p] = [pc |-> "load", msg |-> m]]
    /\ UNCHANGED <<queue, closed, counters, receive, history>>

\* above the high-water mark the strategy comes first
LoadCheck(p) ==
    /\ At(p, "load")
    /\ Goto(p, IF load > highWaterMark THEN "strategy" ELSE "try")
    /\ UNCHANGED <<queue, closed, counters, receive, history>>

\* the selects in which a producer offers its message to c.queue
Offering(p) == \/ At(p, "try") \/ At(p, "wait")
               \/ At(p, "strategy") /\ strategy # "Block"

Enqueue(p) ==
    /\ Offering(p)
    /\ ~closed /\ ~Full
    /\ queue' = Append(queue, submit[p].msg)
    /\ Goto(p, "count")
    /\ UNCHANGED <<closed, counters, receive, history>>

\* (faulty variant: CountSubmit that counts twice when the queue is full)
CountsTwice(p) ==
    /\ At(p, "count")
    /\ load' = load + (IF Full THEN 2 ELSE 1)
    /\ Return(p, "ok")
    /\ UNCHANGED <<strategy, queue, closed, dropped, processed, rejected, receive,
                   received, evicted>>

\* atomic.AddInt64(&c.currentLoad, 1)
CountSubmit(p) ==
    /\ At(p, "count")
    /\ load' = load + 1
    /\ Return(p, "ok")
    /\ UNCHANGED <<strategy, queue, closed, dropped, processed, rejected, receive,
                   received, evicted>>

TryFull(p) ==
    /\ At(p, "try")
    /\ Full /\ ~closed
    /\ Goto(p, "strategy")
    /\ UNCHANGED <<queue, closed, counters, receive, history>>

\* (faulty variant: SubmitCanceled after the message was placed)
CancelsLate(p) ==
    /\ Offering(p) \/ At(p, "strategy") \/ At(p, "count")
    /\ Return(p, "canceled")
    /\ UNCHANGED <<strategy, queue, closed, counters, receive, received, evicted>>

\* ctx is done at any select
SubmitCanceled(p) ==
    /\ Offering(p) \/ At(p, "strategy")
    /\ Return(p, "canceled")
    /\ UNCHANGED <<strategy, queue, closed, counters, receive, received, evicted>>

\* a send on a closed channel
SubmitPanics(p) ==
    /\ Offering(p) \/ At(p, "strategy")
    /\ closed
    /\ Return(p, "panic")
    /\ UNCHANGED <<strategy, queue, closed, counters, receive, received, evicted>>

\* submitDropNewest
DropNewest(p) ==
    /\ strategy = "DropNewest"
    /\ At(p, "strategy")
    /\ Full /\ ~closed
    /\ dropped' = dropped + 1
    /\ Return(p, "dropped")
    /\ UNCHANGED <<strategy, queue, closed, load, processed, rejected, receive, received, evicted>>

\* submitReject
Reject(p) ==
    /\ strategy = "Reject"
    /\ At(p, "strategy")
    /\ Full /\ ~closed
    /\ rejected' = rejected + 1
    /\ Return(p, "rejected")
    /\ UNCHANGED <<strategy, queue, closed, load, dropped, processed, receive, received, evicted>>

\* submitDropOldest: full, so try to make room ...
FindFull(p) ==
    /\ strategy = "DropOldest"
    /\ At(p, "strategy")
    /\ Full /\ ~closed
    /\ Goto(p, "evict")
    /\ UNCHANGED <<queue, closed, counters, receive, history>>

\* ... by taking the oldest message out; the load is not counted down
Evict(p) ==
    /\ At(p, "evict")
    /\ queue # <<>>
    /\ queue' = Tail(queue)
    /\ evicted' = evicted \cup {Head(queue)}
    /\ dropped' = dropped + 1
    /\ Goto(p, "strategy")
    /\ UNCHANGED <<strategy, closed, load, processed, rejected, receive, result, received>>

\* the queue was closed and drained meanwhile: the receive yields nil
EvictNil(p) ==
    /\ At(p, "evict")
    /\ closed /\ queue = <<>>
    /\ dropped' = dropped + 1
    /\ Goto(p, "strategy")
    /\ UNCHANGED <<queue, closed, load, processed, rejected, receive, history>>

\* (faulty variant: FindEmpty that never waits for room)
SpinsOnEmpty(p) == FALSE /\ UNCHANGED vars

\* the consumers were faster: wait for room
FindEmpty(p) ==
    /\ At(p, "evict")
    /\ ~closed /\ queue = <<>>
    /\ Goto(p, "wait")
    /\ UNCHANGED <<queue, closed, counters, receive, history>>

-----------------------------------------------------------------------------
(* Receive, and the rendezvous of submitBlocking.                           *)

Receive(c) ==
    /\ receive[c] = "idle"
    /\ receive' = [receive EXCEPT ![c] = "waiting"]
    /\ UNCHANGED <<queue, closed, counters, submit, history>>

\* (faulty variant: Dequeue for one strategy only)
ReadsOneQueue(c) ==
    /\ strategy = "DropOldest"
    /\ receive[c] = "waiting"
    /\ queue # <<>>
    /\ queue' = Tail(queue)
    /\ received' = received \cup {Head(queue)}
    /\ receive' = [receive EXCEPT ![c] = "count"]
    /\ UNCHANGED <<strategy, closed, counters, submit, result, evicted>>

Dequeue(c) ==
    /\ strategy # "Block"
    /\ receive[c] = "waiting"
    /\ queue # <<>>
    /\ queue' = Tail(queue)
    /\ received' = received \cup {Head(queue)}
    /\ receive' = [receive EXCEPT ![c] = "count"]
    /\ UNCHANGED <<strategy, closed, counters, submit, result, evicted>>

\* c.blockingQueue has no buffer: the two ends meet
Handover(p, c) ==
    /\ strategy = "Block"
    /\ At(p, "strategy")
    /\ receive[c] = "waiting"
    /\ ~closed
    /\ received' = received \cup {submit[p].msg}
    /\ Goto(p, "count")
    /\ receive' = [receive EXCEPT ![c] = "count"]
    /\ UNCHANGED <<strategy, queue, closed, counters, result, evicted>>

CountReceive(c) ==
    /\ receive[c] = "count"
    /\ load' = load - 1
    /\ processed' = processed + 1
    /\ receive' = [receive EXCEPT ![c] = "idle"]
    /\ UNCHANGED <<queue, closed, dropped, rejected, submit, history>>

\* ErrQueueClosed, once a closed channel is drained
ReceiveClosed(c) ==
    /\ receive[c] = "waiting"
    /\ closed
    /\ strategy = "Block" \/ queue = <<>>
    /\ receive' = [receive EXCEPT ![c] = "idle"]
    /\ UNCHANGED <<queue, closed, counters, submit, history>>

ReceiveCanceled(c) ==
    /\ receive[c] = "waiting"
    /\ receive' = [receive EXCEPT ![c] = "idle"]
    /\ UNCHANGED <<queue, closed, counters, submit, history>>

Close ==
    /\ ~closed
    /\ closed' = TRUE
    /\ UNCHANGED <<queue, counters, submit, receive, history>>

-----------------------------------------------------------------------------
StrategyStep(p) == DropNewest(p) \/ Reject(p) \/ FindFull(p) \/ Evict(p) \/ EvictNil(p)
                   \/ FindEmpty(p)
SubmitStep(p) ==
    \/ LoadCheck(p) \/ Enqueue(p) \/ CountSubmit(p) \/ TryFull(p)
    \/ SubmitPanics(p)
    \/ StrategyStep(p)
ReceiveStep(c) == Dequeue(c) \/ CountReceive(c) \/ ReceiveClosed(c)

Next ==
    \/ \E p \in Producers, m \in Messages : Submit(p, m)
    \/ \E p \in Producers : SubmitStep(p) \/ SubmitCanceled(p)
    \/ \E c \in Consumers : Receive(c) \/ ReceiveStep(c) \/ ReceiveCanceled(c)
    \/ \E p \in Producers, c \in Consumers : Handover(p, c)
    \/ Close

Spec == Init /\ [][Next]_vars

\* Goroutines run on and a consumer comes back for more.  A select whose
\* receive is ready again and again takes it in the end, since it chooses at
\* random: strong fairness.  No context need be canceled, nor the controller
\* closed.
FairSpec ==
    /\ Spec
    /\ \A p \in Producers : WF_vars(SubmitStep(p)) /\ SF_vars(\E c \in Consumers : Handover(p, c))
    /\ \A c \in Consumers : WF_vars(Receive(c)) /\ SF_vars(ReceiveStep(c))

-----------------------------------------------------------------------------
Queued == {queue[i] : i \in DOMAIN queue}
Counting == {p \in Producers : At(p, "count")}
Uncounted == {c \in Consumers : receive[c] = "count"}

TypeOK ==
    /\ strategy \in Strategies
    /\ queue \in Seq(Messages) /\ Len(queue) <= MaxQueueSize
    /\ closed \in BOOLEAN
    /\ load \in Int
    /\ dropped \in Nat /\ processed \in Nat /\ rejected \in Nat
    /\ submit \in [Producers -> [pc : {"idle", "load", "try", "strategy", "evict", "wait", "count"},
                                 msg : Messages \cup {None}]]
    /\ receive \in [Consumers -> {"idle", "waiting", "count"}]
    /\ result \in [Messages -> {"none", "ok", "canceled", "dropped", "rejected", "panic"}]
    /\ received \subseteq Messages
    /\ evicted \subseteq Messages

\* The load counter is off by the calls that have yet to count, and by every
\* message that was ever evicted, which is never counted down: between calls
\* it is the length of the queue only for the other strategies
\* (controller.go:113, 155, 176-180).
LoadAccounts ==
    load = Len(queue) + Cardinality(evicted) + Cardinality(Uncounted) - Cardinality(Counting)

\* A message is in one place: an accepted one is in the queue, with a
\* consumer, or evicted, and one whose Submit came back with an error is in
\* none of them and never will be (controller.go:91-234).
OneFate ==
    \A m \in Messages :
        /\ Cardinality({X \in {Queued, received, evicted} : m \in X}) <= 1
        /\ result[m] = "ok" => m \in Queued \cup received \cup evicted
        /\ result[m] \in {"canceled", "dropped", "rejected", "panic"} =>
              m \notin Queued \cup received \cup evicted

\* An accepted message does not stay in the queue: it is received or dropped,
\* as long as somebody receives.  That holds for the strategies whose consumers
\* read the queue; with Block, Submit fills c.queue and Receive never reads it
\* (controller.go:112, 133-148).
DeliveredUnlessBlock ==
    \A m \in Messages :
        strategy # "Block" /\ m \in Queued ~> m \in received \cup evicted

\* Calls come back: Submit under every strategy, however often its queue is
\* filled and emptied by others, and a consumer that waits when the controller
\* is closed (controller.go:91-131, 151-153, 274-280).
CallsReturn ==
    /\ \A p \in Producers : ~At(p, "idle") ~> At(p, "idle")
    /\ \A c \in Consumers : closed /\ receive[c] = "waiting" ~> receive[c] # "waiting"
=============================================================================
