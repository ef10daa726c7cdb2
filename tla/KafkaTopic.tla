------------------------------ MODULE KafkaTopic ------------------------------
(***************************************************************************)
(* One topic seen through the wrappers of internal/kafka: producer.go with *)
(* its asynchronous, synchronous and batch calls, and consumer.go with a   *)
(* consumer of the whole topic that is restarted after a crash.  The       *)
(* client library and the broker are modelled from how the wrappers use    *)
(* them: an idempotent producer keeps the order of what it sends, and a    *)
(* consumer group starts where it last committed; in a partition where it  *)
(* committed nothing it starts at the beginning or behind what is there,   *)
(* as the auto.offset.reset given to NewConsumer says.                     *)
(***************************************************************************)
EXTENDS Naturals, Sequences, FiniteSets, SequencesExt

CONSTANTS
    Keys,
    Partitions, PartitionOf,   \* the partitioner hashes the key
    BatchSize,                 \* argument of ConsumeMessagesBatch
    QueueLimit,                \* the library's queue, 100000 by default
    None

ASSUME TopicAssumption == /\ PartitionOf \in [Keys -> Partitions]
                          /\ BatchSize \in Nat \ {0} /\ QueueLimit \in Nat \ {0}

VARIABLES
    queue,      \* messages the library has not delivered yet
    log,        \* the broker's log of each partition
    lost,       \* messages given up, with an error in the program's log
    sync,       \* the caller of ProduceMessageSync
    consumer,   \* the consumer's goroutine
    position,   \* the library's next offset, by partition
    committed,  \* the broker's: the group goes on here; NoCommit before the first
    reset,      \* auto.offset.reset of the group: its programs pass a constant
    skipped,    \* history: what starts without a commit passed over
    offered,    \* history: what a handler was called with
    panicked

groupVars == <<reset, skipped>>
producerVars == <<queue, log, lost, sync>>
consumerVars == <<consumer, position, committed, groupVars, offered>>
topicVars == <<producerVars, consumerVars, panicked>>

NoCommit == 0

Nobody == [at |-> "down", mode |-> None, batch |-> <<>>]

TopicInit ==
    /\ queue = <<>> /\ log = [p \in Partitions |-> <<>>] /\ lost = {}
    /\ sync = [at |-> "idle", message |-> None]
    /\ consumer = Nobody
    /\ position = [p \in Partitions |-> 1] /\ committed = [p \in Partitions |-> NoCommit]
    /\ reset \in {"earliest", "latest"} /\ skipped = {}
    /\ offered = {}
    /\ panicked = FALSE

-----------------------------------------------------------------------------
(* The producer.                                                            *)

\* what Produce does to the queue; full, or a message that is none, is an error
Enqueue(message) == Len(queue) < QueueLimit /\ queue' = Append(queue, message)

ProduceMessage(message) ==
    \/ Enqueue(message) /\ UNCHANGED lost
    \/ lost' = lost \cup {message} /\ UNCHANGED queue

\* ProduceMessageSync makes a channel for the report, which is closed on return
ProduceMessageSync(message) ==
    /\ sync.at = "idle"
    /\ Enqueue(message)
    /\ sync' = [at |-> "waiting", message |-> message]
    /\ UNCHANGED <<log, lost, consumerVars, panicked>>

\* its context ends, or the timeout comes, before the report
SyncGivesUp ==
    /\ sync.at = "waiting"
    /\ sync' = [sync EXCEPT !.at = "gone"]
    /\ UNCHANGED <<queue, log, lost, consumerVars, panicked>>

\* A report goes to the events channel, where handleDeliveryReports takes it,
\* or to the channel of its call, which may be closed by now.
Report(message) ==
    IF message # sync.message THEN UNCHANGED <<sync, panicked>>
    ELSE IF sync.at = "gone" THEN panicked' = TRUE /\ UNCHANGED sync
    ELSE sync' = [sync EXCEPT !.at = "answered"] /\ UNCHANGED panicked

Deliver ==
    /\ queue # <<>>
    /\ LET message == Head(queue)
       IN  /\ log' = [log EXCEPT ![PartitionOf[message.key]] = Append(@, message)]
           /\ Report(message)
    /\ queue' = Tail(queue)
    /\ UNCHANGED <<lost, consumerVars>>

\* the library gives a message up
DeliveryFails ==
    /\ queue # <<>>
    /\ lost' = lost \cup {Head(queue)}
    /\ Report(Head(queue))
    /\ queue' = Tail(queue)
    /\ UNCHANGED <<log, consumerVars>>

-----------------------------------------------------------------------------
(* The consumer.                                                            *)

Modes == {"ConsumeMessages", "ConsumeMessagesBatch", "ConsumeMessage"}

\* where the group begins in a partition
FirstOffset(p) ==
    IF committed[p] # NoCommit THEN committed[p]
    ELSE IF reset = "latest" THEN Len(log[p]) + 1 ELSE 1

\* what it passes over there, not having committed it
PassedOver(p) ==
    IF committed[p] # NoCommit THEN {} ELSE {[partition |-> p, offset |-> o] : o \in 1 .. FirstOffset(p) - 1}

\* A process comes up and is given all partitions (the step is the moment when the
\* library has them, and looks up where to begin).
ConsumerStarts(mode) ==
    /\ consumer.at = "down"
    /\ consumer' = [Nobody EXCEPT !.at = "polling", !.mode = mode]
    /\ position' = [p \in Partitions |-> FirstOffset(p)]
    /\ skipped' = skipped \cup UNION {PassedOver(p) : p \in Partitions}
    /\ UNCHANGED <<producerVars, committed, reset, offered, panicked>>

\* the process dies with all it knew
Crash ==
    /\ consumer.at # "down"
    /\ consumer' = Nobody
    /\ UNCHANGED <<producerVars, position, committed, groupVars, offered, panicked>>

\* Stop or a canceled context, seen at the top of the loop; a batch that is not
\* complete is dropped.  ConsumeMessages ends like that, and tells nobody, when
\* all brokers are down.
ConsumerEnds ==
    /\ consumer.at = "polling"
    /\ consumer' = Nobody
    /\ UNCHANGED <<producerVars, position, committed, groupVars, offered, panicked>>

Collects == consumer.mode = "ConsumeMessagesBatch"

Poll(p) ==
    /\ consumer.at = "polling"
    /\ position[p] <= Len(log[p])
    /\ position' = [position EXCEPT ![p] = @ + 1]
    /\ LET batch == Append(consumer.batch, [partition |-> p, offset |-> position[p]])
       IN  consumer' = [consumer EXCEPT !.batch = batch,
                            !.at = IF Collects /\ Len(batch) < BatchSize THEN "polling" ELSE "handling"]
    /\ UNCHANGED <<producerVars, committed, groupVars, offered, panicked>>

\* the time for a batch is up
BatchTimeout ==
    /\ consumer.at = "polling" /\ consumer.batch # <<>>
    /\ consumer' = [consumer EXCEPT !.at = "handling"]
    /\ UNCHANGED <<producerVars, position, committed, groupVars, offered, panicked>>

PollsAgain == [consumer EXCEPT !.at = "polling", !.batch = <<>>]

\* The handler is called, and fails or not.  A message that failed is not
\* committed, but a batch is; whoever polls with ConsumeMessage commits nothing.
Handle ==
    /\ consumer.at = "handling"
    /\ offered' = offered \cup Range(consumer.batch)
    /\ \E failed \in BOOLEAN :
          consumer' = IF consumer.mode = "ConsumeMessage" \/ (failed /\ ~Collects) THEN PollsAgain
                      ELSE [consumer EXCEPT !.at = "committing"]
    /\ UNCHANGED <<producerVars, position, committed, groupVars, panicked>>

\* (faulty variant: one is added to the offset here and again in the library)
CommitsOneMore ==
    /\ consumer.at = "committing"
    /\ LET last == Last(consumer.batch)
       IN  committed' = [committed EXCEPT ![last.partition] = last.offset + 2]
    /\ consumer' = PollsAgain
    /\ UNCHANGED <<producerVars, position, groupVars, offered, panicked>>

\* CommitMessage of the last message: the next offset, of its own partition
Commit ==
    /\ consumer.at = "committing"
    /\ LET last == Last(consumer.batch)
       IN  committed' = [committed EXCEPT ![last.partition] = last.offset + 1]
    /\ consumer' = PollsAgain
    /\ UNCHANGED <<producerVars, position, groupVars, offered, panicked>>

\* an error that is logged
CommitFails ==
    /\ consumer.at = "committing"
    /\ consumer' = PollsAgain
    /\ UNCHANGED <<producerVars, position, committed, groupVars, offered, panicked>>

-----------------------------------------------------------------------------
ConsumerStep == (\E p \in Partitions : Poll(p)) \/ BatchTimeout \/ Handle \/ Commit \/ CommitFails

TopicNext ==
    \/ SyncGivesUp \/ Deliver \/ DeliveryFails
    \/ \E mode \in Modes : ConsumerStarts(mode)
    \/ Crash \/ ConsumerEnds \/ ConsumerStep

\* A group never commits past a message that no handler was called with, except
\* those that were in the partition when it started there with 'latest' and no
\* commit: whenever it crashes or restarts, though errors of handlers and of
\* commits are only logged and a batch commits with its last message, what came
\* after such a start is not lost to it (consumer.go:115-124, 226-281,
\* client.go:128-134).  With 'earliest' nothing is excepted; with 'latest' a crash
\* before the first commit in a partition loses what comes until the next start.
CommittedWereOffered ==
    \A p \in Partitions : \A o \in 1 .. committed[p] - 1 :
        [partition |-> p, offset |-> o] \in offered \cup skipped
=============================================================================
