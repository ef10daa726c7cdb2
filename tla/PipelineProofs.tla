---------------------------- MODULE PipelineProofs ----------------------------
(***************************************************************************)
(* Theorems about KafkaTopic and EventPipeline for every set of symbols    *)
(* and partitions, every partitioner and every size of a channel, a queue  *)
(* and a batch.                                                            *)
(***************************************************************************)
EXTENDS EventPipeline, SequenceTheorems, TLAPS

Messages == [key : Keys, n : Nat]
Places == [partition : Partitions, offset : Nat \ {0}]
Consumers == [at : {"down", "polling", "handling", "committing"}, mode : Modes \cup {None}, batch : Seq(Places)]
Engines == [emitted : Nat, channel : Seq(Messages), open : BOOLEAN]

-----------------------------------------------------------------------------
(* The inductive invariant.                                                 *)

\* what the variables that matter below hold
TopicTypes ==
    /\ queue \in Seq(Messages) /\ log \in [Partitions -> Seq(Messages)]
    /\ consumer \in Consumers
    /\ position \in [Partitions -> Nat \ {0}] /\ committed \in [Partitions -> Nat]
    /\ reset \in {"earliest", "latest"}
    /\ skipped \in SUBSET Places /\ offered \in SUBSET Places

PipeTypes ==
    /\ engines \in [DOMAIN engines -> Engines] /\ DOMAIN engines \subseteq Keys
    /\ registered \subseteq DOMAIN engines
    /\ relay \in [at : {"off", "idle", "draining", "ended"},
                 todo : SUBSET DOMAIN engines, symbol : DOMAIN engines \cup {None}]

\* A consumer that is up was handed every message of a partition below its
\* position, and calls a handler with it or did before, or the group passed over
\* it when it started without a commit; it commits when it did.
InBatch(m) == \E i \in DOMAIN consumer.batch : consumer.batch[i] = m

ReadOn ==
    /\ consumer.at # "down" =>
          \A m \in Places :
              m.offset < position[m.partition] => m \in offered \cup skipped \/ InBatch(m)
    /\ consumer.at = "committing" =>
          /\ consumer.batch # <<>>
          /\ \A i \in DOMAIN consumer.batch : consumer.batch[i] \in offered
    /\ consumer.at = "handling" => consumer.batch # <<>>

\* The batch is read in order, below the position, which is within the log; so is
\* what was committed and what was offered.
BatchInOrder ==
    /\ \A i \in DOMAIN consumer.batch :
          consumer.batch[i].offset < position[consumer.batch[i].partition]
    /\ \A i, j \in DOMAIN consumer.batch :
          i < j /\ consumer.batch[i].partition = consumer.batch[j].partition
             => consumer.batch[i].offset < consumer.batch[j].offset
WithinLog ==
    /\ \A p \in Partitions : position[p] <= Len(log[p]) + 1 /\ committed[p] <= Len(log[p]) + 1
    /\ \A m \in offered : m.offset <= Len(log[m.partition])

\* handlers saw all of a partition up to the last message they saw, but what was
\* passed over
OfferedFromTheStart ==
    \A m \in offered, l \in Places :
        l.partition = m.partition /\ l.offset < m.offset => l \in offered \cup skipped

\* What was passed over stays behind: behind the commit of its partition, the
\* position and whatever is read after it.
SkippedIsBehind ==
    /\ reset = "latest" \/ skipped = {}
    /\ \A m \in skipped :
          /\ m.offset <= Len(log[m.partition])
          /\ committed[m.partition] # NoCommit => m.offset < committed[m.partition]
          /\ consumer.at # "down" => m.offset < position[m.partition]
          /\ \A i \in DOMAIN consumer.batch :
                consumer.batch[i].partition = m.partition => m.offset < consumer.batch[i].offset

\* The events of a symbol are in order in its partition, in the queue and in its
\* channel, and between them; none is later than the last one emitted.
Sorted(f) == \A i, j \in DOMAIN f : i < j => Precedes(f[i], f[j])
Before(f, g) == \A i \in DOMAIN f, j \in DOMAIN g : Precedes(f[i], g[j])
Emitted(f) == \A i \in DOMAIN f : f[i].n # 0 => f[i].key \in DOMAIN engines /\ f[i].n <= engines[f[i].key].emitted

LogInOrder == \A p \in Partitions : Sorted(log[p]) /\ Emitted(log[p]) /\ Before(log[p], queue)
KeyHasItsPartition == \A p \in Partitions : \A i \in DOMAIN log[p] : PartitionOf[log[p][i].key] = p
QueueInOrder == Sorted(queue) /\ Emitted(queue)
ChannelsInOrder ==
    \A s \in DOMAIN engines :
        /\ \A i \in DOMAIN engines[s].channel : engines[s].channel[i].key = s /\ engines[s].channel[i].n # 0
        /\ Sorted(engines[s].channel) /\ Emitted(engines[s].channel)
        /\ Before(queue, engines[s].channel)
        /\ \A p \in Partitions : Before(log[p], engines[s].channel)

ReadInv ==
    /\ ReadOn /\ BatchInOrder /\ WithinLog
    /\ OfferedFromTheStart /\ SkippedIsBehind /\ CommittedWereOffered
OrderInv == LogInOrder /\ KeyHasItsPartition /\ QueueInOrder /\ ChannelsInOrder
IInv == TopicTypes /\ PipeTypes /\ ReadInv /\ OrderInv

-----------------------------------------------------------------------------
(* Sequences of messages.                                                   *)

\* the head of a sequence and what it loses with it
LEMMA TailIsShifted ==
    ASSUME NEW S, NEW f \in Seq(S), f # <<>>
    PROVE  /\ Head(f) = f[1] /\ Head(f) \in S /\ 1 \in DOMAIN f
           /\ Tail(f) \in Seq(S)
           /\ \A i \in DOMAIN Tail(f) : i + 1 \in DOMAIN f /\ Tail(f)[i] = f[i + 1] /\ i \in Nat
<1>1. /\ Head(f) \in S /\ Tail(f) \in Seq(S) /\ Len(Tail(f)) = Len(f) - 1
      /\ \A i \in 1 .. Len(Tail(f)) : Tail(f)[i] = f[i + 1]
  BY HeadTailProperties
<1>2. Head(f) = f[1] /\ Len(f) \in Nat /\ DOMAIN f = 1 .. Len(f) /\ Len(f) # 0
  BY EmptySeq, LenProperties
<1>3. DOMAIN Tail(f) = 1 .. Len(Tail(f))
  BY <1>1, LenProperties
<1> QED
  BY <1>1, <1>2, <1>3

\* a sequence with one more
LEMMA AppendIsOneMore ==
    ASSUME NEW S, NEW f \in Seq(S), NEW e \in S
    PROVE  /\ Append(f, e) \in Seq(S) /\ DOMAIN Append(f, e) = DOMAIN f \cup {Len(f) + 1}
           /\ Append(f, e)[Len(f) + 1] = e
           /\ \A i \in DOMAIN f : Append(f, e)[i] = f[i] /\ i < Len(f) + 1 /\ i \in Nat
<1>1. /\ Append(f, e) \in Seq(S) /\ Len(Append(f, e)) = Len(f) + 1 /\ Append(f, e)[Len(f) + 1] = e
      /\ \A i \in 1 .. Len(f) : Append(f, e)[i] = f[i]
  BY AppendProperties
<1>2. Len(f) \in Nat /\ DOMAIN f = 1 .. Len(f) /\ DOMAIN Append(f, e) = 1 .. Len(Append(f, e))
  BY <1>1, LenProperties
<1> QED
  BY <1>1, <1>2

\* without its head a sequence keeps its order and its place between others
LEMMA TailInOrder ==
    ASSUME NEW S, NEW f \in Seq(S), f # <<>>
    PROVE  /\ Sorted(f) => Sorted(Tail(f)) /\ \A i \in DOMAIN Tail(f) : Precedes(Head(f), Tail(f)[i])
           /\ Emitted(f) => Emitted(Tail(f))
           /\ \A g : Before(f, g) => Before(Tail(f), g) /\ \A j \in DOMAIN g : Precedes(Head(f), g[j])
           /\ \A g : Before(g, f) => Before(g, Tail(f)) /\ \A j \in DOMAIN g : Precedes(g[j], Head(f))
<1>1. /\ Head(f) = f[1] /\ 1 \in DOMAIN f
      /\ \A i \in DOMAIN Tail(f) : i + 1 \in DOMAIN f /\ Tail(f)[i] = f[i + 1] /\ i \in Nat /\ 1 < i + 1
  <2>1. /\ Head(f) = f[1] /\ 1 \in DOMAIN f
        /\ \A i \in DOMAIN Tail(f) : i + 1 \in DOMAIN f /\ Tail(f)[i] = f[i + 1] /\ i \in Nat
    BY TailIsShifted
  <2>2. DOMAIN Tail(f) = 1 .. Len(Tail(f)) /\ Len(Tail(f)) \in Nat
    BY TailIsShifted, LenProperties
  <2> QED
    BY <2>1, <2>2
<1>2. \A i, j \in DOMAIN Tail(f) : i < j => i + 1 < j + 1
  BY <1>1
<1> QED
  BY <1>1, <1>2 DEF Sorted, Emitted, Before

\* nor does one lose it when something later, that is due, comes to its end
LEMMA AppendInOrder ==
    ASSUME NEW S, NEW f \in Seq(S), NEW e \in S
    PROVE  /\ Sorted(f) /\ (\A i \in DOMAIN f : Precedes(f[i], e)) => Sorted(Append(f, e))
           /\ Emitted(f) /\ (e.n # 0 => e.key \in DOMAIN engines /\ e.n <= engines[e.key].emitted) => Emitted(Append(f, e))
           /\ \A g : Before(f, g) /\ (\A j \in DOMAIN g : Precedes(e, g[j])) => Before(Append(f, e), g)
           /\ \A g : Before(g, f) /\ (\A j \in DOMAIN g : Precedes(g[j], e)) => Before(g, Append(f, e))
<1> DEFINE n == Len(f) + 1
<1>1. /\ DOMAIN Append(f, e) = DOMAIN f \cup {n} /\ Append(f, e)[n] = e
      /\ \A i \in DOMAIN f : Append(f, e)[i] = f[i] /\ i < n /\ i \in Nat
  BY AppendIsOneMore
<1>2. n \in Nat
  BY LenProperties
<1> HIDE DEF n
<1>3. ASSUME Sorted(f), \A i \in DOMAIN f : Precedes(f[i], e),
             NEW i \in DOMAIN Append(f, e), NEW j \in DOMAIN Append(f, e), i < j
      PROVE  Precedes(Append(f, e)[i], Append(f, e)[j])
  <2>1. i \in DOMAIN f
    BY <1>1, <1>2, <1>3
  <2>2. CASE j = n
    BY <1>1, <1>3, <2>1, <2>2
  <2>3. CASE j \in DOMAIN f
    BY <1>1, <1>3, <2>1, <2>3 DEF Sorted
  <2> QED
    BY <1>1, <2>2, <2>3
<1> QED
  BY <1>1, <1>3 DEF Sorted, Emitted, Before

-----------------------------------------------------------------------------
(* Types.                                                                   *)

\* the invariant holds before anything happens
LEMMA InitInv == Init => IInv
<1> SUFFICES ASSUME Init PROVE IInv
  OBVIOUS
<1> USE DEF Init, TopicInit, Nobody, RelayIs
<1>1. /\ <<>> \in Seq(Messages) /\ <<>> \in Seq(Places) /\ Len(<<>>) = 0 /\ DOMAIN <<>> = {}
  BY EmptySeq
<1>2. TopicTypes
  <2>1. queue \in Seq(Messages) /\ log \in [Partitions -> Seq(Messages)]
    BY <1>1
  <2>2. consumer \in Consumers /\ consumer.at = "down"
    BY <1>1 DEF Consumers
  <2>3. /\ position \in [Partitions -> Nat \ {0}] /\ committed \in [Partitions -> Nat]
        /\ reset \in {"earliest", "latest"}
        /\ skipped \in SUBSET Places /\ offered \in SUBSET Places
    BY DEF NoCommit
  <2> QED
    BY <2>1, <2>2, <2>3 DEF TopicTypes
<1>3. PipeTypes
  <2>1. engines = [s \in {} |-> s]
    OBVIOUS
  <2> QED
    BY <1>1, <2>1 DEF PipeTypes
<1>4. ReadInv
  BY <1>1 DEF ReadInv, ReadOn, BatchInOrder, WithinLog, OfferedFromTheStart, SkippedIsBehind,
              CommittedWereOffered, NoCommit, Places
<1>5. OrderInv
  BY <1>1 DEF OrderInv, LogInOrder, KeyHasItsPartition, QueueInOrder, ChannelsInOrder, Sorted, Before, Emitted
<1> QED
  BY <1>2, <1>3, <1>4, <1>5 DEF IInv

\* What Poll hands over is a place, at the end of the batch.
Polled(p) == [partition |-> p, offset |-> position[p]]

LEMMA PollExtendsBatch ==
    ASSUME TopicTypes, NEW p \in Partitions, Poll(p)
    PROVE  /\ Polled(p) \in Places
           /\ consumer'.batch = Append(consumer.batch, Polled(p))
           /\ consumer'.at \in {"polling", "handling"}
           /\ consumer' \in Consumers
<1> DEFINE batch == Append(consumer.batch, Polled(p))
           at == IF Collects /\ Len(batch) < BatchSize THEN "polling" ELSE "handling"
<1>1. Polled(p) \in Places
  BY DEF TopicTypes, Polled, Places
<1>2. consumer' = [consumer EXCEPT !.batch = batch, !.at = at]
  BY DEF Poll, Polled
<1>3. at \in {"polling", "handling"}
  OBVIOUS
<1> HIDE DEF at
<1>4. batch \in Seq(Places)
  <2>1. consumer.batch \in Seq(Places)
    BY DEF TopicTypes, Consumers
  <2> HIDE DEF Polled, Places
  <2> QED
    BY <1>1, <2>1, AppendProperties
<1> HIDE DEF batch
<1>5. consumer'.batch = batch /\ consumer'.at = at
  BY <1>2 DEF TopicTypes, Consumers
<1>6. consumer' \in Consumers
  BY <1>2, <1>3, <1>4 DEF TopicTypes, Consumers
<1> QED
  BY <1>1, <1>3, <1>5, <1>6 DEF batch

\* Deliver's message, and what is left, by the queue's type
LEMMA HeadOfQueue ==
    ASSUME TopicTypes, queue # <<>>
    PROVE  Head(queue) \in Messages /\ Tail(queue) \in Seq(Messages)
BY TailIsShifted DEF TopicTypes

\* Enqueue's, and what of the queue may change
LEMMA EnqueueOne ==
    ASSUME TopicTypes, NEW e \in Messages
    PROVE  Append(queue, e) \in Seq(Messages)
<1>1. queue \in Seq(Messages)
  BY DEF TopicTypes
<1> QED
  BY <1>1, AppendProperties

\* log after Deliver
LEMMA DeliverAppends ==
    ASSUME TopicTypes, Deliver
    PROVE  LET e == Head(queue)
               p == PartitionOf[e.key]
           IN  /\ e \in Messages /\ p \in Partitions /\ queue # <<>> /\ queue' = Tail(queue)
               /\ log' \in [Partitions -> Seq(Messages)]
               /\ log'[p] = Append(log[p], e)
               /\ \A q \in Partitions \ {p} : log'[q] = log[q]
               /\ UNCHANGED consumerVars
<1> DEFINE e == Head(queue)
           p == PartitionOf[e.key]
<1>1. /\ queue # <<>> /\ queue' = Tail(queue) /\ UNCHANGED consumerVars
      /\ log' = [log EXCEPT ![p] = Append(log[p], e)]
  BY DEF Deliver
<1>2. e \in Messages
  BY <1>1, HeadOfQueue
<1>3. p \in Partitions
  BY <1>2, TopicAssumption DEF Messages
<1>4. Append(log[p], e) \in Seq(Messages)
  <2>1. log[p] \in Seq(Messages)
    BY <1>3 DEF TopicTypes
  <2> QED
    BY <1>2, <2>1, AppendProperties
<1> HIDE DEF e, p
<1>5. /\ log' \in [Partitions -> Seq(Messages)] /\ log'[p] = Append(log[p], e)
      /\ \A q \in Partitions \ {p} : log'[q] = log[q]
  BY <1>1, <1>3, <1>4 DEF TopicTypes
<1> QED
  BY <1>1, <1>2, <1>3, <1>5 DEF e, p

\* The engine that emits, and the others; its channel gets the event or drops it.
LEMMA OrderEmits ==
    ASSUME PipeTypes, NEW s \in Keys, Order(s)
    PROVE  LET before == getOrCreateMatchingEngine(s)
               n == before.emitted + 1
           IN  /\ before \in Engines
               /\ n \in Nat \ {0} /\ n > before.emitted
               /\ DOMAIN engines' = DOMAIN engines \cup {s}
               /\ engines' \in [DOMAIN engines' -> Engines]
               /\ \A t \in DOMAIN engines' \ {s} : t \in DOMAIN engines /\ engines'[t] = engines[t]
               /\ engines'[s].emitted = n
               /\ engines'[s].channel \in {before.channel, Append(before.channel, Event(s, n))}
               /\ Event(s, n) \in Messages
               /\ s \in DOMAIN engines => before = engines[s]
               /\ s \notin DOMAIN engines => before.channel = <<>> /\ before.emitted = 0
               /\ UNCHANGED <<queue, log, consumerVars, relay>>
               /\ registered' \subseteq registered \cup {s}
<1> DEFINE before == getOrCreateMatchingEngine(s)
           n == before.emitted + 1
           channel == IF Len(before.channel) < ChannelSize THEN Append(before.channel, Event(s, n)) ELSE before.channel
           after == [before EXCEPT !.emitted = n, !.channel = channel]
<1>1. before \in Engines
  <2>1. <<>> \in Seq(Messages)
    BY EmptySeq
  <2> QED
    BY <2>1 DEF PipeTypes, getOrCreateMatchingEngine, Engines
<1>2. n \in Nat \ {0} /\ n > before.emitted
  <2>1. before.emitted \in Nat
    BY <1>1 DEF Engines
  <2> HIDE DEF before
  <2> QED
    BY <2>1
<1>3. Event(s, n) \in Messages
  BY <1>2 DEF Event, Messages
<1>4. channel \in Seq(Messages) /\ channel \in {before.channel, Append(before.channel, Event(s, n))}
  <2>1. before.channel \in Seq(Messages)
    BY <1>1 DEF Engines
  <2> HIDE DEF before, n
  <2>2. Append(before.channel, Event(s, n)) \in Seq(Messages)
    BY <1>3, <2>1, AppendProperties
  <2> QED
    BY <2>1, <2>2
<1>5. engines' = [t \in DOMAIN engines \cup {s} |-> IF t # s THEN engines[t] ELSE after]
  BY DEF Order
<1> HIDE DEF n, channel
<1>6. after \in Engines /\ after.emitted = n /\ after.channel = channel
  <2> HIDE DEF before
  <2> QED
    BY <1>1, <1>2, <1>4 DEF Engines
<1>7. /\ s \in DOMAIN engines => before = engines[s]
      /\ s \notin DOMAIN engines => before.channel = <<>> /\ before.emitted = 0
  BY DEF getOrCreateMatchingEngine
<1> HIDE DEF before, after
<1>8. /\ DOMAIN engines' = DOMAIN engines \cup {s}
      /\ engines' \in [DOMAIN engines' -> Engines]
      /\ \A t \in DOMAIN engines' \ {s} : t \in DOMAIN engines /\ engines'[t] = engines[t]
      /\ engines'[s] = after
  BY <1>5, <1>6 DEF PipeTypes
<1>9. /\ UNCHANGED <<queue, log, consumerVars, relay>>
      /\ registered' \subseteq registered \cup {s}
  BY DEF Order, producerVars
<1> QED
  BY <1>1, <1>2, <1>3, <1>4, <1>6, <1>7, <1>8, <1>9 DEF before, n

\* Relay takes the head of one channel, which the producer has or gives up.
LEMMA RelayTakes ==
    ASSUME TopicTypes, PipeTypes, Relay
    PROVE  LET s == relay.symbol
               f == engines[s].channel
           IN  /\ s \in DOMAIN engines /\ f \in Seq(Messages) /\ f # <<>>
               /\ engines[s] \in Engines
               /\ DOMAIN engines' = DOMAIN engines
               /\ engines' \in [DOMAIN engines' -> Engines]
               /\ engines'[s].channel = Tail(f) /\ engines'[s].emitted = engines[s].emitted
               /\ \A t \in DOMAIN engines \ {s} : engines'[t] = engines[t]
               /\ queue' \in {queue, Append(queue, Head(f))}
               /\ UNCHANGED <<log, consumerVars, registered, relay>>
<1> DEFINE s == relay.symbol
           f == engines[s].channel
           after == [engines[s] EXCEPT !.channel = Tail(f)]
<1>1. s \in DOMAIN engines /\ f # <<>>
  BY DEF Relay, PipeTypes
<1>2. engines[s] \in Engines /\ f \in Seq(Messages)
  BY <1>1 DEF PipeTypes, Engines
<1>3. Tail(f) \in Seq(Messages)
  BY <1>1, <1>2, TailIsShifted
<1>4. engines' = [engines EXCEPT ![s] = after]
  BY <1>1 DEF Relay
<1>5. after \in Engines /\ after.channel = Tail(f) /\ after.emitted = engines[s].emitted
  <2> HIDE DEF s
  <2> QED
    BY <1>2, <1>3 DEF Engines
<1>6. queue' \in {queue, Append(queue, Head(f))}
  BY DEF Relay, ProduceMessage, Enqueue
<1>7. UNCHANGED <<log, consumerVars, registered, relay>>
  BY DEF Relay
<1> HIDE DEF after
<1>8. /\ DOMAIN engines' = DOMAIN engines
      /\ engines' \in [DOMAIN engines' -> Engines]
      /\ engines'[s] = after
      /\ \A t \in DOMAIN engines \ {s} : engines'[t] = engines[t]
  BY <1>1, <1>4, <1>5 DEF PipeTypes
<1> QED
  BY <1>1, <1>2, <1>5, <1>6, <1>7, <1>8

\* StopReturns closes the engines, and changes nothing else of them.
LEMMA StopCloses ==
    ASSUME PipeTypes, StopReturns
    PROVE  /\ DOMAIN engines' = DOMAIN engines
           /\ engines' \in [DOMAIN engines' -> Engines]
           /\ \A s \in DOMAIN engines : /\ engines'[s].channel = engines[s].channel
                                        /\ engines'[s].emitted = engines[s].emitted
           /\ UNCHANGED <<queue, log, consumerVars, registered, relay>>
<1>1. engines' = [s \in DOMAIN engines |-> Closed(engines[s])]
  BY DEF StopReturns
<1>2. ASSUME NEW e \in Engines
      PROVE  Closed(e) \in Engines /\ Closed(e).channel = e.channel /\ Closed(e).emitted = e.emitted
  BY <1>2 DEF Closed, Engines
<1>3. \A s \in DOMAIN engines : engines[s] \in Engines
  BY DEF PipeTypes
<1>4. UNCHANGED <<queue, log, consumerVars, registered, relay>>
  BY DEF StopReturns, topicVars, producerVars, consumerVars
<1> QED
  BY <1>1, <1>2, <1>3, <1>4

\* Handlers see places, and what they are handed becomes offered.
LEMMA HandleOffers ==
    ASSUME TopicTypes, Handle
    PROVE  /\ \A m : m \in offered' <=> m \in offered \/ InBatch(m)
           /\ offered' \in SUBSET Places
           /\ consumer' \in Consumers
           /\ \/ consumer'.at = "polling" /\ consumer'.batch = <<>>
              \/ consumer'.at = "committing" /\ consumer'.batch = consumer.batch
           /\ UNCHANGED <<producerVars, position, committed, groupVars>>
<1>1. /\ offered' = offered \cup Range(consumer.batch)
      /\ UNCHANGED <<producerVars, position, committed, groupVars>>
  BY DEF Handle
<1>2. consumer \in Consumers /\ consumer.batch \in Seq(Places)
  BY DEF TopicTypes, Consumers
<1>3. \A i \in DOMAIN consumer.batch : consumer.batch[i] \in Places
  BY <1>2, ElementOfSeq, LenProperties
<1>4. /\ \A m : m \in offered' <=> m \in offered \/ InBatch(m)
      /\ offered' \in SUBSET Places
  BY <1>1, <1>3 DEF Range, InBatch, TopicTypes
<1>5. consumer' \in {PollsAgain, [consumer EXCEPT !.at = "committing"]}
  BY DEF Handle
<1>6. <<>> \in Seq(Places)
  BY EmptySeq
<1>7. /\ PollsAgain \in Consumers /\ PollsAgain.at = "polling" /\ PollsAgain.batch = <<>>
      /\ [consumer EXCEPT !.at = "committing"] \in Consumers
      /\ [consumer EXCEPT !.at = "committing"].at = "committing"
      /\ [consumer EXCEPT !.at = "committing"].batch = consumer.batch
  BY <1>2, <1>6 DEF PollsAgain, Consumers
<1> QED
  BY <1>1, <1>4, <1>5, <1>7

\* Commit moves one partition's offset behind the last message of the batch.
LEMMA CommitMoves ==
    ASSUME TopicTypes, Commit, consumer.batch # <<>>
    PROVE  /\ consumer'.at = "polling" /\ consumer'.batch = <<>> /\ consumer' \in Consumers
           /\ \E i \in DOMAIN consumer.batch :
                 LET m == consumer.batch[i]
                 IN  /\ m \in Places
                     /\ committed' = [committed EXCEPT ![m.partition] = m.offset + 1]
                     /\ committed'[m.partition] = m.offset + 1
           /\ committed' \in [Partitions -> Nat]
           /\ UNCHANGED <<producerVars, position, groupVars, offered>>
<1> DEFINE i == Len(consumer.batch)
           m == consumer.batch[i]
<1>1. consumer \in Consumers /\ consumer.batch \in Seq(Places)
  BY DEF TopicTypes, Consumers
<1>2. i \in DOMAIN consumer.batch /\ m \in Places
  BY <1>1, ElementOfSeq, EmptySeq, LenProperties
<1>3. /\ committed' = [committed EXCEPT ![m.partition] = m.offset + 1]
      /\ consumer' = PollsAgain /\ UNCHANGED <<producerVars, position, groupVars, offered>>
  BY DEF Commit, Last
<1>4. <<>> \in Seq(Places)
  BY EmptySeq
<1>5. PollsAgain \in Consumers /\ PollsAgain.at = "polling" /\ PollsAgain.batch = <<>>
  BY <1>1, <1>4 DEF PollsAgain, Consumers
<1>6. m.partition \in Partitions /\ m.offset + 1 \in Nat \ {0}
  BY <1>2 DEF Places
<1>7. committed' \in [Partitions -> Nat] /\ committed'[m.partition] = m.offset + 1
  BY <1>3, <1>6 DEF TopicTypes
<1> QED
  BY <1>2, <1>3, <1>5, <1>7

\* A group begins at its commit, or without one at the first offset or behind what
\* is in the partition, which it passes over then.
LEMMA StartsSomewhere ==
    ASSUME TopicTypes, NEW mode, ConsumerStarts(mode)
    PROVE  /\ position' \in [Partitions -> Nat \ {0}] /\ skipped' \in SUBSET Places
           /\ skipped \subseteq skipped'
           /\ \A p \in Partitions :
                 /\ position'[p] = FirstOffset(p)
                 /\ committed[p] # NoCommit => position'[p] = committed[p]
                 /\ committed[p] = NoCommit =>
                       position'[p] = IF reset = "latest" THEN Len(log[p]) + 1 ELSE 1
           /\ \A m \in Places :
                 m \in skipped' <=>
                     \/ m \in skipped
                     \/ committed[m.partition] = NoCommit /\ m.offset < position'[m.partition]
<1>1. \A p \in Partitions : Len(log[p]) \in Nat /\ committed[p] \in Nat
  BY LenProperties DEF TopicTypes
<1>2. \A p \in Partitions : FirstOffset(p) \in Nat \ {0}
  BY <1>1 DEF FirstOffset, NoCommit
<1>3. /\ position' = [p \in Partitions |-> FirstOffset(p)]
      /\ skipped' = skipped \cup UNION {PassedOver(p) : p \in Partitions}
  BY DEF ConsumerStarts
<1>4. ASSUME NEW p \in Partitions, NEW m
      PROVE  m \in PassedOver(p) <=>
                 m \in Places /\ m.partition = p /\ committed[p] = NoCommit /\ m.offset < FirstOffset(p)
  <2>1. CASE committed[p] # NoCommit
    BY <2>1 DEF PassedOver
  <2>2. CASE committed[p] = NoCommit
    <3>1. PassedOver(p) = {[partition |-> p, offset |-> o] : o \in 1 .. FirstOffset(p) - 1}
      BY <2>2 DEF PassedOver
    <3>2. ASSUME m \in PassedOver(p)
          PROVE  m \in Places /\ m.partition = p /\ m.offset < FirstOffset(p)
      <4>1. PICK o \in 1 .. FirstOffset(p) - 1 : m = [partition |-> p, offset |-> o]
        BY <3>1, <3>2
      <4>2. o \in Nat \ {0} /\ o < FirstOffset(p)
        BY <1>2, <4>1
      <4> QED
        BY <4>1, <4>2 DEF Places
    <3>3. ASSUME m \in Places, m.partition = p, m.offset < FirstOffset(p)
          PROVE  m \in PassedOver(p)
      <4>1. m.offset \in Nat \ {0} /\ m = [partition |-> p, offset |-> m.offset]
        BY <3>3 DEF Places
      <4>2. m.offset \in 1 .. FirstOffset(p) - 1
        BY <1>2, <3>3, <4>1
      <4> QED
        BY <3>1, <4>1, <4>2
    <3> QED
      BY <2>2, <3>2, <3>3
  <2> QED
    BY <2>1, <2>2
<1>5. \A p \in Partitions : position'[p] = FirstOffset(p)
  BY <1>3
<1>6. position' \in [Partitions -> Nat \ {0}]
  BY <1>2, <1>3
<1>7. skipped' \in SUBSET Places /\ skipped \subseteq skipped'
  BY <1>3, <1>4 DEF TopicTypes
<1>8. ASSUME NEW m \in Places
      PROVE  m \in skipped' <=>
                 \/ m \in skipped
                 \/ committed[m.partition] = NoCommit /\ m.offset < position'[m.partition]
  <2>1. m.partition \in Partitions
    BY DEF Places
  <2>2. m \in UNION {PassedOver(p) : p \in Partitions} <=> m \in PassedOver(m.partition)
    BY <1>4, <2>1
  <2> QED
    BY <1>3, <1>4, <1>5, <2>1, <2>2
<1> QED
  BY <1>5, <1>6, <1>7, <1>8 DEF FirstOffset

\* What a step is: one of those that move messages or engines, or one that leaves
\* queue, log, engines and all of the consumer as they are.
Quiet ==
    /\ UNCHANGED <<queue, log, consumerVars, engines>>
    /\ \/ relay' = relay /\ registered' = registered
       \/ relay' = RelayIs("idle") /\ registered' = registered
       \/ RelayEnds \/ Tick \/ (\E s \in Keys : NextChannel(s)) \/ ChannelEmpty

ConsumerMoves ==
    \/ \E mode \in Modes : ConsumerStarts(mode)
    \/ Crash \/ ConsumerEnds \/ BatchTimeout \/ Handle \/ Commit \/ CommitFails
    \/ \E p \in Partitions : Poll(p)

LEMMA StepsAre ==
    ASSUME [Next]_vars
    PROVE  \/ (Deliver \/ DeliveryFails) /\ UNCHANGED pipeVars
           \/ \E s \in Keys : ProduceMessageSync(Probe(s)) /\ UNCHANGED pipeVars
           \/ ConsumerMoves /\ UNCHANGED pipeVars
           \/ \E s \in Keys : Order(s)
           \/ Relay \/ StopReturns \/ Quiet
<1> USE DEF Quiet, topicVars, producerVars, consumerVars, groupVars, pipeVars, vars
<1>1. CASE UNCHANGED vars
  BY <1>1
<1>2. CASE TopicNext /\ UNCHANGED pipeVars
  BY <1>2 DEF TopicNext, ConsumerStep, ConsumerMoves, SyncGivesUp
<1>3. CASE Start \/ CancelStart \/ Stop \/ MarketEnds \/ MarketPanics
  BY <1>3 DEF Start, CancelStart, Stop, MarketEnds, MarketPanics
<1>4. CASE RelayEnds \/ Tick \/ (\E s \in Keys : NextChannel(s)) \/ ChannelEmpty
  BY <1>4 DEF RelayEnds, Tick, NextChannel, ChannelEmpty
<1> QED
  BY <1>1, <1>2, <1>3, <1>4 DEF Next, RelayStep

\* every step keeps the types
LEMMA TypesStep ==
    ASSUME TopicTypes, PipeTypes, ReadOn, [Next]_vars
    PROVE  TopicTypes' /\ PipeTypes'
<1> USE DEF consumerVars, producerVars, groupVars
<1>1. CASE Deliver /\ UNCHANGED pipeVars
  <2>1. /\ log' \in [Partitions -> Seq(Messages)] /\ queue' \in Seq(Messages) /\ UNCHANGED consumerVars
    BY <1>1, DeliverAppends, HeadOfQueue
  <2> QED
    BY <1>1, <2>1 DEF TopicTypes, PipeTypes, pipeVars
<1>2. CASE DeliveryFails /\ UNCHANGED pipeVars
  <2>1. queue' \in Seq(Messages) /\ UNCHANGED <<log, consumerVars>>
    BY <1>2, HeadOfQueue DEF DeliveryFails
  <2> QED
    BY <1>2, <2>1 DEF TopicTypes, PipeTypes, pipeVars
<1>3. CASE \E s \in Keys : ProduceMessageSync(Probe(s)) /\ UNCHANGED pipeVars
  <2>1. PICK s \in Keys : ProduceMessageSync(Probe(s)) /\ UNCHANGED pipeVars
    BY <1>3
  <2>2. Probe(s) \in Messages
    BY DEF Probe, Event, Messages
  <2>3. queue' \in Seq(Messages) /\ UNCHANGED <<log, consumerVars>>
    BY <2>1, <2>2, EnqueueOne DEF ProduceMessageSync, Enqueue
  <2> QED
    BY <2>1, <2>3 DEF TopicTypes, PipeTypes, pipeVars
<1>4. CASE ConsumerMoves /\ UNCHANGED pipeVars
  <2>1. PipeTypes'
    BY <1>4 DEF PipeTypes, pipeVars
  <2>2. CASE \E mode \in Modes : ConsumerStarts(mode)
    <3>1. PICK mode \in Modes : ConsumerStarts(mode)
      BY <2>2
    <3>2. <<>> \in Seq(Places)
      BY EmptySeq
    <3>3. [Nobody EXCEPT !.at = "polling", !.mode = mode] \in Consumers
      BY <3>2 DEF Nobody, Consumers
    <3>4. position' \in [Partitions -> Nat \ {0}] /\ skipped' \in SUBSET Places
      BY <3>1, StartsSomewhere
    <3> QED
      BY <2>1, <3>1, <3>3, <3>4 DEF ConsumerStarts, TopicTypes
  <2>3. CASE Crash \/ ConsumerEnds
    <3>1. <<>> \in Seq(Places)
      BY EmptySeq
    <3>2. Nobody \in Consumers
      BY <3>1 DEF Nobody, Consumers
    <3> QED
      BY <2>1, <2>3, <3>2 DEF Crash, ConsumerEnds, TopicTypes
  <2>4. CASE BatchTimeout
    <3>1. [consumer EXCEPT !.at = "handling"] \in Consumers
      BY DEF TopicTypes, Consumers
    <3> QED
      BY <2>1, <2>4, <3>1 DEF BatchTimeout, TopicTypes
  <2>5. CASE Handle
    BY <2>1, <2>5, HandleOffers DEF TopicTypes
  <2>6. CASE Commit \/ CommitFails
    <3>1. <<>> \in Seq(Places)
      BY EmptySeq
    <3>2. PollsAgain \in Consumers
      BY <3>1 DEF PollsAgain, TopicTypes, Consumers
    <3>3. CASE CommitFails
      BY <2>1, <3>2, <3>3 DEF CommitFails, TopicTypes
    <3>4. CASE Commit
      <4>1. committed' \in [Partitions -> Nat]
        BY <3>4, CommitMoves DEF ReadOn, Commit
      <4> QED
        BY <2>1, <3>2, <3>4, <4>1 DEF Commit, TopicTypes
    <3> QED
      BY <2>6, <3>3, <3>4
  <2>7. CASE \E p \in Partitions : Poll(p)
    <3>1. PICK p \in Partitions : Poll(p)
      BY <2>7
    <3>2. consumer' \in Consumers
      BY <3>1, PollExtendsBatch
    <3>3. position' \in [Partitions -> Nat \ {0}] /\ UNCHANGED <<producerVars, committed, groupVars, offered>>
      BY <3>1 DEF Poll, TopicTypes
    <3> QED
      BY <2>1, <3>2, <3>3 DEF TopicTypes
  <2> QED
    BY <1>4, <2>2, <2>3, <2>4, <2>5, <2>6, <2>7 DEF ConsumerMoves
<1>5. CASE \E s \in Keys : Order(s)
  <2>1. PICK s \in Keys : Order(s)
    BY <1>5
  <2>2. /\ DOMAIN engines' = DOMAIN engines \cup {s}
        /\ engines' \in [DOMAIN engines' -> Engines]
        /\ UNCHANGED <<queue, log, consumerVars, relay>>
        /\ registered' \subseteq registered \cup {s}
    BY <2>1, OrderEmits
  <2> QED
    BY <2>2 DEF TopicTypes, PipeTypes
<1>6. CASE Relay
  <2>1. /\ relay.symbol \in DOMAIN engines
        /\ DOMAIN engines' = DOMAIN engines
        /\ engines' \in [DOMAIN engines' -> Engines]
        /\ UNCHANGED <<log, consumerVars, registered, relay>>
        /\ engines[relay.symbol].channel \in Seq(Messages) /\ engines[relay.symbol].channel # <<>>
        /\ queue' \in {queue, Append(queue, Head(engines[relay.symbol].channel))}
    BY <1>6, RelayTakes
  <2>2. Head(engines[relay.symbol].channel) \in Messages
    BY <2>1, TailIsShifted
  <2>3. queue' \in Seq(Messages)
    BY <2>1, <2>2, EnqueueOne DEF TopicTypes
  <2> QED
    BY <2>1, <2>3 DEF TopicTypes, PipeTypes
<1>7. CASE StopReturns
  <2>1. /\ DOMAIN engines' = DOMAIN engines
        /\ engines' \in [DOMAIN engines' -> Engines]
        /\ UNCHANGED <<queue, log, consumerVars, registered, relay>>
    BY <1>7, StopCloses
  <2> QED
    BY <2>1 DEF TopicTypes, PipeTypes
<1>8. CASE Quiet
  <2>1. TopicTypes'
    BY <1>8 DEF Quiet, TopicTypes
  <2>2. UNCHANGED engines /\ registered' \subseteq registered
    BY <1>8 DEF Quiet, RelayEnds, Tick, NextChannel, ChannelEmpty
  <2> DEFINE Relays == [at : {"off", "idle", "draining", "ended"},
                        todo : SUBSET DOMAIN engines, symbol : DOMAIN engines \cup {None}]
  <2>3. relay \in Relays /\ registered \subseteq DOMAIN engines
    BY DEF PipeTypes
  <2>4. relay' \in Relays
    <3>1. CASE relay' = relay \/ relay' = RelayIs("idle") \/ RelayEnds
      BY <2>3, <3>1 DEF RelayEnds, RelayIs
    <3>2. CASE Tick
      BY <2>3, <3>2 DEF Tick, RelayIs
    <3>3. CASE \E s \in Keys : NextChannel(s)
      BY <2>3, <3>3 DEF NextChannel
    <3>4. CASE ChannelEmpty
      BY <2>3, <3>4 DEF ChannelEmpty, RelayDone, RelayIs
    <3> QED
      BY <1>8, <3>1, <3>2, <3>3, <3>4 DEF Quiet
  <2> QED
    BY <2>1, <2>2, <2>3, <2>4 DEF PipeTypes
<1> QED
  BY <1>1, <1>2, <1>3, <1>4, <1>5, <1>6, <1>7, <1>8, StepsAre

-----------------------------------------------------------------------------
(* What handlers saw.                                                       *)

LEMMA BatchHoldsPlaces ==
    ASSUME TopicTypes
    PROVE  \A i \in DOMAIN consumer.batch : consumer.batch[i] \in Places /\ i \in Nat
<1>1. consumer.batch \in Seq(Places)
  BY DEF TopicTypes, Consumers
<1> QED
  BY <1>1, ElementOfSeq, LenProperties

\* a poll hands over the next message of a partition
LEMMA PollReadsOn ==
    ASSUME TopicTypes, ReadInv, NEW p \in Partitions, Poll(p)
    PROVE  ReadInv'
<1> DEFINE m == Polled(p)
           n == Len(consumer.batch) + 1
<1>1. /\ m \in Places /\ m.partition = p /\ m.offset = position[p]
      /\ \A l \in Places : l.partition = p /\ l.offset = position[p] => l = m
  <2>1. m \in Places
    BY PollExtendsBatch
  <2>2. m.partition = p /\ m.offset = position[p]
    BY DEF Polled
  <2>3. ASSUME NEW l \in Places, l.partition = p, l.offset = position[p]
        PROVE  l = m
    <3>1. l = [partition |-> l.partition, offset |-> l.offset]
      BY DEF Places
    <3> QED
      BY <2>3, <3>1 DEF Polled
  <2> QED
    BY <2>1, <2>2, <2>3
<1>2. consumer.batch \in Seq(Places)
  BY DEF TopicTypes, Consumers
<1>3. /\ DOMAIN consumer'.batch = DOMAIN consumer.batch \cup {n} /\ consumer'.batch[n] = m
      /\ \A i \in DOMAIN consumer.batch : consumer'.batch[i] = consumer.batch[i] /\ i < n /\ i \in Nat
  <2> HIDE DEF m
  <2>1. consumer'.batch = Append(consumer.batch, m)
    BY PollExtendsBatch DEF m
  <2> QED
    BY <1>1, <1>2, <2>1, AppendIsOneMore
<1>4. /\ UNCHANGED <<log, committed, reset, skipped, offered>>
      /\ consumer.at = "polling" /\ position[p] <= Len(log[p])
      /\ position' = [position EXCEPT ![p] = position[p] + 1]
      /\ consumer'.at \in {"polling", "handling"}
  BY PollExtendsBatch DEF Poll, producerVars, groupVars
<1>5. /\ position'[p] = position[p] + 1 /\ \A q \in Partitions \ {p} : position'[q] = position[q]
      /\ \A q \in Partitions : position[q] \in Nat /\ position'[q] \in Nat /\ position[q] <= position'[q]
  BY <1>4 DEF TopicTypes
<1>6. n \in Nat \ {0}
  BY <1>2, LenProperties
<1>7. \A i \in DOMAIN consumer.batch : consumer.batch[i] \in Places
  BY BatchHoldsPlaces
<1> HIDE DEF m, n
<1>8. ReadOn'
  <2>1. ASSUME NEW l \in Places, l.offset < position'[l.partition]
        PROVE  l \in offered \cup skipped \/ InBatch(l)'
    <3>1. CASE l = m
      BY <1>3, <3>1 DEF InBatch
    <3>2. CASE l # m
      <4>1. l.partition \in Partitions /\ l.offset \in Nat
        BY DEF Places
      <4>2. l.offset < position[l.partition]
        BY <1>1, <1>5, <2>1, <3>2, <4>1
      <4>3. l \in offered \cup skipped \/ InBatch(l)
        BY <1>4, <4>2 DEF ReadInv, ReadOn
      <4> QED
        BY <1>3, <4>3 DEF InBatch
    <3> QED
      BY <3>1, <3>2
  <2>2. consumer'.batch # <<>>
    BY <1>3, EmptySeq
  <2> QED
    BY <1>4, <2>1, <2>2 DEF ReadOn
<1>9. BatchInOrder'
  <2>1. ASSUME NEW i \in DOMAIN consumer'.batch
        PROVE  consumer'.batch[i].offset < position'[consumer'.batch[i].partition]
    <3>1. CASE i = n
      BY <1>1, <1>3, <1>5, <3>1
    <3>2. CASE i \in DOMAIN consumer.batch
      <4>1. consumer.batch[i].offset < position[consumer.batch[i].partition]
        BY <3>2 DEF ReadInv, BatchInOrder
      <4>2. consumer.batch[i].partition \in Partitions /\ consumer.batch[i].offset \in Nat
        BY <1>7, <3>2 DEF Places
      <4> QED
        BY <1>3, <1>5, <3>2, <4>1, <4>2
    <3> QED
      BY <1>3, <3>1, <3>2
  <2>2. ASSUME NEW i \in DOMAIN consumer'.batch, NEW j \in DOMAIN consumer'.batch, i < j,
               consumer'.batch[i].partition = consumer'.batch[j].partition
        PROVE  consumer'.batch[i].offset < consumer'.batch[j].offset
    <3>1. i \in DOMAIN consumer.batch /\ consumer'.batch[i] = consumer.batch[i]
      BY <1>3, <1>6, <2>2
    <3>2. CASE j = n
      <4>1. consumer.batch[i].offset < position[consumer.batch[i].partition]
        BY <3>1 DEF ReadInv, BatchInOrder
      <4> QED
        BY <1>1, <1>3, <2>2, <3>1, <3>2, <4>1
    <3>3. CASE j \in DOMAIN consumer.batch
      BY <1>3, <2>2, <3>1, <3>3 DEF ReadInv, BatchInOrder
    <3> QED
      BY <1>3, <3>2, <3>3
  <2> QED
    BY <2>1, <2>2 DEF BatchInOrder
<1>10. WithinLog'
  <2>1. \A q \in Partitions : position'[q] <= Len(log[q]) + 1
    <3>1. Len(log[p]) \in Nat /\ position[p] \in Nat
      BY LenProperties DEF TopicTypes
    <3> QED
      BY <1>4, <1>5, <3>1 DEF ReadInv, WithinLog
  <2> QED
    BY <1>4, <2>1 DEF ReadInv, WithinLog
<1>11. OfferedFromTheStart' /\ CommittedWereOffered'
  BY <1>4 DEF ReadInv, OfferedFromTheStart, CommittedWereOffered
<1>12. SkippedIsBehind'
  <2>1. ASSUME NEW l \in skipped
        PROVE  /\ l.offset < position[l.partition] /\ l.offset < position'[l.partition]
               /\ \A i \in DOMAIN consumer'.batch :
                     consumer'.batch[i].partition = l.partition => l.offset < consumer'.batch[i].offset
    <3>1. l.partition \in Partitions /\ l.offset \in Nat
      BY DEF TopicTypes, Places
    <3>2. l.offset < position[l.partition]
      BY <1>4, <2>1 DEF ReadInv, SkippedIsBehind
    <3>3. l.offset < position'[l.partition]
      BY <1>5, <3>1, <3>2
    <3>4. ASSUME NEW i \in DOMAIN consumer'.batch, consumer'.batch[i].partition = l.partition
          PROVE  l.offset < consumer'.batch[i].offset
      <4>1. CASE i = n
        BY <1>1, <1>3, <3>2, <3>4, <4>1
      <4>2. CASE i \in DOMAIN consumer.batch
        BY <1>3, <2>1, <3>4, <4>2 DEF ReadInv, SkippedIsBehind
      <4> QED
        BY <1>3, <4>1, <4>2
    <3> QED
      BY <3>2, <3>3, <3>4
  <2> QED
    BY <1>4, <2>1 DEF ReadInv, SkippedIsBehind
<1> QED
  BY <1>8, <1>9, <1>10, <1>11, <1>12 DEF ReadInv

\* a handler is called with all there is between what handlers saw and the position
LEMMA HandleReadsOn ==
    ASSUME TopicTypes, ReadInv, Handle
    PROVE  ReadInv'
<1>1. /\ \A m : m \in offered' <=> m \in offered \/ InBatch(m)
      /\ offered' \in SUBSET Places
      /\ \/ consumer'.at = "polling" /\ consumer'.batch = <<>>
         \/ consumer'.at = "committing" /\ consumer'.batch = consumer.batch
      /\ UNCHANGED <<log, position, committed, reset, skipped>> /\ consumer.at = "handling"
  BY HandleOffers DEF Handle, producerVars, groupVars
<1>2. DOMAIN <<>> = {}
  BY EmptySeq
<1>3. \A i \in DOMAIN consumer.batch : consumer.batch[i] \in Places
  BY BatchHoldsPlaces
<1>4. ReadOn'
  <2>1. \A m \in Places : m.offset < position[m.partition] => m \in offered' \cup skipped
    BY <1>1 DEF ReadInv, ReadOn
  <2>2. consumer'.at = "committing" =>
           consumer'.batch # <<>> /\ \A i \in DOMAIN consumer'.batch : consumer'.batch[i] \in offered'
    BY <1>1 DEF ReadInv, ReadOn, InBatch
  <2> QED
    BY <1>1, <2>1, <2>2 DEF ReadOn
<1>5. BatchInOrder'
  BY <1>1, <1>2 DEF ReadInv, BatchInOrder
<1>6. ASSUME NEW m \in Places, InBatch(m)
      PROVE  m.offset < position[m.partition]
  BY <1>6 DEF ReadInv, BatchInOrder, InBatch
<1>7. WithinLog'
  <2>1. ASSUME NEW m \in offered'
        PROVE  m.offset <= Len(log[m.partition])
    <3>1. CASE m \in offered
      BY <3>1 DEF ReadInv, WithinLog
    <3>2. CASE m \notin offered
      <4>1. m \in Places /\ m.offset < position[m.partition]
        BY <1>1, <1>6, <3>2
      <4>2. m.partition \in Partitions /\ m.offset \in Nat
        BY <4>1 DEF Places
      <4>3. position[m.partition] \in Nat /\ Len(log[m.partition]) \in Nat
        BY <4>2, LenProperties DEF TopicTypes
      <4>4. position[m.partition] <= Len(log[m.partition]) + 1
        BY <4>2 DEF ReadInv, WithinLog
      <4> QED
        BY <4>1, <4>2, <4>3, <4>4
    <3> QED
      BY <3>1, <3>2
  <2> QED
    BY <1>1, <2>1 DEF ReadInv, WithinLog
<1>8. OfferedFromTheStart'
  <2>1. ASSUME NEW m \in offered', NEW l \in Places, l.partition = m.partition, l.offset < m.offset
        PROVE  l \in offered' \cup skipped'
    <3>1. CASE m \in offered
      BY <1>1, <2>1, <3>1 DEF ReadInv, OfferedFromTheStart
    <3>2. CASE m \notin offered
      <4>1. m \in Places /\ m.offset < position[m.partition]
        BY <1>1, <1>6, <3>2
      <4>2. position[m.partition] \in Nat /\ m.offset \in Nat /\ l.offset \in Nat
        BY <4>1 DEF Places, TopicTypes
      <4>3. l.offset < position[l.partition]
        BY <2>1, <4>1, <4>2
      <4> QED
        BY <1>1, <4>3 DEF ReadInv, ReadOn
    <3> QED
      BY <3>1, <3>2
  <2> QED
    BY <2>1 DEF OfferedFromTheStart
<1>9. CommittedWereOffered'
  BY <1>1 DEF ReadInv, CommittedWereOffered
<1>10. SkippedIsBehind'
  BY <1>1, <1>2 DEF ReadInv, SkippedIsBehind
<1> QED
  BY <1>4, <1>5, <1>7, <1>8, <1>9, <1>10 DEF ReadInv

\* a commit comes after the handler, and is not beyond the position
LEMMA CommitReadsOn ==
    ASSUME TopicTypes, ReadInv, Commit
    PROVE  ReadInv'
<1>1. consumer.at = "committing" /\ consumer.batch # <<>>
  BY DEF Commit, ReadInv, ReadOn
<1>2. /\ consumer'.at = "polling" /\ consumer'.batch = <<>>
      /\ UNCHANGED <<log, position, reset, skipped, offered>>
  BY <1>1, CommitMoves DEF producerVars, groupVars
<1>3. PICK i \in DOMAIN consumer.batch :
         LET m == consumer.batch[i]
         IN  m \in Places /\ committed' = [committed EXCEPT ![m.partition] = m.offset + 1]
  BY <1>1, CommitMoves
<1> DEFINE m == consumer.batch[i]
<1>4. m \in offered /\ m \in Places /\ m.offset < position[m.partition]
  BY <1>1, <1>3 DEF ReadInv, ReadOn, BatchInOrder
<1>5. m.partition \in Partitions /\ m.offset \in Nat \ {0}
  BY <1>3 DEF Places
<1>6. committed'[m.partition] = m.offset + 1 /\ \A q \in Partitions \ {m.partition} : committed'[q] = committed[q]
  BY <1>3, <1>5 DEF TopicTypes
<1> HIDE DEF m
<1>7. DOMAIN <<>> = {}
  BY EmptySeq
<1>8. ReadOn' /\ BatchInOrder' /\ OfferedFromTheStart'
  <2>1. \A l \in Places : l.offset < position[l.partition] => l \in offered \cup skipped
    BY <1>1 DEF ReadInv, ReadOn, InBatch
  <2> QED
    BY <1>2, <1>7, <2>1 DEF ReadInv, ReadOn, BatchInOrder, OfferedFromTheStart
<1>9. WithinLog'
  <2>1. m.offset + 1 <= Len(log[m.partition]) + 1
    <3>1. position[m.partition] <= Len(log[m.partition]) + 1
      BY <1>5 DEF ReadInv, WithinLog
    <3>2. position[m.partition] \in Nat /\ Len(log[m.partition]) \in Nat
      BY <1>5, LenProperties DEF TopicTypes
    <3> QED
      BY <1>4, <1>5, <3>1, <3>2
  <2> QED
    BY <1>2, <1>6, <2>1 DEF ReadInv, WithinLog
<1>10. CommittedWereOffered'
  <2>1. ASSUME NEW p \in Partitions, NEW o \in 1 .. committed'[p] - 1
        PROVE  [partition |-> p, offset |-> o] \in offered \cup skipped
    <3> DEFINE l == [partition |-> p, offset |-> o]
    <3>1. CASE p # m.partition
      BY <1>6, <2>1, <3>1 DEF ReadInv, CommittedWereOffered
    <3>2. CASE p = m.partition
      <4>1. o \in Nat \ {0} /\ o <= m.offset
        BY <1>5, <1>6, <2>1, <3>2
      <4>2. l \in Places /\ l.partition = p /\ l.offset = o
        BY <4>1 DEF Places
      <4>3. CASE o = m.offset
        <5>1. l = m
          BY <1>4, <3>2, <4>2, <4>3 DEF Places
        <5> QED
          BY <1>4, <5>1
      <4>4. CASE o < m.offset
        <5> HIDE DEF l
        <5> QED
          BY <1>4, <3>2, <4>2, <4>4 DEF ReadInv, OfferedFromTheStart, l
      <4> QED
        BY <1>5, <4>1, <4>3, <4>4
    <3> QED
      BY <3>1, <3>2
  <2> QED
    BY <1>2, <2>1 DEF CommittedWereOffered
<1>11. SkippedIsBehind'
  <2>1. ASSUME NEW l \in skipped
        PROVE  committed'[l.partition] # NoCommit => l.offset < committed'[l.partition]
    <3>1. l.partition \in Partitions /\ l.offset \in Nat
      BY DEF TopicTypes, Places
    <3>2. CASE l.partition = m.partition
      <4>1. l.offset < m.offset
        BY <1>3, <2>1, <3>2 DEF ReadInv, SkippedIsBehind, m
      <4> QED
        BY <1>5, <1>6, <3>1, <3>2, <4>1
    <3>3. CASE l.partition # m.partition
      BY <1>6, <2>1, <3>1, <3>3 DEF ReadInv, SkippedIsBehind
    <3> QED
      BY <3>2, <3>3
  <2>2. consumer.at # "down"
    BY <1>1
  <2> QED
    BY <1>2, <1>7, <2>1, <2>2 DEF ReadInv, SkippedIsBehind
<1> QED
  BY <1>8, <1>9, <1>10, <1>11 DEF ReadInv

\* A start reads on from the commits, and what lies before where it begins without
\* one is passed over.
LEMMA StartReadsOn ==
    ASSUME TopicTypes, ReadInv, NEW mode, ConsumerStarts(mode)
    PROVE  ReadInv'
<1>1. /\ UNCHANGED <<log, committed, reset, offered>>
      /\ consumer'.at = "polling" /\ consumer'.batch = <<>>
  BY DEF ConsumerStarts, Nobody, producerVars
<1>2. DOMAIN <<>> = {}
  BY EmptySeq
<1>3. \A p \in Partitions : Len(log[p]) \in Nat /\ committed[p] \in Nat
  BY LenProperties DEF TopicTypes
<1>4. /\ position' \in [Partitions -> Nat \ {0}] /\ skipped' \in SUBSET Places
      /\ skipped \subseteq skipped'
      /\ \A p \in Partitions :
            /\ committed[p] # NoCommit => position'[p] = committed[p]
            /\ committed[p] = NoCommit => position'[p] = IF reset = "latest" THEN Len(log[p]) + 1 ELSE 1
      /\ \A m \in Places :
            m \in skipped' <=>
                m \in skipped \/ (committed[m.partition] = NoCommit /\ m.offset < position'[m.partition])
  BY StartsSomewhere
<1>5. \A m \in Places : m.partition \in Partitions /\ m.offset \in Nat \ {0}
  BY DEF Places
<1>6. ASSUME NEW m \in Places, m.offset < position'[m.partition]
      PROVE  m \in offered \cup skipped'
  <2>1. CASE committed[m.partition] = NoCommit
    BY <1>4, <1>6, <2>1
  <2>2. CASE committed[m.partition] # NoCommit
    <3> DEFINE l == [partition |-> m.partition, offset |-> m.offset]
    <3>1. m = l
      BY DEF Places
    <3>2. m.offset \in 1 .. committed[m.partition] - 1
      BY <1>3, <1>4, <1>5, <1>6, <2>2
    <3>3. l \in offered \cup skipped
      BY <1>5, <3>2 DEF ReadInv, CommittedWereOffered
    <3> QED
      BY <1>4, <3>1, <3>3
  <2> QED
    BY <2>1, <2>2
<1>7. ReadOn'
  BY <1>1, <1>6 DEF ReadOn
<1>8. BatchInOrder'
  BY <1>1, <1>2 DEF BatchInOrder
<1>9. WithinLog'
  <2>1. ASSUME NEW p \in Partitions
        PROVE  position'[p] <= Len(log[p]) + 1
    BY <1>3, <1>4 DEF ReadInv, WithinLog
  <2> QED
    BY <1>1, <2>1 DEF ReadInv, WithinLog
<1>10. OfferedFromTheStart' /\ CommittedWereOffered'
  BY <1>1, <1>4 DEF ReadInv, OfferedFromTheStart, CommittedWereOffered
<1>11. SkippedIsBehind'
  <2>1. ASSUME NEW m \in skipped'
        PROVE  /\ reset = "latest"
               /\ m.offset <= Len(log[m.partition])
               /\ committed[m.partition] # NoCommit => m.offset < committed[m.partition]
               /\ m.offset < position'[m.partition]
    <3>1. m \in Places /\ m.partition \in Partitions /\ m.offset \in Nat \ {0}
      BY <1>4, <1>5, <2>1
    <3>2. CASE m \in skipped
      <4>1. /\ reset = "latest" /\ m.offset <= Len(log[m.partition])
            /\ committed[m.partition] # NoCommit => m.offset < committed[m.partition]
        BY <3>2 DEF ReadInv, SkippedIsBehind
      <4>2. m.offset < position'[m.partition]
        BY <1>3, <1>4, <3>1, <4>1
      <4> QED
        BY <4>1, <4>2
    <3>3. CASE m \notin skipped
      <4>1. committed[m.partition] = NoCommit /\ m.offset < position'[m.partition]
        BY <1>4, <2>1, <3>1, <3>3
      <4>2. reset = "latest" /\ position'[m.partition] = Len(log[m.partition]) + 1
        BY <1>4, <3>1, <4>1
      <4> QED
        BY <1>3, <3>1, <4>1, <4>2
    <3> QED
      BY <3>2, <3>3
  <2> QED
    BY <1>1, <1>2, <2>1 DEF SkippedIsBehind
<1> QED
  BY <1>7, <1>8, <1>9, <1>10, <1>11 DEF ReadInv

\* every step keeps what handlers saw in step with the position
LEMMA ReadStep ==
    ASSUME TopicTypes, PipeTypes, ReadInv, [Next]_vars
    PROVE  ReadInv'
<1> USE DEF consumerVars, producerVars, groupVars
<1>1. CASE UNCHANGED <<log, consumerVars>>
  BY <1>1 DEF ReadInv, ReadOn, BatchInOrder, WithinLog, OfferedFromTheStart, SkippedIsBehind,
              CommittedWereOffered, InBatch
<1>2. CASE Deliver
  <2> DEFINE p == PartitionOf[Head(queue).key]
  <2>1. /\ p \in Partitions /\ Head(queue) \in Messages /\ log'[p] = Append(log[p], Head(queue))
        /\ \A q \in Partitions \ {p} : log'[q] = log[q]
        /\ UNCHANGED consumerVars
    BY <1>2, DeliverAppends
  <2>2. log[p] \in Seq(Messages)
    BY <2>1 DEF TopicTypes
  <2> HIDE DEF p
  <2>3. Len(log'[p]) = Len(log[p]) + 1 /\ Len(log[p]) \in Nat
    BY <2>1, <2>2, AppendProperties, LenProperties
  <2>4. \A q \in Partitions : Len(log[q]) <= Len(log'[q]) /\ Len(log[q]) \in Nat /\ Len(log'[q]) \in Nat
    <3>1. \A q \in Partitions : Len(log[q]) \in Nat
      BY LenProperties DEF TopicTypes
    <3>2. \A q \in Partitions : q = p \/ log'[q] = log[q]
      BY <2>1
    <3> QED
      BY <2>3, <3>1, <3>2
  <2>5. WithinLog'
    <3>1. \A q \in Partitions : position[q] <= Len(log'[q]) + 1 /\ committed[q] <= Len(log'[q]) + 1
      <4>1. \A q \in Partitions : position[q] \in Nat /\ committed[q] \in Nat
        BY DEF TopicTypes
      <4> QED
        BY <2>4, <4>1 DEF ReadInv, WithinLog
    <3>2. \A m \in offered : m.offset <= Len(log'[m.partition])
      <4>1. \A m \in offered : m.offset \in Nat /\ m.partition \in Partitions
        BY DEF TopicTypes, Places
      <4> QED
        BY <2>4, <4>1 DEF ReadInv, WithinLog
    <3> QED
      BY <2>1, <3>1, <3>2 DEF WithinLog
  <2>6. SkippedIsBehind'
    <3>1. \A m \in skipped : m.offset <= Len(log'[m.partition])
      <4>1. \A m \in skipped : m.offset \in Nat /\ m.partition \in Partitions
        BY DEF TopicTypes, Places
      <4> QED
        BY <2>4, <4>1 DEF ReadInv, SkippedIsBehind
    <3> QED
      BY <2>1, <3>1 DEF ReadInv, SkippedIsBehind
  <2> QED
    BY <2>1, <2>5, <2>6 DEF ReadInv, ReadOn, BatchInOrder, OfferedFromTheStart, CommittedWereOffered, InBatch
<1>3. CASE ConsumerMoves
  <2>1. DOMAIN <<>> = {}
    BY EmptySeq
  <2>2. CASE \E mode \in Modes : ConsumerStarts(mode)
    BY <2>2, StartReadsOn
  <2>3. CASE Crash \/ ConsumerEnds
    <3>1. UNCHANGED <<log, position, committed, reset, skipped, offered>> /\ consumer'.at = "down" /\ consumer'.batch = <<>>
      BY <2>3 DEF Crash, ConsumerEnds, Nobody
    <3> QED
      BY <2>1, <3>1 DEF ReadInv, ReadOn, BatchInOrder, WithinLog, OfferedFromTheStart, SkippedIsBehind,
                       CommittedWereOffered
  <2>4. CASE BatchTimeout
    <3>1. /\ UNCHANGED <<log, position, committed, reset, skipped, offered>>
          /\ consumer'.at = "handling" /\ consumer'.batch = consumer.batch
          /\ consumer.at = "polling" /\ consumer.batch # <<>>
      BY <2>4 DEF BatchTimeout, TopicTypes, Consumers
    <3> QED
      BY <3>1 DEF ReadInv, ReadOn, BatchInOrder, WithinLog, OfferedFromTheStart, SkippedIsBehind,
                  CommittedWereOffered, InBatch
  <2>5. CASE CommitFails
    <3>1. /\ UNCHANGED <<log, position, committed, reset, skipped, offered>>
          /\ consumer'.at = "polling" /\ consumer'.batch = <<>> /\ consumer.at = "committing"
      BY <2>5 DEF CommitFails, PollsAgain, TopicTypes, Consumers
    <3>2. \A m \in Places : m.offset < position[m.partition] => m \in offered \cup skipped
      BY <3>1 DEF ReadInv, ReadOn, InBatch
    <3> QED
      BY <2>1, <3>1, <3>2 DEF ReadInv, ReadOn, BatchInOrder, WithinLog, OfferedFromTheStart,
                              SkippedIsBehind, CommittedWereOffered
  <2> QED
    BY <1>3, <2>2, <2>3, <2>4, <2>5, PollReadsOn, HandleReadsOn, CommitReadsOn DEF ConsumerMoves
<1>4. CASE DeliveryFails \/ (\E s \in Keys : ProduceMessageSync(Probe(s)))
  BY <1>1, <1>4 DEF DeliveryFails, ProduceMessageSync
<1>5. CASE (\E s \in Keys : Order(s)) \/ Relay \/ StopReturns \/ Quiet
  BY <1>1, <1>5 DEF Order, Relay, StopReturns, Quiet, topicVars
<1> QED
  BY <1>2, <1>3, <1>4, <1>5, StepsAre

-----------------------------------------------------------------------------
(* The order of events.                                                     *)

\* The head of the queue comes to the end of its partition.
LEMMA DeliverKeepsOrder ==
    ASSUME TopicTypes, OrderInv, Deliver, UNCHANGED pipeVars
    PROVE  OrderInv'
<1> DEFINE e == Head(queue)
           p == PartitionOf[e.key]
<1>1. /\ e \in Messages /\ p \in Partitions /\ queue # <<>> /\ queue' = Tail(queue)
      /\ log'[p] = Append(log[p], e) /\ \A q \in Partitions \ {p} : log'[q] = log[q]
      /\ engines' = engines
  BY DeliverAppends DEF pipeVars
<1>2. queue \in Seq(Messages) /\ log[p] \in Seq(Messages)
  BY <1>1 DEF TopicTypes
<1>3. e.n = 0 \/ (e.key \in DOMAIN engines /\ e.n <= engines[e.key].emitted)
  BY <1>1, <1>2, TailIsShifted DEF OrderInv, QueueInOrder, Emitted
<1> HIDE DEF e, p
<1>4. /\ \A i \in DOMAIN Tail(queue) : Precedes(e, Tail(queue)[i])
      /\ Sorted(Tail(queue)) /\ Emitted(Tail(queue))
      /\ \A g : Before(queue, g) => Before(Tail(queue), g) /\ \A j \in DOMAIN g : Precedes(e, g[j])
      /\ \A g : Before(g, queue) => Before(g, Tail(queue)) /\ \A j \in DOMAIN g : Precedes(g[j], e)
  BY <1>1, <1>2, TailInOrder DEF OrderInv, QueueInOrder, e
<1>5. /\ Sorted(log[p]) /\ Emitted(log[p]) /\ Before(log[p], queue)
  BY <1>1 DEF OrderInv, LogInOrder
<1>6. /\ Sorted(log'[p]) /\ Emitted(log'[p])
      /\ \A g : Before(log[p], g) /\ (\A j \in DOMAIN g : Precedes(e, g[j])) => Before(log'[p], g)
  BY <1>1, <1>2, <1>3, <1>4, <1>5, AppendInOrder
<1>7. LogInOrder'
  <2>1. ASSUME NEW q \in Partitions
        PROVE  Sorted(log'[q]) /\ Emitted(log'[q]) /\ Before(log'[q], Tail(queue))
    <3>1. CASE q = p
      BY <1>4, <1>5, <1>6, <3>1
    <3>2. CASE q # p
      BY <1>1, <1>4, <3>2 DEF OrderInv, LogInOrder
    <3> QED
      BY <3>1, <3>2
  <2> QED
    BY <1>1, <2>1 DEF LogInOrder, Emitted, Sorted, Before
<1>8. KeyHasItsPartition'
  <2> DEFINE n == Len(log[p]) + 1
  <2>1. /\ DOMAIN log'[p] = DOMAIN log[p] \cup {n} /\ log'[p][n] = e
        /\ \A i \in DOMAIN log[p] : log'[p][i] = log[p][i]
    BY <1>1, <1>2, AppendIsOneMore
  <2> HIDE DEF n
  <2>2. PartitionOf[e.key] = p
    BY DEF p
  <2>3. ASSUME NEW q \in Partitions, NEW i \in DOMAIN log'[q]
        PROVE  PartitionOf[log'[q][i].key] = q
    <3>1. CASE q = p
      BY <2>1, <2>2, <2>3, <3>1 DEF OrderInv, KeyHasItsPartition
    <3>2. CASE q # p
      BY <1>1, <2>3, <3>2 DEF OrderInv, KeyHasItsPartition
    <3> QED
      BY <3>1, <3>2
  <2> QED
    BY <2>3 DEF KeyHasItsPartition
<1>9. QueueInOrder'
  BY <1>1, <1>4 DEF QueueInOrder, Sorted, Emitted
<1>10. ChannelsInOrder'
  <2>1. ASSUME NEW s \in DOMAIN engines
        PROVE  /\ Before(Tail(queue), engines[s].channel)
               /\ \A q \in Partitions : Before(log'[q], engines[s].channel)
    <3>1. /\ Before(queue, engines[s].channel)
          /\ \A q \in Partitions : Before(log[q], engines[s].channel)
      BY <2>1 DEF OrderInv, ChannelsInOrder
    <3> QED
      BY <1>1, <1>4, <1>6, <3>1
  <2>2. /\ \A f, g : Before(f, g)' <=> Before(f, g)
    BY DEF Before, Precedes
  <2>3. ASSUME NEW s \in DOMAIN engines
        PROVE  /\ \A i \in DOMAIN engines[s].channel : engines[s].channel[i].key = s /\ engines[s].channel[i].n # 0
               /\ Sorted(engines[s].channel) /\ Emitted(engines[s].channel)
    BY <2>3 DEF OrderInv, ChannelsInOrder
  <2> QED
    BY <1>1, <2>1, <2>2, <2>3 DEF ChannelsInOrder, Emitted, Sorted, Before
<1> QED
  BY <1>7, <1>8, <1>9, <1>10 DEF OrderInv

\* a message that the library gives up
LEMMA DeliveryFailsKeepsOrder ==
    ASSUME TopicTypes, OrderInv, DeliveryFails, UNCHANGED pipeVars
    PROVE  OrderInv'
<1>1. queue # <<>> /\ queue' = Tail(queue) /\ UNCHANGED <<log, engines>>
  BY DEF DeliveryFails, pipeVars
<1>2. queue \in Seq(Messages)
  BY DEF TopicTypes
<1>3. /\ Sorted(Tail(queue)) /\ Emitted(Tail(queue))
      /\ \A g : Before(queue, g) => Before(Tail(queue), g)
      /\ \A g : Before(g, queue) => Before(g, Tail(queue))
  BY <1>1, <1>2, TailInOrder DEF OrderInv, QueueInOrder
<1>4. /\ \A p \in Partitions : Before(log[p], Tail(queue))
      /\ \A s \in DOMAIN engines : Before(Tail(queue), engines[s].channel)
  BY <1>3 DEF OrderInv, LogInOrder, ChannelsInOrder
<1> QED
  BY <1>1, <1>3, <1>4
  DEF OrderInv, LogInOrder, KeyHasItsPartition, QueueInOrder, ChannelsInOrder, Sorted, Emitted, Before

\* a probe, which has no place in the order
LEMMA ProbeKeepsOrder ==
    ASSUME TopicTypes, OrderInv, NEW s \in Keys, ProduceMessageSync(Probe(s)), UNCHANGED pipeVars
    PROVE  OrderInv'
<1> DEFINE e == Probe(s)
<1>1. queue' = Append(queue, e) /\ UNCHANGED <<log, engines>>
  BY DEF ProduceMessageSync, Enqueue, pipeVars
<1>2. e \in Messages /\ e.n = 0
  BY DEF Probe, Event, Messages
<1>3. queue \in Seq(Messages)
  BY DEF TopicTypes
<1> HIDE DEF e
<1>4. \A f : Precedes(e, f) /\ Precedes(f, e)
  BY <1>2 DEF Precedes
<1>5. /\ Sorted(Append(queue, e)) /\ Emitted(Append(queue, e))
      /\ \A g : Before(queue, g) => Before(Append(queue, e), g)
      /\ \A g : Before(g, queue) => Before(g, Append(queue, e))
  BY <1>2, <1>3, <1>4, AppendInOrder DEF OrderInv, QueueInOrder
<1>6. /\ \A p \in Partitions : Before(log[p], Append(queue, e))
      /\ \A t \in DOMAIN engines : Before(Append(queue, e), engines[t].channel)
  BY <1>5 DEF OrderInv, LogInOrder, ChannelsInOrder
<1> QED
  BY <1>1, <1>5, <1>6
  DEF OrderInv, LogInOrder, KeyHasItsPartition, QueueInOrder, ChannelsInOrder, Sorted, Emitted, Before

\* an event numbered after all that its engine emitted
LEMMA OrderKeepsOrder ==
    ASSUME TopicTypes, PipeTypes, OrderInv, NEW s \in Keys, Order(s)
    PROVE  OrderInv'
<1> DEFINE before == getOrCreateMatchingEngine(s)
           n == before.emitted + 1
           e == Event(s, n)
<1>1. /\ before \in Engines /\ n \in Nat \ {0} /\ n > before.emitted
      /\ DOMAIN engines' = DOMAIN engines \cup {s}
      /\ \A t \in DOMAIN engines' \ {s} : t \in DOMAIN engines /\ engines'[t] = engines[t]
      /\ engines'[s].emitted = n
      /\ engines'[s].channel \in {before.channel, Append(before.channel, e)}
      /\ e \in Messages
      /\ s \in DOMAIN engines => before = engines[s]
      /\ s \notin DOMAIN engines => before.channel = <<>> /\ before.emitted = 0
      /\ UNCHANGED <<queue, log>>
  BY OrderEmits
<1>2. before.emitted \in Nat /\ before.channel \in Seq(Messages)
  BY <1>1 DEF Engines
<1>3. e.key = s /\ e.n = n
  BY DEF Event
<1> HIDE DEF before, n, e
<1>4. ASSUME NEW f \in Seq(Messages), Emitted(f)
      PROVE  Emitted(f)' /\ \A i \in DOMAIN f : Precedes(f[i], e)
  <2>1. ASSUME NEW i \in DOMAIN f, f[i].n # 0
        PROVE  /\ f[i].key \in DOMAIN engines' /\ f[i].n <= engines'[f[i].key].emitted
               /\ f[i].key = s => f[i].n < n
    <3>1. f[i].key \in DOMAIN engines /\ f[i].n <= engines[f[i].key].emitted
      BY <1>4, <2>1 DEF Emitted
    <3>2. f[i] \in Messages
      BY <1>4, ElementOfSeq, LenProperties
    <3>3. f[i].n \in Nat
      BY <3>2 DEF Messages
    <3>4. CASE f[i].key = s
      BY <1>1, <1>2, <3>1, <3>3, <3>4
    <3>5. CASE f[i].key # s
      BY <1>1, <3>1, <3>5
    <3> QED
      BY <3>4, <3>5
  <2> QED
    BY <1>3, <2>1 DEF Emitted, Precedes
<1>5. /\ queue \in Seq(Messages) /\ \A p \in Partitions : log[p] \in Seq(Messages)
      /\ \A t \in DOMAIN engines : engines[t].channel \in Seq(Messages)
  BY DEF TopicTypes, PipeTypes, Engines
<1>6. LogInOrder' /\ KeyHasItsPartition' /\ QueueInOrder'
  <2>1. Emitted(queue)' /\ \A p \in Partitions : Emitted(log[p])'
    <3>1. Emitted(queue) /\ \A p \in Partitions : Emitted(log[p])
      BY DEF OrderInv, LogInOrder, QueueInOrder
    <3>2. \A i \in DOMAIN queue : queue[i].n # 0 => queue[i].key \in DOMAIN engines' /\ queue[i].n <= engines'[queue[i].key].emitted
      BY <1>4, <1>5, <3>1 DEF Emitted
    <3>3. \A p \in Partitions : \A i \in DOMAIN log[p] :
             log[p][i].n # 0 => log[p][i].key \in DOMAIN engines' /\ log[p][i].n <= engines'[log[p][i].key].emitted
      BY <1>4, <1>5, <3>1 DEF Emitted
    <3> QED
      BY <1>1, <3>2, <3>3 DEF Emitted
  <2> QED
    BY <1>1, <2>1 DEF OrderInv, LogInOrder, KeyHasItsPartition, QueueInOrder, Sorted, Before
\* what is true of the channel of s before
<1>7. /\ \A i \in DOMAIN before.channel : before.channel[i].key = s /\ before.channel[i].n # 0
      /\ Sorted(before.channel) /\ Emitted(before.channel)
      /\ Before(queue, before.channel)
      /\ \A p \in Partitions : Before(log[p], before.channel)
  <2>1. CASE s \in DOMAIN engines
    BY <1>1, <2>1 DEF OrderInv, ChannelsInOrder
  <2>2. CASE s \notin DOMAIN engines
    <3>1. DOMAIN before.channel = {}
      BY <1>1, <2>2, EmptySeq
    <3> QED
      BY <3>1 DEF Sorted, Emitted, Before
  <2> QED
    BY <2>1, <2>2
<1>8. ASSUME NEW f \in {before.channel, Append(before.channel, e)}
      PROVE  /\ \A i \in DOMAIN f : f[i].key = s /\ f[i].n # 0
             /\ \A i \in DOMAIN f : f[i].n # 0 => f[i].key \in DOMAIN engines' /\ f[i].n <= engines'[f[i].key].emitted
             /\ Sorted(f) /\ Before(queue, f)
             /\ \A p \in Partitions : Before(log[p], f)
  <2>1. \A i \in DOMAIN before.channel :
           before.channel[i].n # 0 => before.channel[i].key \in DOMAIN engines' /\ before.channel[i].n <= engines'[before.channel[i].key].emitted
    BY <1>2, <1>4, <1>7 DEF Emitted
  <2>2. CASE f = before.channel
    BY <1>7, <2>1, <2>2
  <2>3. CASE f = Append(before.channel, e)
    <3> DEFINE k == Len(before.channel) + 1
    <3>1. /\ DOMAIN f = DOMAIN before.channel \cup {k} /\ f[k] = e
          /\ \A i \in DOMAIN before.channel : f[i] = before.channel[i]
      BY <1>1, <1>2, <2>3, AppendIsOneMore
    <3> HIDE DEF k
    <3>2. s \in DOMAIN engines' /\ n <= engines'[s].emitted /\ n # 0
      BY <1>1
    <3>3. /\ \A i \in DOMAIN before.channel : Precedes(before.channel[i], e)
          /\ \A i \in DOMAIN queue : Precedes(queue[i], e)
          /\ \A p \in Partitions : \A i \in DOMAIN log[p] : Precedes(log[p][i], e)
      BY <1>2, <1>4, <1>5, <1>7 DEF OrderInv, LogInOrder, QueueInOrder
    <3>4. Sorted(f)
      BY <1>1, <1>2, <1>7, <2>3, <3>3, AppendInOrder
    <3>5. Before(queue, f)
      BY <1>1, <1>2, <1>7, <2>3, <3>3, AppendInOrder
    <3>6. ASSUME NEW p \in Partitions PROVE Before(log[p], f)
      BY <1>1, <1>2, <1>7, <2>3, <3>3, AppendInOrder
    <3>7. \A i \in DOMAIN f : f[i].key = s /\ f[i].n # 0
      BY <1>3, <1>7, <3>1, <3>2
    <3>8. \A i \in DOMAIN f : f[i].n # 0 => f[i].key \in DOMAIN engines' /\ f[i].n <= engines'[f[i].key].emitted
      BY <1>3, <2>1, <3>1, <3>2
    <3> QED
      BY <3>4, <3>5, <3>6, <3>7, <3>8
  <2> QED
    BY <2>2, <2>3
<1>9. ChannelsInOrder'
  <2>1. ASSUME NEW t \in DOMAIN engines'
        PROVE  /\ \A i \in DOMAIN engines'[t].channel : engines'[t].channel[i].key = t /\ engines'[t].channel[i].n # 0
               /\ Sorted(engines'[t].channel) /\ Before(queue, engines'[t].channel)
               /\ \A p \in Partitions : Before(log[p], engines'[t].channel)
               /\ \A i \in DOMAIN engines'[t].channel :
                     engines'[t].channel[i].n # 0
                       => /\ engines'[t].channel[i].key \in DOMAIN engines'
                          /\ engines'[t].channel[i].n <= engines'[engines'[t].channel[i].key].emitted
    <3>1. CASE t = s
      BY <1>1, <1>8, <3>1
    <3>2. CASE t # s
      <4>1. t \in DOMAIN engines /\ engines'[t] = engines[t]
        BY <1>1, <2>1, <3>2
      <4>2. Emitted(engines[t].channel)
        BY <4>1 DEF OrderInv, ChannelsInOrder
      <4>3. \A i \in DOMAIN engines[t].channel :
               engines[t].channel[i].n # 0
                 => /\ engines[t].channel[i].key \in DOMAIN engines'
                    /\ engines[t].channel[i].n <= engines'[engines[t].channel[i].key].emitted
        BY <1>4, <1>5, <4>1, <4>2 DEF Emitted
      <4> QED
        BY <4>1, <4>3 DEF OrderInv, ChannelsInOrder
    <3> QED
      BY <3>1, <3>2
  <2> QED
    BY <1>1, <2>1 DEF ChannelsInOrder, Emitted, Sorted, Before
<1> QED
  BY <1>6, <1>9 DEF OrderInv

\* the head of a channel goes to the end of the queue, or nowhere
LEMMA RelayKeepsOrder ==
    ASSUME TopicTypes, PipeTypes, OrderInv, Relay
    PROVE  OrderInv'
<1> DEFINE s == relay.symbol
           f == engines[s].channel
           e == Head(f)
<1>1. /\ s \in DOMAIN engines /\ f \in Seq(Messages) /\ f # <<>>
      /\ DOMAIN engines' = DOMAIN engines
      /\ engines'[s].channel = Tail(f) /\ engines'[s].emitted = engines[s].emitted
      /\ \A t \in DOMAIN engines \ {s} : engines'[t] = engines[t]
      /\ queue' \in {queue, Append(queue, e)}
      /\ UNCHANGED log
  BY RelayTakes
<1> HIDE DEF s
<1>2. \A t \in DOMAIN engines : engines'[t].emitted = engines[t].emitted
  BY <1>1
<1>3. /\ Sorted(f) /\ Emitted(f) /\ Before(queue, f)
      /\ \A i \in DOMAIN f : f[i].key = s /\ f[i].n # 0
      /\ \A p \in Partitions : Before(log[p], f)
  BY <1>1 DEF OrderInv, ChannelsInOrder
<1> HIDE DEF f
<1>4. /\ e = f[1] /\ 1 \in DOMAIN f /\ e \in Messages
      /\ \A i \in DOMAIN Tail(f) : i + 1 \in DOMAIN f /\ Tail(f)[i] = f[i + 1]
  BY <1>1, TailIsShifted
<1>5. e.key = s /\ e.n # 0 /\ e.n <= engines[s].emitted
  BY <1>3, <1>4 DEF Emitted
<1>6. /\ Sorted(Tail(f)) /\ Emitted(Tail(f)) /\ \A i \in DOMAIN Tail(f) : Precedes(e, Tail(f)[i])
      /\ Before(queue, Tail(f)) /\ \A j \in DOMAIN queue : Precedes(queue[j], e)
      /\ \A p \in Partitions : Before(log[p], Tail(f)) /\ \A j \in DOMAIN log[p] : Precedes(log[p][j], e)
      /\ \A i \in DOMAIN Tail(f) : Tail(f)[i].key = s /\ Tail(f)[i].n # 0
  BY <1>1, <1>3, <1>4, TailInOrder
<1>7. queue \in Seq(Messages) /\ Sorted(queue) /\ Emitted(queue)
  BY DEF TopicTypes, OrderInv, QueueInOrder
<1> HIDE DEF e
\* the queue with the event at its end
<1>8. /\ Sorted(Append(queue, e)) /\ Emitted(Append(queue, e))
      /\ \A g : Before(queue, g) /\ (\A j \in DOMAIN g : Precedes(e, g[j])) => Before(Append(queue, e), g)
      /\ \A p \in Partitions : Before(log[p], Append(queue, e))
  BY <1>1, <1>4, <1>5, <1>6, <1>7, AppendInOrder DEF OrderInv, LogInOrder
<1>9. ASSUME NEW t \in DOMAIN engines \ {s}
      PROVE  \A j \in DOMAIN engines[t].channel : Precedes(e, engines[t].channel[j])
  BY <1>5 DEF OrderInv, ChannelsInOrder, Precedes
<1>10. Sorted(queue') /\ Emitted(queue') /\ \A p \in Partitions : Before(log[p], queue')
  BY <1>1, <1>7, <1>8 DEF OrderInv, LogInOrder
<1>11. \A g : Emitted(g) => Emitted(g)'
  BY <1>1, <1>2 DEF Emitted
<1>12. LogInOrder' /\ KeyHasItsPartition' /\ QueueInOrder'
  BY <1>1, <1>2, <1>10 DEF OrderInv, LogInOrder, KeyHasItsPartition, QueueInOrder, Sorted, Before, Emitted
<1>13. ASSUME NEW t \in DOMAIN engines
       PROVE  /\ \A i \in DOMAIN engines'[t].channel : engines'[t].channel[i].key = t /\ engines'[t].channel[i].n # 0
              /\ Sorted(engines'[t].channel) /\ Emitted(engines'[t].channel)
              /\ Before(queue', engines'[t].channel)
              /\ \A p \in Partitions : Before(log[p], engines'[t].channel)
  <2>1. CASE t = s
    BY <1>1, <1>6, <1>8, <2>1
  <2>2. CASE t # s
    <3>1. engines'[t] = engines[t]
      BY <1>1, <2>2
    <3>2. Before(queue, engines[t].channel)
      BY DEF OrderInv, ChannelsInOrder
    <3>3. Before(queue', engines[t].channel)
      BY <1>1, <1>8, <1>9, <2>2, <3>2
    <3> QED
      BY <3>1, <3>3 DEF OrderInv, ChannelsInOrder
  <2> QED
    BY <2>1, <2>2
<1>14. ChannelsInOrder'
  BY <1>1, <1>2, <1>13 DEF ChannelsInOrder, Sorted, Before, Emitted
<1> QED
  BY <1>12, <1>14 DEF OrderInv

\* every step keeps the events in order on their way
LEMMA OrderStep ==
    ASSUME TopicTypes, PipeTypes, OrderInv, [Next]_vars
    PROVE  OrderInv'
<1>1. CASE UNCHANGED <<queue, log>> /\ DOMAIN engines' = DOMAIN engines
           /\ \A s \in DOMAIN engines : /\ engines'[s].channel = engines[s].channel
                                        /\ engines'[s].emitted = engines[s].emitted
  <2>1. ASSUME NEW f PROVE Emitted(f) => Emitted(f)'
    BY <1>1 DEF Emitted
  <2> QED
    BY <1>1 DEF OrderInv, LogInOrder, KeyHasItsPartition, QueueInOrder, ChannelsInOrder, Sorted, Before, Emitted
<1>2. CASE (Deliver \/ DeliveryFails) /\ UNCHANGED pipeVars
  BY <1>2, DeliverKeepsOrder, DeliveryFailsKeepsOrder
<1>3. CASE \E s \in Keys : ProduceMessageSync(Probe(s)) /\ UNCHANGED pipeVars
  BY <1>3, ProbeKeepsOrder
<1>4. CASE ConsumerMoves /\ UNCHANGED pipeVars
  <2>1. UNCHANGED producerVars
    BY <1>4 DEF ConsumerMoves, ConsumerStarts, Crash, ConsumerEnds, BatchTimeout, Handle, Commit, CommitFails, Poll
  <2> QED
    BY <1>1, <1>4, <2>1 DEF producerVars, pipeVars
<1>5. CASE StopReturns
  BY <1>1, <1>5, StopCloses
<1>6. CASE Quiet
  BY <1>1, <1>6 DEF Quiet
<1> QED
  BY <1>2, <1>3, <1>4, <1>5, <1>6, OrderKeepsOrder, RelayKeepsOrder, StepsAre

-----------------------------------------------------------------------------
(* Theorems.                                                                *)

\* The invariant holds in every state: what the consumer, the queue, the partitions
\* and the channels hold fits together (consumer.go:79-281,
\* enhanced_processor.go:346-419).
THEOREM PipelineInvariant == Spec => []IInv
<1>1. IInv /\ [Next]_vars => IInv'
  BY TypesStep, ReadStep, OrderStep DEF IInv, ReadInv
<1> QED
  BY <1>1, InitInv, PTL DEF Spec

\* No message is committed before a handler was called with it, whatever kind of
\* loop reads it, wherever the consumer dies and whichever handlers and commits
\* fail, for every number of partitions and every size of a batch.  The messages
\* that were there when a group of 'latest' started in a partition without a commit
\* are excepted; a group of 'earliest' has none of those (client.go:128-134,
\* consumer.go:115-124, 226-281).
THEOREM CommitsFollowHandlers == Spec => []CommittedWereOffered
<1>1. IInv => CommittedWereOffered
  BY DEF IInv, ReadInv
<1> QED
  BY <1>1, PipelineInvariant, PTL

\* A handler that sees an event for the first time sees a later one of its symbol
\* than all that handlers saw before, in earlier batches and in its own.
THEOREM HandlersSeeEventsInOrder == Spec => EventsInOrder
<1> DEFINE Fresh ==
      LET batch == consumer.batch
      IN  \A i \in DOMAIN batch : batch[i] \in offered' \ offered =>
             \A m \in offered \cup {batch[j] : j \in 1 .. i - 1} : Precedes(Message(m), Message(batch[i]))
<1>1. ASSUME IInv,
             NEW i \in DOMAIN consumer.batch, consumer.batch[i] \notin offered,
             NEW m \in offered \cup {consumer.batch[j] : j \in 1 .. i - 1}
      PROVE  Precedes(Message(m), Message(consumer.batch[i]))
  <2> DEFINE l == consumer.batch[i]
  <2>1. /\ \A j \in DOMAIN consumer.batch : consumer.batch[j] \in Places
        /\ DOMAIN consumer.batch = 1 .. Len(consumer.batch) /\ Len(consumer.batch) \in Nat
    BY <1>1, BatchHoldsPlaces, LenProperties DEF IInv, TopicTypes, Consumers
  <2>2. l \in Places
    BY <2>1
  <2>3. /\ l.partition \in Partitions /\ l.offset \in Nat \ {0}
        /\ l.offset <= Len(log[l.partition])
    <3>1. l.partition \in Partitions /\ l.offset \in Nat \ {0}
      BY <2>2 DEF Places
    <3>2. l.offset < position[l.partition] /\ position[l.partition] <= Len(log[l.partition]) + 1
      BY <1>1, <3>1 DEF IInv, ReadInv, BatchInOrder, WithinLog
    <3>3. position[l.partition] \in Nat /\ Len(log[l.partition]) \in Nat
      BY <1>1, <3>1, LenProperties DEF IInv, TopicTypes
    <3> QED
      BY <3>1, <3>2, <3>3
  <2>4. /\ m.partition \in Partitions /\ m.offset \in Nat \ {0}
        /\ m.partition = l.partition => m.offset < l.offset
        /\ m.offset <= Len(log[m.partition])
    <3>1. CASE m \in offered
      <4>1. m \in Places
        BY <1>1, <3>1 DEF IInv, TopicTypes
      <4>2. m.partition \in Partitions /\ m.offset \in Nat \ {0} /\ m.offset <= Len(log[m.partition])
        BY <1>1, <3>1, <4>1 DEF IInv, ReadInv, WithinLog, Places
      <4>3. ASSUME m.partition = l.partition, ~(m.offset < l.offset)
            PROVE  FALSE
        <5>1. CASE l.offset < m.offset
          <6>1. l \in skipped
            BY <1>1, <2>2, <3>1, <4>3, <5>1 DEF IInv, ReadInv, OfferedFromTheStart
          <6>2. l.offset < l.offset
            BY <1>1, <6>1 DEF IInv, ReadInv, SkippedIsBehind
          <6> QED
            BY <2>3, <6>2
        <5>2. CASE l.offset = m.offset
          BY <1>1, <2>2, <3>1, <4>1, <4>3, <5>2 DEF Places
        <5> QED
          BY <2>3, <4>2, <4>3, <5>1, <5>2
      <4> QED
        BY <4>2, <4>3
    <3>2. CASE m \notin offered
      <4>1. PICK j \in 1 .. i - 1 : m = consumer.batch[j]
        BY <1>1, <3>2
      <4>2. j \in DOMAIN consumer.batch /\ j < i
        BY <2>1, <4>1
      <4>3. m \in Places /\ (m.partition = l.partition => m.offset < l.offset)
        BY <1>1, <2>1, <4>1, <4>2 DEF IInv, ReadInv, BatchInOrder
      <4>4. m.partition \in Partitions /\ m.offset \in Nat \ {0}
        BY <4>3 DEF Places
      <4>5. m.offset < position[m.partition] /\ position[m.partition] <= Len(log[m.partition]) + 1
        BY <1>1, <4>1, <4>2, <4>4 DEF IInv, ReadInv, BatchInOrder, WithinLog
      <4>6. position[m.partition] \in Nat /\ Len(log[m.partition]) \in Nat
        BY <1>1, <4>4, LenProperties DEF IInv, TopicTypes
      <4> QED
        BY <4>3, <4>4, <4>5, <4>6
    <3> QED
      BY <3>1, <3>2
  <2> HIDE DEF l
  <2>5. /\ m.offset \in DOMAIN log[m.partition] /\ l.offset \in DOMAIN log[l.partition]
    BY <1>1, <2>3, <2>4, LenProperties DEF IInv, TopicTypes
  <2>6. CASE m.partition = l.partition
    <3>1. Sorted(log[l.partition])
      BY <1>1, <2>3 DEF IInv, OrderInv, LogInOrder
    <3> QED
      BY <2>4, <2>5, <2>6, <3>1 DEF Sorted, Message, l
  <2>7. CASE m.partition # l.partition
    <3>1. /\ PartitionOf[log[m.partition][m.offset].key] = m.partition
          /\ PartitionOf[log[l.partition][l.offset].key] = l.partition
      BY <1>1, <2>3, <2>4, <2>5 DEF IInv, OrderInv, KeyHasItsPartition
    <3> QED
      BY <2>7, <3>1 DEF Precedes, Message, l
  <2> QED
    BY <2>6, <2>7
<1>2. IInv /\ [Next]_vars => [Fresh]_vars
  <2>1. IInv => Fresh
    BY <1>1
  <2> QED
    BY <2>1
<1> QED
  BY <1>2, PipelineInvariant, PTL DEF Spec, EventsInOrder
=============================================================================
