---------------------------- MODULE UtilityProofs ----------------------------
(***************************************************************************)
(* Theorems about two of the packages below pkg/utils: about               *)
(* BackpressureController for any number of producers, consumers and       *)
(* messages, every capacity and every strategy, and about CircuitBreaker   *)
(* for every number of callers and every configuration.  The two share     *)
(* nothing; each theorem names the specification it is about.              *)
(***************************************************************************)
EXTENDS BackpressureController, CircuitBreaker, FiniteSetTheorems, TLAPS

-----------------------------------------------------------------------------
(* The backpressure controller.                                             *)

Elements(q) == {q[i] : i \in DOMAIN q}
Distinct(q) == \A i, j \in DOMAIN q : q[i] = q[j] => i = j

\* A call carries a message whose Submit has no result yet, and no two calls
\* carry the same one.
CallsCarry ==
    \A p \in Producers :
        IF At(p, "idle") THEN submit[p].msg = None
        ELSE submit[p].msg \in Messages /\ result[submit[p].msg] = "none"
OneCaller ==
    \A p, x \in Producers : submit[p].msg = submit[x].msg /\ submit[p].msg # None => p = x

\* The places a message can be in are apart, and exactly the messages whose
\* Submit succeeded, or has only the counting left, are in one of them.
Apart ==
    /\ Distinct(queue)
    /\ Queued \cap received = {} /\ Queued \cap evicted = {} /\ received \cap evicted = {}
Accepted(m) == result[m] = "ok" \/ \E p \in Producers : At(p, "count") /\ submit[p].msg = m
PlacedExactly == \A m \in Messages : m \in Queued \cup received \cup evicted <=> Accepted(m)

Bookkeeping == CallsCarry /\ OneCaller /\ Apart /\ PlacedExactly /\ LoadAccounts
ControllerInv == TypeOK /\ Bookkeeping

-----------------------------------------------------------------------------
(* The queue as a sequence.                                                 *)

LEMMA AppendElements ==
    ASSUME NEW S, NEW q \in Seq(S), NEW m \in S
    PROVE  /\ Append(q, m) \in Seq(S)
           /\ Len(Append(q, m)) = Len(q) + 1
           /\ Elements(Append(q, m)) = Elements(q) \cup {m}
           /\ Distinct(q) /\ m \notin Elements(q) => Distinct(Append(q, m))
<1>1. /\ DOMAIN q = 1 .. Len(q) /\ Len(q) \in Nat
      /\ Append(q, m) \in Seq(S) /\ Len(Append(q, m)) = Len(q) + 1
      /\ DOMAIN Append(q, m) = 1 .. Len(q) + 1
      /\ \A i \in 1 .. Len(q) : Append(q, m)[i] = q[i]
      /\ Append(q, m)[Len(q) + 1] = m
  OBVIOUS
<1>2. \A i \in 1 .. Len(q) + 1 : i \in 1 .. Len(q) \/ i = Len(q) + 1
  BY <1>1
<1>3. 1 .. Len(q) \subseteq 1 .. Len(q) + 1 /\ Len(q) + 1 \in 1 .. Len(q) + 1
  BY <1>1
<1>4. Elements(Append(q, m)) = Elements(q) \cup {m}
  BY <1>1, <1>2, <1>3 DEF Elements
<1>5. Distinct(q) /\ m \notin Elements(q) => Distinct(Append(q, m))
  BY <1>1, <1>2 DEF Distinct, Elements
<1> QED
  BY <1>1, <1>4, <1>5

LEMMA TailElements ==
    ASSUME NEW S, NEW q \in Seq(S), q # <<>>, Distinct(q)
    PROVE  /\ Head(q) \in Elements(q) /\ Head(q) \in S
           /\ Tail(q) \in Seq(S)
           /\ Len(q) \in Nat /\ Len(Tail(q)) = Len(q) - 1
           /\ Elements(Tail(q)) = Elements(q) \ {Head(q)}
           /\ Distinct(Tail(q))
<1>1. /\ DOMAIN q = 1 .. Len(q) /\ Len(q) \in Nat /\ Len(q) > 0
      /\ Head(q) = q[1] /\ q[1] \in S
      /\ Tail(q) \in Seq(S) /\ Len(Tail(q)) = Len(q) - 1
      /\ DOMAIN Tail(q) = 1 .. Len(q) - 1
      /\ \A i \in 1 .. Len(q) - 1 : Tail(q)[i] = q[i + 1]
  OBVIOUS
<1>2. Head(q) \in Elements(q)
  BY <1>1 DEF Elements
<1>3. Elements(Tail(q)) \subseteq Elements(q) \ {Head(q)}
  BY <1>1 DEF Elements, Distinct
<1>4. ASSUME NEW x \in Elements(q) \ {Head(q)} PROVE x \in Elements(Tail(q))
  <2>1. PICK i \in 1 .. Len(q) : x = q[i]
    BY <1>1 DEF Elements
  <2>2. i - 1 \in 1 .. Len(q) - 1 /\ Tail(q)[i - 1] = q[i]
    BY <1>1, <1>4, <2>1
  <2> QED
    BY <1>1, <2>1, <2>2 DEF Elements
<1>5. Distinct(Tail(q))
  BY <1>1 DEF Distinct
<1> QED
  BY <1>1, <1>2, <1>3, <1>4, <1>5

\* What a full and an empty queue are to the two ends.
LEMMA QueueEnds ==
    ASSUME ControllerInv
    PROVE  /\ \A m \in Messages :
                 /\ Append(queue, m) \in Seq(Messages)
                 /\ Len(Append(queue, m)) = Len(queue) + 1
                 /\ Elements(Append(queue, m)) = Queued \cup {m}
                 /\ m \notin Queued => Distinct(Append(queue, m))
           /\ queue # <<>> =>
                 /\ Head(queue) \in Queued /\ Head(queue) \in Messages
                 /\ Tail(queue) \in Seq(Messages)
                 /\ Len(Tail(queue)) = Len(queue) - 1
                 /\ Elements(Tail(queue)) = Queued \ {Head(queue)}
                 /\ Distinct(Tail(queue))
           /\ Len(queue) \in Nat /\ Len(queue) <= MaxQueueSize /\ MaxQueueSize \in Nat
<1>1. queue \in Seq(Messages) /\ Distinct(queue) /\ Queued = Elements(queue)
  BY DEF ControllerInv, Bookkeeping, TypeOK, Apart, Queued, Elements
<1>2. \A m \in Messages :
          /\ Append(queue, m) \in Seq(Messages)
          /\ Len(Append(queue, m)) = Len(queue) + 1
          /\ Elements(Append(queue, m)) = Queued \cup {m}
          /\ m \notin Queued => Distinct(Append(queue, m))
  BY <1>1, AppendElements
<1>3. ASSUME queue # <<>>
      PROVE  /\ Head(queue) \in Queued /\ Head(queue) \in Messages
             /\ Tail(queue) \in Seq(Messages)
             /\ Len(Tail(queue)) = Len(queue) - 1
             /\ Elements(Tail(queue)) = Queued \ {Head(queue)}
             /\ Distinct(Tail(queue))
  BY <1>1, <1>3, TailElements
<1> QED
  BY <1>1, <1>2, <1>3, SizeAssumption DEF ControllerInv, Bookkeeping, TypeOK

-----------------------------------------------------------------------------
LEMMA InitController == Init => ControllerInv
<1> SUFFICES ASSUME Init PROVE ControllerInv
  OBVIOUS
<1>1. Queued = {} /\ Counting = {} /\ Uncounted = {}
  BY DEF Init, Queued, Counting, Uncounted, At
<1>2. TypeOK
  <2>1. queue \in Seq(Messages) /\ Len(queue) <= MaxQueueSize
    <3>1. <<>> \in Seq(Messages) /\ Len(<<>>) = 0 /\ 0 <= MaxQueueSize
      BY SizeAssumption
    <3> QED
      BY <3>1 DEF Init
  <2>2. result \in [Messages -> {"none", "ok", "canceled", "dropped", "rejected", "panic"}]
    BY DEF Init
  <2>3. submit \in [Producers -> [pc : {"idle", "load", "try", "strategy", "evict", "wait", "count"},
                                 msg : Messages \cup {None}]]
    BY DEF Init
  <2>4. receive \in [Consumers -> {"idle", "waiting", "count"}]
    BY DEF Init
  <2>5. load \in Int /\ dropped \in Nat /\ processed \in Nat /\ rejected \in Nat
    BY DEF Init
  <2>6. closed \in BOOLEAN
    BY Zenon DEF Init
  <2>7. strategy \in Strategies /\ received \subseteq Messages /\ evicted \subseteq Messages
    BY Zenon DEF Init
  <2> QED
    BY <2>1, <2>2, <2>3, <2>4, <2>5, <2>6, <2>7 DEF TypeOK
<1>3. CallsCarry /\ OneCaller /\ Apart /\ PlacedExactly
  BY <1>1 DEF Init, CallsCarry, OneCaller, Apart, Distinct, PlacedExactly, Accepted, At
<1>4. LoadAccounts
  BY <1>1, FS_EmptySet DEF Init, LoadAccounts
<1> QED
  BY <1>2, <1>3, <1>4 DEF ControllerInv, Bookkeeping

-----------------------------------------------------------------------------
(* What a step of a call does to the calls and to what is accepted.         *)

\* a call goes from one select to another, or to the counting
LEMMA MoveCall ==
    ASSUME ControllerInv, NEW p \in Producers, NEW pc, pc # "idle",
           ~At(p, "idle"), ~At(p, "count"), Goto(p, pc), UNCHANGED result
    PROVE  /\ CallsCarry' /\ OneCaller'
           /\ submit[p].msg \in Messages /\ ~Accepted(submit[p].msg)
           /\ \A m \in Messages :
                 Accepted(m)' <=> Accepted(m) \/ (pc = "count" /\ m = submit[p].msg)
           /\ Counting' = IF pc = "count" THEN Counting \cup {p} ELSE Counting
           /\ p \notin Counting
<1>1. /\ submit[p].msg \in Messages /\ result[submit[p].msg] = "none"
      /\ submit[p].pc # "idle" /\ submit[p].pc # "count" /\ submit[p].msg # None
  BY SetsAssumption DEF ControllerInv, Bookkeeping, CallsCarry, At
<1>2. /\ submit'[p].pc = pc /\ submit'[p].msg = submit[p].msg
      /\ \A x \in Producers : submit'[x].msg = submit[x].msg
      /\ \A x \in Producers : x # p => submit'[x].pc = submit[x].pc
  BY DEF Goto, ControllerInv, Bookkeeping, TypeOK
<1>3. CallsCarry'
  BY <1>1, <1>2 DEF CallsCarry, ControllerInv, Bookkeeping, At
<1>4. OneCaller'
  BY <1>2 DEF OneCaller, ControllerInv, Bookkeeping
<1>5. \A x \in Producers : submit[x].msg = submit[p].msg => x = p
  BY <1>1 DEF OneCaller, ControllerInv, Bookkeeping
<1>6. ~Accepted(submit[p].msg)
  BY <1>1, <1>5 DEF Accepted, At
<1>7. \A m \in Messages :
          Accepted(m)' <=> Accepted(m) \/ (pc = "count" /\ m = submit[p].msg)
  BY <1>1, <1>2 DEF Accepted, At
<1>8. Counting' = IF pc = "count" THEN Counting \cup {p} ELSE Counting
  BY <1>1, <1>2 DEF Counting, At
<1> QED
  BY <1>1, <1>3, <1>4, <1>6, <1>7, <1>8 DEF Counting, At

\* Submit comes back: with "ok" after the counting, and only then
LEMMA ReturnCall ==
    ASSUME ControllerInv, NEW p \in Producers, NEW r, r # "none",
           ~At(p, "idle"), r = "ok" <=> At(p, "count"), Return(p, r)
    PROVE  /\ CallsCarry' /\ OneCaller'
           /\ \A m \in Messages : Accepted(m)' <=> Accepted(m)
           /\ Counting' = Counting \ {p}
<1>1. /\ submit[p].msg \in Messages /\ result[submit[p].msg] = "none"
      /\ submit[p].pc # "idle" /\ submit[p].msg # None
      /\ \A x \in Producers : submit[x].msg = submit[p].msg => x = p
  BY SetsAssumption DEF ControllerInv, Bookkeeping, CallsCarry, OneCaller, At
<1>2. /\ submit'[p].pc = "idle" /\ submit'[p].msg = None
      /\ \A x \in Producers : x # p => submit'[x].pc = submit[x].pc /\ submit'[x].msg = submit[x].msg
  BY DEF Return, ControllerInv, Bookkeeping, TypeOK
<1>3. /\ result'[submit[p].msg] = r
      /\ \A m \in Messages : m # submit[p].msg => result'[m] = result[m]
  BY <1>1 DEF Return, ControllerInv, Bookkeeping, TypeOK
<1>4. CallsCarry'
  BY <1>1, <1>2, <1>3 DEF CallsCarry, ControllerInv, Bookkeeping, At
<1>5. OneCaller'
  BY <1>2 DEF OneCaller, ControllerInv, Bookkeeping
<1>6. ASSUME NEW m \in Messages PROVE Accepted(m)' <=> Accepted(m)
  <2>1. CASE m = submit[p].msg
    BY <1>1, <1>2, <1>3, <2>1 DEF Accepted, At
  <2>2. CASE m # submit[p].msg
    BY <1>1, <1>2, <1>3, <2>2 DEF Accepted, At
  <2> QED
    BY <2>1, <2>2
<1>7. Counting' = Counting \ {p}
  BY <1>2 DEF Counting, At
<1> QED
  BY <1>4, <1>5, <1>6, <1>7

\* a new call
LEMMA NewCall ==
    ASSUME ControllerInv, NEW p \in Producers, NEW m \in Messages, Submit(p, m)
    PROVE  /\ CallsCarry' /\ OneCaller'
           /\ \A n \in Messages : Accepted(n)' <=> Accepted(n)
           /\ Counting' = Counting
<1>1. /\ submit[p].pc = "idle" /\ submit[p].msg = None /\ result[m] = "none"
      /\ \A x \in Producers : submit[x].msg # m
  BY DEF Submit, At, ControllerInv, Bookkeeping, CallsCarry
<1>2. /\ submit'[p].pc = "load" /\ submit'[p].msg = m /\ result' = result
      /\ \A x \in Producers : x # p => submit'[x].pc = submit[x].pc /\ submit'[x].msg = submit[x].msg
  BY DEF Submit, history, ControllerInv, Bookkeeping, TypeOK
<1>3. CallsCarry'
  BY <1>1, <1>2 DEF CallsCarry, ControllerInv, Bookkeeping, At
<1>4. OneCaller'
  BY <1>1, <1>2 DEF OneCaller, ControllerInv, Bookkeeping
<1>5. \A n \in Messages : Accepted(n)' <=> Accepted(n)
  BY <1>1, <1>2 DEF Accepted, At
<1>6. Counting' = Counting
  BY <1>1, <1>2 DEF Counting, At
<1> QED
  BY <1>3, <1>4, <1>5, <1>6

LEMMA SameCalls ==
    ASSUME ControllerInv, UNCHANGED <<submit, result>>
    PROVE  /\ CallsCarry' /\ OneCaller'
           /\ \A m \in Messages : Accepted(m)' <=> Accepted(m)
           /\ Counting' = Counting
BY DEF ControllerInv, Bookkeeping, CallsCarry, OneCaller, Accepted, Counting, At

-----------------------------------------------------------------------------
(* What a step does to the places of the messages and to the counter.       *)

\* the messages stay where they are
LEMMA SamePlaces ==
    ASSUME ControllerInv, UNCHANGED <<queue, received, evicted, load>>,
           Uncounted' = Uncounted, Counting' = Counting,
           \A m \in Messages : Accepted(m)' <=> Accepted(m)
    PROVE  Apart' /\ PlacedExactly' /\ LoadAccounts'
<1>1. Queued' = Queued
  BY DEF Queued
<1>2. Apart'
  BY <1>1 DEF ControllerInv, Bookkeeping, Apart, Distinct
<1>3. PlacedExactly'
  BY <1>1 DEF ControllerInv, Bookkeeping, PlacedExactly
<1>4. LoadAccounts'
  BY DEF ControllerInv, Bookkeeping, LoadAccounts
<1> QED
  BY <1>2, <1>3, <1>4

LEMMA Finite ==
    ASSUME ControllerInv
    PROVE  /\ IsFiniteSet(Counting) /\ IsFiniteSet(Uncounted) /\ IsFiniteSet(evicted)
           /\ Cardinality(Counting) \in Nat /\ Cardinality(Uncounted) \in Nat
           /\ Cardinality(evicted) \in Nat
<1>1. IsFiniteSet(Counting)
  <2>1. Counting \subseteq Producers
    BY DEF Counting
  <2> QED
    BY <2>1, SetsAssumption, FS_Subset
<1>2. IsFiniteSet(Uncounted)
  <2>1. Uncounted \subseteq Consumers
    BY DEF Uncounted
  <2> QED
    BY <2>1, SetsAssumption, FS_Subset
<1>3. IsFiniteSet(evicted)
  BY SetsAssumption, FS_Subset DEF ControllerInv, Bookkeeping, TypeOK
<1> QED
  BY <1>1, <1>2, <1>3, FS_CardinalityType

LEMMA QuietCall ==
    ASSUME ControllerInv, NEW p \in Producers,
           \/ LoadCheck(p) \/ TryFull(p) \/ FindFull(p) \/ FindEmpty(p) \/ EvictNil(p)
           \/ \E m \in Messages : Submit(p, m)
    PROVE  Bookkeeping'
<1>1. UNCHANGED <<queue, received, evicted, load>> /\ Uncounted' = Uncounted
  BY DEF LoadCheck, TryFull, FindFull, FindEmpty, EvictNil, Submit, counters, history, Uncounted
<1>2. CASE \E m \in Messages : Submit(p, m)
  BY <1>1, <1>2, NewCall, SamePlaces DEF Bookkeeping
<1>3. CASE ~\E m \in Messages : Submit(p, m)
  <2>1. PICK pc \in {"try", "strategy", "evict", "wait"} :
            ~At(p, "idle") /\ ~At(p, "count") /\ Goto(p, pc) /\ UNCHANGED result
    BY <1>3 DEF LoadCheck, TryFull, FindFull, FindEmpty, EvictNil, At, history
  <2>2. pc # "idle" /\ pc # "count"
    BY <2>1
  <2>3. /\ CallsCarry' /\ OneCaller' /\ Counting' = Counting
        /\ \A m \in Messages : Accepted(m)' <=> Accepted(m)
    BY <2>1, <2>2, MoveCall
  <2> QED
    BY <1>1, <2>3, SamePlaces DEF Bookkeeping
<1> QED
  BY <1>2, <1>3

\* Submit comes back with an error
LEMMA ErrorReturn ==
    ASSUME ControllerInv, NEW p \in Producers,
           SubmitCanceled(p) \/ SubmitPanics(p) \/ DropNewest(p) \/ Reject(p)
    PROVE  Bookkeeping'
<1>1. UNCHANGED <<queue, received, evicted, load>> /\ Uncounted' = Uncounted
  BY DEF SubmitCanceled, SubmitPanics, DropNewest, Reject, counters, Uncounted
<1>2. PICK r \in {"canceled", "panic", "dropped", "rejected"} :
          ~At(p, "idle") /\ ~At(p, "count") /\ Return(p, r)
  BY DEF SubmitCanceled, SubmitPanics, DropNewest, Reject, Offering, At
<1>3. r # "none" /\ (r = "ok" <=> At(p, "count"))
  BY <1>2
<1>4. /\ CallsCarry' /\ OneCaller' /\ Counting' = Counting \ {p}
      /\ \A m \in Messages : Accepted(m)' <=> Accepted(m)
  BY <1>2, <1>3, ReturnCall
<1>5. Counting' = Counting
  BY <1>2, <1>4 DEF Counting
<1> QED
  BY <1>1, <1>4, <1>5, SamePlaces DEF Bookkeeping

LEMMA EnqueueKeeps ==
    ASSUME ControllerInv, NEW p \in Producers, Enqueue(p)
    PROVE  Bookkeeping'
<1> DEFINE m == submit[p].msg
<1>1. /\ ~At(p, "idle") /\ ~At(p, "count") /\ Goto(p, "count")
      /\ queue' = Append(queue, m)
      /\ UNCHANGED <<result, received, evicted, load>> /\ Uncounted' = Uncounted
  BY DEF Enqueue, Offering, At, counters, history, Uncounted
<1>2. /\ CallsCarry' /\ OneCaller'
      /\ m \in Messages /\ ~Accepted(m)
      /\ \A n \in Messages : Accepted(n)' <=> Accepted(n) \/ n = m
      /\ Counting' = Counting \cup {p} /\ p \notin Counting
  BY <1>1, MoveCall
<1>3. m \notin Queued \cup received \cup evicted
  BY <1>2 DEF ControllerInv, Bookkeeping, PlacedExactly
<1>4. Elements(queue') = Queued \cup {m} /\ Len(queue') = Len(queue) + 1 /\ Distinct(queue')
  BY <1>1, <1>2, <1>3, QueueEnds
<1>5. Queued' = Queued \cup {m}
  BY <1>4 DEF Queued, Elements
<1>6. Apart'
  BY <1>1, <1>3, <1>4, <1>5 DEF ControllerInv, Bookkeeping, Apart, Distinct
<1>7. PlacedExactly'
  BY <1>1, <1>2, <1>5 DEF ControllerInv, Bookkeeping, PlacedExactly
<1>8. Cardinality(Counting') = Cardinality(Counting) + 1
  BY <1>2, Finite, FS_AddElement
<1>9. LoadAccounts'
  <2>1. load = Len(queue) + Cardinality(evicted) + Cardinality(Uncounted) - Cardinality(Counting)
    BY DEF ControllerInv, Bookkeeping, LoadAccounts
  <2>2. load' = load /\ evicted' = evicted /\ Uncounted' = Uncounted /\ Len(queue') = Len(queue) + 1
    BY <1>1, <1>4
  <2> QED
    BY <2>1, <2>2, <1>8, Finite, QueueEnds DEF LoadAccounts
<1> QED
  BY <1>2, <1>6, <1>7, <1>9 DEF Bookkeeping

LEMMA CountSubmitKeeps ==
    ASSUME ControllerInv, NEW p \in Producers, CountSubmit(p)
    PROVE  Bookkeeping'
<1>1. /\ At(p, "count") /\ ~At(p, "idle") /\ Return(p, "ok") /\ load' = load + 1
      /\ UNCHANGED <<queue, received, evicted>> /\ Uncounted' = Uncounted
  BY DEF CountSubmit, At, Uncounted
<1>2. /\ CallsCarry' /\ OneCaller' /\ Counting' = Counting \ {p}
      /\ \A m \in Messages : Accepted(m)' <=> Accepted(m)
  BY <1>1, ReturnCall
<1>3. Queued' = Queued
  BY <1>1 DEF Queued
<1>4. Apart'
  BY <1>1, <1>3 DEF ControllerInv, Bookkeeping, Apart, Distinct
<1>5. PlacedExactly'
  BY <1>1, <1>2, <1>3 DEF ControllerInv, Bookkeeping, PlacedExactly
<1>6. Cardinality(Counting') = Cardinality(Counting) - 1
  <2>1. p \in Counting
    BY <1>1 DEF Counting
  <2> QED
    BY <1>2, <2>1, Finite, FS_RemoveElement
<1>7. LoadAccounts'
  BY <1>1, <1>6, Finite, QueueEnds DEF ControllerInv, Bookkeeping, LoadAccounts, TypeOK
<1> QED
  BY <1>2, <1>4, <1>5, <1>7 DEF Bookkeeping

LEMMA EvictKeeps ==
    ASSUME ControllerInv, NEW p \in Producers, Evict(p)
    PROVE  Bookkeeping'
<1> DEFINE h == Head(queue)
<1>1. /\ ~At(p, "idle") /\ ~At(p, "count") /\ Goto(p, "strategy")
      /\ queue # <<>> /\ queue' = Tail(queue) /\ evicted' = evicted \cup {h}
      /\ UNCHANGED <<result, received, load>> /\ Uncounted' = Uncounted
  BY DEF Evict, At, Uncounted
<1>2. /\ CallsCarry' /\ OneCaller' /\ Counting' = Counting
      /\ \A n \in Messages : Accepted(n)' <=> Accepted(n)
  BY <1>1, MoveCall
<1>3. /\ h \in Queued /\ h \in Messages /\ Len(queue') = Len(queue) - 1
      /\ Elements(queue') = Queued \ {h} /\ Distinct(queue')
  BY <1>1, QueueEnds
<1>4. Queued' = Queued \ {h}
  BY <1>3 DEF Queued, Elements
<1>5. Apart'
  BY <1>1, <1>3, <1>4 DEF ControllerInv, Bookkeeping, Apart, Distinct
<1>6. PlacedExactly'
  BY <1>1, <1>2, <1>3, <1>4 DEF ControllerInv, Bookkeeping, PlacedExactly
<1>7. Cardinality(evicted') = Cardinality(evicted) + 1
  <2>1. h \notin evicted
    BY <1>3 DEF ControllerInv, Bookkeeping, Apart
  <2> QED
    BY <1>1, <2>1, Finite, FS_AddElement
<1>8. LoadAccounts'
  BY <1>1, <1>2, <1>3, <1>7, Finite, QueueEnds
     DEF ControllerInv, Bookkeeping, LoadAccounts, TypeOK
<1> QED
  BY <1>2, <1>5, <1>6, <1>8 DEF Bookkeeping

LEMMA DequeueKeeps ==
    ASSUME ControllerInv, NEW c \in Consumers, Dequeue(c)
    PROVE  Bookkeeping'
<1> DEFINE h == Head(queue)
<1>1. /\ receive[c] = "waiting" /\ receive' = [receive EXCEPT ![c] = "count"]
      /\ queue # <<>> /\ queue' = Tail(queue) /\ received' = received \cup {h}
      /\ UNCHANGED <<submit, result, evicted, load>>
  BY DEF Dequeue, counters
<1>2. /\ CallsCarry' /\ OneCaller' /\ Counting' = Counting
      /\ \A n \in Messages : Accepted(n)' <=> Accepted(n)
  BY <1>1, SameCalls
<1>3. /\ h \in Queued /\ h \in Messages /\ Len(queue') = Len(queue) - 1
      /\ Elements(queue') = Queued \ {h} /\ Distinct(queue')
  BY <1>1, QueueEnds
<1>4. Queued' = Queued \ {h}
  BY <1>3 DEF Queued, Elements
<1>5. Apart'
  BY <1>1, <1>3, <1>4 DEF ControllerInv, Bookkeeping, Apart, Distinct
<1>6. PlacedExactly'
  BY <1>1, <1>2, <1>3, <1>4 DEF ControllerInv, Bookkeeping, PlacedExactly
<1>7. Cardinality(Uncounted') = Cardinality(Uncounted) + 1
  <2>1. c \notin Uncounted /\ Uncounted' = Uncounted \cup {c}
    BY <1>1 DEF Uncounted, ControllerInv, TypeOK
  <2> QED
    BY <2>1, Finite, FS_AddElement
<1>8. LoadAccounts'
  BY <1>1, <1>2, <1>3, <1>7, Finite, QueueEnds
     DEF ControllerInv, Bookkeeping, LoadAccounts, TypeOK
<1> QED
  BY <1>2, <1>5, <1>6, <1>8 DEF Bookkeeping

LEMMA HandoverKeeps ==
    ASSUME ControllerInv, NEW p \in Producers, NEW c \in Consumers, Handover(p, c)
    PROVE  Bookkeeping'
<1> DEFINE m == submit[p].msg
<1>1. /\ ~At(p, "idle") /\ ~At(p, "count") /\ Goto(p, "count")
      /\ receive[c] = "waiting" /\ receive' = [receive EXCEPT ![c] = "count"]
      /\ received' = received \cup {m}
      /\ UNCHANGED <<queue, result, evicted, load>>
  BY DEF Handover, At, counters
<1>2. /\ CallsCarry' /\ OneCaller'
      /\ m \in Messages /\ ~Accepted(m)
      /\ \A n \in Messages : Accepted(n)' <=> Accepted(n) \/ n = m
      /\ Counting' = Counting \cup {p} /\ p \notin Counting
  BY <1>1, MoveCall
<1>3. m \notin Queued \cup received \cup evicted
  BY <1>2 DEF ControllerInv, Bookkeeping, PlacedExactly
<1>4. Queued' = Queued
  BY <1>1 DEF Queued
<1>5. Apart'
  BY <1>1, <1>3, <1>4 DEF ControllerInv, Bookkeeping, Apart, Distinct
<1>6. PlacedExactly'
  BY <1>1, <1>2, <1>4 DEF ControllerInv, Bookkeeping, PlacedExactly
<1>7. Cardinality(Counting') = Cardinality(Counting) + 1
  BY <1>2, Finite, FS_AddElement
<1>8. Cardinality(Uncounted') = Cardinality(Uncounted) + 1
  <2>1. c \notin Uncounted /\ Uncounted' = Uncounted \cup {c}
    BY <1>1 DEF Uncounted, ControllerInv, TypeOK
  <2> QED
    BY <2>1, Finite, FS_AddElement
<1>9. LoadAccounts'
  BY <1>1, <1>7, <1>8, Finite, QueueEnds DEF ControllerInv, Bookkeeping, LoadAccounts, TypeOK
<1> QED
  BY <1>2, <1>5, <1>6, <1>9 DEF Bookkeeping

\* the other steps of a consumer, and Close
LEMMA ConsumerKeeps ==
    ASSUME ControllerInv,
           \/ \E c \in Consumers : CountReceive(c) \/ Receive(c) \/ ReceiveClosed(c) \/ ReceiveCanceled(c)
           \/ Close \/ UNCHANGED vars
    PROVE  Bookkeeping'
<1>1. UNCHANGED <<submit, result, queue, received, evicted>>
  BY DEF CountReceive, Receive, ReceiveClosed, ReceiveCanceled, Close, vars, history
<1>2. /\ CallsCarry' /\ OneCaller' /\ Counting' = Counting
      /\ \A n \in Messages : Accepted(n)' <=> Accepted(n)
  BY <1>1, SameCalls
<1>3. CASE \E c \in Consumers : CountReceive(c)
  <2>1. PICK c \in Consumers : CountReceive(c)
    BY <1>3
  <2>2. c \in Uncounted /\ Uncounted' = Uncounted \ {c} /\ load' = load - 1
    BY <2>1 DEF CountReceive, Uncounted, ControllerInv, TypeOK
  <2>3. Cardinality(Uncounted') = Cardinality(Uncounted) - 1
    BY <2>2, Finite, FS_RemoveElement
  <2>4. Queued' = Queued
    BY <1>1 DEF Queued
  <2>5. Apart' /\ PlacedExactly'
    BY <1>1, <1>2, <2>4 DEF ControllerInv, Bookkeeping, Apart, Distinct, PlacedExactly
  <2>6. LoadAccounts'
    BY <1>1, <1>2, <2>2, <2>3, Finite, QueueEnds
       DEF ControllerInv, Bookkeeping, LoadAccounts, TypeOK
  <2> QED
    BY <1>2, <2>5, <2>6 DEF Bookkeeping
<1>4. CASE ~\E c \in Consumers : CountReceive(c)
  <2>1. load' = load /\ Uncounted' = Uncounted
    BY <1>4 DEF Receive, ReceiveClosed, ReceiveCanceled, Close, vars, counters, Uncounted,
                ControllerInv, TypeOK
  <2> QED
    BY <1>1, <1>2, <2>1, SamePlaces DEF Bookkeeping
<1> QED
  BY <1>3, <1>4

-----------------------------------------------------------------------------
LEMMA TypeKept == ASSUME ControllerInv, [Next]_vars PROVE TypeOK'
<1>1. \A p \in Producers : At(p, "idle") \/ submit[p].msg \in Messages
  BY DEF ControllerInv, Bookkeeping, CallsCarry
<1>2. /\ TypeOK
      /\ \A m \in Messages : Append(queue, m) \in Seq(Messages) /\ Len(Append(queue, m)) = Len(queue) + 1
      /\ queue # <<>> => /\ Head(queue) \in Messages /\ Tail(queue) \in Seq(Messages)
                         /\ Len(Tail(queue)) = Len(queue) - 1
      /\ Len(queue) \in Nat /\ MaxQueueSize \in Nat
  BY QueueEnds DEF ControllerInv
<1>3. ASSUME NEW p \in Producers, NEW m \in Messages, Submit(p, m) PROVE TypeOK'
  BY <1>2, <1>3 DEF Submit, TypeOK, counters, history
<1>4. ASSUME NEW p \in Producers, SubmitStep(p) PROVE TypeOK'
  <2>1. CASE LoadCheck(p) \/ TryFull(p) \/ FindFull(p) \/ FindEmpty(p) \/ EvictNil(p)
    BY <1>2, <2>1 DEF LoadCheck, TryFull, FindFull, FindEmpty, EvictNil, Goto, TypeOK, counters, history
  <2>2. CASE Enqueue(p)
    <3>1. submit[p].msg \in Messages /\ Len(queue) # MaxQueueSize
      BY <1>1, <2>2 DEF Enqueue, Offering, At, Full
    <3>2. Len(queue) + 1 <= MaxQueueSize
      BY <1>2, <3>1 DEF TypeOK
    <3> QED
      BY <1>2, <2>2, <3>1, <3>2 DEF Enqueue, Goto, TypeOK, counters, history
  <2>3. CASE CountSubmit(p)
    <3>1. Return(p, "ok") /\ submit[p].msg \in Messages
      BY <1>1, <2>3 DEF CountSubmit, At
    <3>2. submit' \in [Producers -> [pc : {"idle", "load", "try", "strategy", "evict", "wait", "count"},
                                    msg : Messages \cup {None}]]
      BY <1>2, <3>1 DEF Return, TypeOK
    <3>3. result' \in [Messages -> {"none", "ok", "canceled", "dropped", "rejected", "panic"}]
      BY <1>2, <3>1 DEF Return, TypeOK
    <3>4. load' \in Int
      BY <1>2, <2>3 DEF CountSubmit, TypeOK
    <3> QED
      BY <1>2, <2>3, <3>2, <3>3, <3>4 DEF CountSubmit, TypeOK
  <2>4. CASE SubmitPanics(p) \/ DropNewest(p) \/ Reject(p)
    BY <1>2, <2>4 DEF SubmitPanics, DropNewest, Reject, Return, TypeOK, counters
  <2>5. CASE Evict(p)
    <3>1. Len(Tail(queue)) <= MaxQueueSize
      BY <1>2, <2>5 DEF Evict, TypeOK
    <3>2. submit' \in [Producers -> [pc : {"idle", "load", "try", "strategy", "evict", "wait", "count"},
                                    msg : Messages \cup {None}]]
      BY <1>2, <2>5 DEF Evict, Goto, TypeOK
    <3>3. evicted' \subseteq Messages /\ queue' \in Seq(Messages) /\ dropped' \in Nat
      BY <1>2, <2>5 DEF Evict, TypeOK
    <3> QED
      BY <1>2, <2>5, <3>1, <3>2, <3>3 DEF Evict, TypeOK
  <2> QED
    BY <1>4, <2>1, <2>2, <2>3, <2>4, <2>5 DEF SubmitStep, StrategyStep
<1>5. ASSUME NEW p \in Producers, SubmitCanceled(p) PROVE TypeOK'
  BY <1>2, <1>5 DEF SubmitCanceled, Return, TypeOK, counters
<1>6. ASSUME NEW c \in Consumers, Receive(c) \/ ReceiveStep(c) \/ ReceiveCanceled(c) PROVE TypeOK'
  <2>1. CASE Dequeue(c)
    <3>1. Len(Tail(queue)) <= MaxQueueSize
      BY <1>2, <2>1 DEF Dequeue, TypeOK
    <3> QED
      BY <1>2, <2>1, <3>1 DEF Dequeue, TypeOK, counters
  <2>2. CASE ~Dequeue(c)
    BY <1>2, <1>6, <2>2
       DEF Receive, ReceiveStep, CountReceive, ReceiveClosed, ReceiveCanceled, TypeOK, counters, history
  <2> QED
    BY <2>1, <2>2
<1>7. ASSUME NEW p \in Producers, NEW c \in Consumers, Handover(p, c) PROVE TypeOK'
  <2>1. submit[p].msg \in Messages
    BY <1>1, <1>7 DEF Handover, At
  <2> QED
    BY <1>2, <1>7, <2>1 DEF Handover, Goto, TypeOK, counters
<1>8. CASE Close \/ UNCHANGED vars
  BY <1>2, <1>8 DEF Close, vars, TypeOK, counters, history
<1> QED
  BY <1>3, <1>4, <1>5, <1>6, <1>7, <1>8 DEF Next

LEMMA BooksKept == ASSUME ControllerInv, [Next]_vars PROVE Bookkeeping'
<1>1. ASSUME NEW p \in Producers, SubmitStep(p) \/ SubmitCanceled(p) PROVE Bookkeeping'
  BY <1>1, QuietCall, ErrorReturn, EnqueueKeeps, CountSubmitKeeps, EvictKeeps
     DEF SubmitStep, StrategyStep
<1>2. ASSUME NEW p \in Producers, NEW m \in Messages, Submit(p, m) PROVE Bookkeeping'
  BY <1>2, QuietCall
<1>3. ASSUME NEW c \in Consumers, Receive(c) \/ ReceiveStep(c) \/ ReceiveCanceled(c)
      PROVE  Bookkeeping'
  BY <1>3, DequeueKeeps, ConsumerKeeps DEF ReceiveStep
<1>4. ASSUME NEW p \in Producers, NEW c \in Consumers, Handover(p, c) PROVE Bookkeeping'
  BY <1>4, HandoverKeeps
<1>5. CASE Close \/ UNCHANGED vars
  BY <1>5, ConsumerKeeps
<1> QED
  BY <1>1, <1>2, <1>3, <1>4, <1>5 DEF Next

LEMMA ControllerHolds == Spec => []ControllerInv
<1>1. ControllerInv /\ [Next]_vars => ControllerInv'
  BY TypeKept, BooksKept DEF ControllerInv
<1> QED
  BY <1>1, InitController, PTL DEF Spec

\* The controller keeps its types: the queue never exceeds its capacity.
THEOREM ControllerType == Spec => []TypeOK
<1>1. ControllerInv => TypeOK
  BY DEF ControllerInv
<1> QED
  BY <1>1, ControllerHolds, PTL

\* The counter is the queue, corrected by the calls that have yet to count and
\* by all that was ever evicted.
THEOREM LoadIsAccounted == Spec => []LoadAccounts
<1>1. ControllerInv => LoadAccounts
  BY DEF ControllerInv, Bookkeeping
<1> QED
  BY <1>1, ControllerHolds, PTL

\* No message is in two places, an accepted one is in one, and a refused one
\* is in none.
THEOREM MessagesHaveOneFate == Spec => []OneFate
<1>1. ControllerInv => OneFate
  <2> SUFFICES ASSUME ControllerInv, NEW m \in Messages
               PROVE  /\ Cardinality({X \in {Queued, received, evicted} : m \in X}) <= 1
                      /\ result[m] = "ok" => m \in Queued \cup received \cup evicted
                      /\ result[m] \in {"canceled", "dropped", "rejected", "panic"} =>
                            m \notin Queued \cup received \cup evicted
    BY DEF OneFate
  <2> DEFINE places == {X \in {Queued, received, evicted} : m \in X}
  <2>1. \A X, Y \in places : X = Y
    BY DEF ControllerInv, Bookkeeping, Apart
  <2>2. places = {} \/ \E X : places = {X}
    BY <2>1
  <2>3. Cardinality(places) <= 1
    <3> HIDE DEF places
    <3>1. CASE places = {}
      BY <3>1, FS_EmptySet
    <3>2. CASE \E X : places = {X}
      BY <3>2, FS_Singleton
    <3> QED
      BY <2>2, <3>1, <3>2
  <2>4. m \in Queued \cup received \cup evicted <=> Accepted(m)
    BY DEF ControllerInv, Bookkeeping, PlacedExactly
  <2>5. result[m] \in {"canceled", "dropped", "rejected", "panic"} => ~Accepted(m)
    BY DEF ControllerInv, Bookkeeping, CallsCarry, Accepted, At
  <2> QED
    BY <2>3, <2>4, <2>5 DEF Accepted
<1> QED
  BY <1>1, ControllerHolds, PTL

-----------------------------------------------------------------------------
(* The circuit breaker.                                                      *)

\* A closed breaker counts exactly the failures in a row; the other states
\* may have counted more, which closing forgets.
CountsInARow == state = "Closed" => failures = streak

BreakerInv == BreakerTypeOK /\ CountsInARow /\ TripsInTime /\ ProbesInFlight

LEMMA BumpType ==
    ASSUME NEW n \in 0 .. FailureBound
    PROVE  /\ Bump(n) \in 0 .. FailureBound
           /\ n < FailureBound => Bump(n) = n + 1
           /\ Bump(n) > 0
BY BoundAssumption, ConfigAssumption DEF Bump

LEMMA InitBreaker == BreakerInit => BreakerInv
BY BoundAssumption, ConfigAssumption
   DEF BreakerInit, BreakerInv, BreakerTypeOK, States, CountsInARow, TripsInTime, ProbesInFlight

\* The types are kept by every step.
LEMMA BreakerTypeKept == ASSUME BreakerTypeOK, [BreakerNext]_breakerVars PROVE BreakerTypeOK'
<1>1. ASSUME NEW c \in Callers
      PROVE  /\ Aged \in [Callers -> {"idle", "fresh", "late"}]
             /\ [Aged EXCEPT ![c] = "fresh"] \in [Callers -> {"idle", "fresh", "late"}]
             /\ [Aged EXCEPT ![c] = "idle"] \in [Callers -> {"idle", "fresh", "late"}]
             /\ [call EXCEPT ![c] = "fresh"] \in [Callers -> {"idle", "fresh", "late"}]
             /\ [call EXCEPT ![c] = "idle"] \in [Callers -> {"idle", "fresh", "late"}]
  BY DEF Aged, BreakerTypeOK
<1>2. 0 \in 0 .. FailureBound /\ 0 \in 0 .. MaxRequests
  BY BoundAssumption, ConfigAssumption
<1>3. CASE \E c \in Callers : Begin(c)
  <2>1. PICK c \in Callers : AdmitClosed(c) \/ AdmitOpen(c) \/ AdmitHalfOpen(c)
    BY <1>3 DEF Begin
  <2>2. CASE AdmitClosed(c)
    BY <1>1, <2>2 DEF AdmitClosed, BreakerTypeOK
  <2>3. CASE AdmitOpen(c)
    BY <1>1, <1>2, <2>3 DEF AdmitOpen, BreakerTypeOK, States
  <2>4. CASE AdmitHalfOpen(c)
    <3>1. requests + 1 \in 0 .. MaxRequests
      BY <2>4, ConfigAssumption DEF AdmitHalfOpen, BreakerTypeOK
    <3> QED
      BY <1>1, <2>4, <3>1 DEF AdmitHalfOpen, BreakerTypeOK
  <2> QED
    BY <2>1, <2>2, <2>3, <2>4
<1>4. CASE \E c \in Callers : Succeed(c)
  BY <1>1, <1>2, <1>4 DEF Succeed, ToClosed, BreakerTypeOK, States
<1>5. CASE \E c \in Callers : Fail(c)
  <2>1. Bump(failures) \in 0 .. FailureBound /\ Bump(streak) \in 0 .. FailureBound
    BY BumpType DEF BreakerTypeOK
  <2> QED
    BY <1>1, <1>2, <1>5, <2>1 DEF Fail, BreakerTypeOK, States
<1>6. CASE Expire
  BY <1>6 DEF Expire, BreakerTypeOK
<1>7. CASE Reset
  <2>1. Aged \in [Callers -> {"idle", "fresh", "late"}]
    BY DEF Aged, BreakerTypeOK
  <2> QED
    BY <1>2, <1>7, <2>1 DEF Reset, ToClosed, BreakerTypeOK, States
<1>8. CASE UNCHANGED breakerVars
  BY <1>8 DEF breakerVars, BreakerTypeOK
<1> QED
  BY <1>3, <1>4, <1>5, <1>6, <1>7, <1>8 DEF BreakerNext

\* What a closed breaker has counted, and when it trips.
LEMMA CountKept ==
    ASSUME BreakerInv, [BreakerNext]_breakerVars
    PROVE  /\ CountsInARow' /\ TripsInTime'
           /\ state = "Closed" /\ state' = "Open" => streak' >= MaxFailures
<1>1. /\ failures \in 0 .. FailureBound /\ streak \in 0 .. FailureBound
      /\ state = "Closed" => failures = streak /\ (streak = 0 \/ streak < MaxFailures)
  BY DEF BreakerInv, BreakerTypeOK, CountsInARow, TripsInTime
<1>2. CASE \E c \in Callers : Fail(c)
  <2>1. PICK c \in Callers : Fail(c)
    BY <1>2
  <2>2. CASE state = "Closed"
    <3>1. failures' = streak' /\ streak' = Bump(streak)
      BY <1>1, <2>1, <2>2 DEF Fail
    <3>2. streak < FailureBound
      BY <1>1, <2>2, BoundAssumption, ConfigAssumption
    <3>3. streak' = streak + 1
      BY <1>1, <3>1, <3>2, BumpType
    <3>4. Trips <=> streak + 1 >= MaxFailures
      BY <1>1, <2>2 DEF Trips
    <3>5. state' = "Open" <=> Trips
      BY <2>1, <2>2 DEF Fail
    <3> QED
      BY <1>1, <2>2, <3>1, <3>3, <3>4, <3>5, ConfigAssumption DEF CountsInARow, TripsInTime
  <2>3. CASE state # "Closed"
    BY <2>1, <2>3 DEF Fail, CountsInARow, TripsInTime
  <2> QED
    BY <2>2, <2>3
<1>3. CASE \E c \in Callers : Succeed(c)
  BY <1>1, <1>3 DEF Succeed, ToClosed, CountsInARow, TripsInTime
<1>4. CASE Reset
  BY <1>4 DEF Reset, ToClosed, CountsInARow, TripsInTime
<1>5. CASE Expire \/ UNCHANGED breakerVars
  BY <1>1, <1>5 DEF Expire, breakerVars, CountsInARow, TripsInTime
<1>6. CASE \E c \in Callers : Begin(c)
  BY <1>1, <1>6 DEF Begin, AdmitClosed, AdmitOpen, AdmitHalfOpen, CountsInARow, TripsInTime
<1> QED
  BY <1>2, <1>3, <1>4, <1>5, <1>6 DEF BreakerNext

\* The probes of a half-open breaker: one more than it counted, all running.
LEMMA ProbesKept == ASSUME BreakerInv, [BreakerNext]_breakerVars PROVE ProbesInFlight'
<1>1. IsFiniteSet(Fresh) /\ BreakerTypeOK
  BY CallersAssumption, FS_Subset DEF Fresh, BreakerInv
<1>2. SUFFICES ASSUME state' = "HalfOpen"
               PROVE  Cardinality(Fresh') = requests' + 1
  BY DEF ProbesInFlight
<1>3. CASE \E c \in Callers : AdmitOpen(c)
  <2>1. PICK c \in Callers : AdmitOpen(c)
    BY <1>3
  <2>2. \A x \in Callers : Aged[x] # "fresh"
    BY DEF Aged
  <2>3. call' = [Aged EXCEPT ![c] = "fresh"] /\ requests' = 0
    BY <2>1 DEF AdmitOpen
  <2>4. Fresh' = {c}
    BY <2>2, <2>3 DEF Fresh, Aged
  <2>5. Cardinality({c}) = 1
    BY FS_Singleton
  <2> QED
    BY <2>3, <2>4, <2>5
<1>4. CASE \E c \in Callers : ~Running(c) /\ AdmitHalfOpen(c)
  <2>1. PICK c \in Callers : ~Running(c) /\ AdmitHalfOpen(c)
    BY <1>4
  <2>2. call' = [call EXCEPT ![c] = "fresh"] /\ requests' = requests + 1 /\ state = "HalfOpen"
    BY <2>1 DEF AdmitHalfOpen
  <2>3. Fresh' = Fresh \cup {c} /\ c \notin Fresh
    BY <1>1, <2>1, <2>2 DEF Fresh, Running, BreakerTypeOK
  <2>4. Cardinality(Fresh') = Cardinality(Fresh) + 1
    BY <1>1, <2>3, FS_AddElement
  <2> QED
    BY <2>2, <2>4 DEF BreakerInv, ProbesInFlight
<1>5. CASE \E c \in Callers : AdmitClosed(c)
  BY <1>2, <1>5 DEF AdmitClosed
<1>6. CASE \E c \in Callers : Succeed(c)
  BY <1>2, <1>6 DEF Succeed, ToClosed
<1>7. CASE \E c \in Callers : Fail(c)
  BY <1>2, <1>7 DEF Fail, Trips
<1>8. CASE Reset
  BY <1>2, <1>8 DEF Reset, ToClosed
<1>9. CASE Expire \/ UNCHANGED breakerVars
  BY <1>2, <1>9 DEF Expire, breakerVars, Fresh, BreakerInv, ProbesInFlight
<1> QED
  BY <1>3, <1>4, <1>5, <1>6, <1>7, <1>8, <1>9 DEF BreakerNext, Begin

LEMMA BreakerHolds == BreakerSpec => []BreakerInv
<1>1. BreakerInv /\ [BreakerNext]_breakerVars => BreakerInv'
  BY BreakerTypeKept, CountKept, ProbesKept DEF BreakerInv
<1> QED
  BY <1>1, InitBreaker, PTL DEF BreakerSpec

\* The breaker keeps its types: it never counts more than MaxRequests probes.
THEOREM BreakerType == BreakerSpec => []BreakerTypeOK
<1>1. BreakerInv => BreakerTypeOK
  BY DEF BreakerInv
<1> QED
  BY <1>1, BreakerHolds, PTL

\* A half-open breaker only waits for probes that are still running.
THEOREM BreakerNotStuck == BreakerSpec => []ProbesInFlight
<1>1. BreakerInv => ProbesInFlight
  BY DEF BreakerInv
<1> QED
  BY <1>1, BreakerHolds, PTL

\* A closed breaker trips with MaxFailures failures in a row, and not later ...
THEOREM BreakerTripsInTime == BreakerSpec => []TripsInTime
<1>1. BreakerInv => TripsInTime
  BY DEF BreakerInv
<1> QED
  BY <1>1, BreakerHolds, PTL

\* ... and not sooner.
THEOREM BreakerTripsOnlyInARow == BreakerSpec => TripsOnlyInARow
<1>1. BreakerInv /\ [BreakerNext]_breakerVars =>
          [state = "Closed" /\ state' = "Open" => streak' >= MaxFailures]_breakerVars
  BY CountKept
<1> QED
  BY <1>1, BreakerHolds, PTL DEF BreakerSpec, TripsOnlyInARow
=============================================================================
