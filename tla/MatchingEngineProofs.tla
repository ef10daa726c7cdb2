------------------------- MODULE MatchingEngineProofs -------------------------
(***************************************************************************)
(* Theorems about MatchingEngine for every set of orders, prices,          *)
(* quantities and callers, every capacity of the event channel and every   *)
(* behaviour of the callers.                                               *)
(***************************************************************************)
EXTENDS MatchingEngineProperties, FiniteSetTheorems, SequenceTheorems,
        WellFoundedInduction, TLAPS

-----------------------------------------------------------------------------
(* Sequences and prices.                                                    *)

\* no order is twice in a queue
Distinct(q) == \A i, j \in DOMAIN q : q[i] = q[j] => i = j

\* list.Remove takes out one place and closes the gap.
LEMMA WithoutPlaces ==
    ASSUME NEW S, NEW q \in Seq(S), NEW o, NEW n \in DOMAIN q, q[n] = o
    PROVE  \E p \in DOMAIN q :
              /\ q[p] = o
              /\ Without(q, o) \in Seq(S)
              /\ DOMAIN Without(q, o) = 1 .. Len(q) - 1
              /\ \A k \in 1 .. Len(q) - 1 :
                    Without(q, o)[k] = IF k < p THEN q[k] ELSE q[k + 1]
<1> DEFINE i == CHOOSE j \in DOMAIN q : q[j] = o
           a == SubSeq(q, 1, i - 1)
           b == SubSeq(q, i + 1, Len(q))
<1>1. i \in 1 .. Len(q) /\ i \in DOMAIN q /\ q[i] = o
  BY LenProperties
<1>2. Without(q, o) = a \o b
  BY DEF Without
<1>3. /\ a \in Seq(S)
      /\ Len(a) = i - 1
      /\ \A k \in 1 .. i - 1 : a[k] = q[k]
  <2> HIDE DEF i
  <2>1. \A k \in 1 .. i - 1 : q[k] \in S
    BY <1>1, ElementOfSeq, LenProperties
  <2>2. Len(SubSeq(q, 1, i - 1)) = IF 1 <= i - 1 THEN (i - 1) - 1 + 1 ELSE 0
    BY <1>1, <2>1, SubSeqProperties, LenProperties
  <2>3. \A k \in 1 .. (i - 1) - 1 + 1 : SubSeq(q, 1, i - 1)[k] = q[1 + k - 1]
    BY <1>1, <2>1, SubSeqProperties, LenProperties
  <2>4. SubSeq(q, 1, i - 1) \in Seq(S)
    BY <1>1, <2>1, SubSeqProperties, LenProperties
  <2> QED
    BY <1>1, <2>2, <2>3, <2>4, LenProperties
<1>4. /\ b \in Seq(S)
      /\ Len(b) = Len(q) - i
      /\ \A k \in 1 .. Len(q) - i : b[k] = q[i + k]
  <2> HIDE DEF i
  <2>1. \A k \in i + 1 .. Len(q) : q[k] \in S
    BY <1>1, ElementOfSeq, LenProperties
  <2>2. Len(SubSeq(q, i + 1, Len(q))) = IF i + 1 <= Len(q) THEN Len(q) - (i + 1) + 1 ELSE 0
    BY <1>1, <2>1, SubSeqProperties, LenProperties
  <2>3. \A k \in 1 .. Len(q) - (i + 1) + 1 :
            SubSeq(q, i + 1, Len(q))[k] = q[(i + 1) + k - 1]
    BY <1>1, <2>1, SubSeqProperties, LenProperties
  <2>4. SubSeq(q, i + 1, Len(q)) \in Seq(S)
    BY <1>1, <2>1, SubSeqProperties, LenProperties
  <2> QED
    BY <1>1, <2>2, <2>3, <2>4, LenProperties
<1> HIDE DEF a, b, i
<1>5. /\ a \o b \in Seq(S)
      /\ Len(a \o b) = Len(a) + Len(b)
      /\ \A k \in 1 .. Len(a) + Len(b) :
            (a \o b)[k] = IF k <= Len(a) THEN a[k] ELSE b[k - Len(a)]
  BY <1>3, <1>4, ConcatProperties
<1>6. Len(q) \in Nat /\ DOMAIN (a \o b) = 1 .. Len(a \o b)
  BY <1>5, LenProperties
<1>7. DOMAIN (a \o b) = 1 .. Len(q) - 1 /\ Len(a) + Len(b) = Len(q) - 1
  BY <1>1, <1>3, <1>4, <1>5, <1>6
<1>8. ASSUME NEW k \in 1 .. Len(q) - 1
      PROVE  (a \o b)[k] = IF k < i THEN q[k] ELSE q[k + 1]
  <2>1. CASE k < i
    BY <1>1, <1>3, <1>5, <1>6, <1>7, <2>1
  <2>2. CASE ~(k < i)
    <3>1. (a \o b)[k] = b[k - (i - 1)]
      <4>1. k \in 1 .. Len(a) + Len(b) /\ Len(a) = i - 1 /\ ~(k <= Len(a))
        BY <1>1, <1>3, <1>6, <1>7, <2>2
      <4> QED
        BY <1>5, <4>1
    <3>2. b[k - (i - 1)] = q[i + (k - (i - 1))]
      BY <1>1, <1>4, <1>6, <2>2
    <3>3. i + (k - (i - 1)) = k + 1
      BY <1>1, <1>6
    <3> QED
      BY <2>2, <3>1, <3>2, <3>3
  <2> QED
    BY <2>1, <2>2
<1> QED
  BY <1>1, <1>2, <1>5, <1>7, <1>8

\* A queue without an order is a queue, and holds nothing that was not in it
\* before; the order is gone if it was there once.
LEMMA WithoutIsSubqueue ==
    ASSUME NEW S, NEW q \in Seq(S), NEW o
    PROVE  /\ Without(q, o) \in Seq(S)
           /\ \A i \in DOMAIN Without(q, o) : \E j \in DOMAIN q : Without(q, o)[i] = q[j]
           /\ Distinct(q) => /\ Distinct(Without(q, o))
                             /\ \A i \in DOMAIN Without(q, o) : Without(q, o)[i] # o
<1>1. CASE ~\E i \in DOMAIN q : q[i] = o
  BY <1>1 DEF Without
<1>2. CASE \E i \in DOMAIN q : q[i] = o
  <2> DEFINE w == Without(q, o)
  <2>1. Len(q) \in Nat /\ DOMAIN q = 1 .. Len(q)
    BY LenProperties
  <2>2. PICK p \in DOMAIN q :
              /\ q[p] = o
              /\ w \in Seq(S)
              /\ DOMAIN w = 1 .. Len(q) - 1
              /\ \A k \in 1 .. Len(q) - 1 : w[k] = IF k < p THEN q[k] ELSE q[k + 1]
    BY <1>2, WithoutPlaces
  <2> HIDE DEF w
  <2>3. \A k \in DOMAIN w : k \in DOMAIN q /\ k + 1 \in DOMAIN q /\ k \in Nat
    BY <2>1, <2>2
  <2>4. \A k \in DOMAIN w : \E j \in DOMAIN q : w[k] = q[j]
    BY <2>2, <2>3
  <2>5. ASSUME Distinct(q), NEW k \in DOMAIN w PROVE w[k] # o
    BY <2>1, <2>2, <2>3, <2>5 DEF Distinct
  <2>6. ASSUME Distinct(q), NEW j \in DOMAIN w, NEW k \in DOMAIN w, w[j] = w[k] PROVE j = k
    <3> DEFINE g(x) == IF x < p THEN x ELSE x + 1
    <3>1. g(j) \in DOMAIN q /\ g(k) \in DOMAIN q /\ w[j] = q[g(j)] /\ w[k] = q[g(k)]
      BY <2>2, <2>3
    <3>2. g(j) = g(k)
      BY <2>6, <3>1 DEF Distinct
    <3> QED
      BY <2>1, <2>2, <2>3, <3>2
  <2> QED
    BY <2>2, <2>4, <2>5, <2>6 DEF Distinct, w
<1> QED
  BY <1>1, <1>2

\* A finite set of numbers has a greatest and a least one.
LEMMA FiniteExtremes ==
    ASSUME NEW S \in SUBSET Nat, IsFiniteSet(S), S # {}
    PROVE  /\ \E m \in S : \A x \in S : m >= x
           /\ \E m \in S : \A x \in S : m <= x
<1> DEFINE Above(x) == {y \in S : y > x}
           Below(x) == {y \in S : y < x}
           R == StrictSubsetOrdering(S)
<1>1. IsFiniteSet(S) /\ S \subseteq Nat
  OBVIOUS
<1>2. IsWellFoundedOn(R, SUBSET S)
  BY <1>1, FS_StrictSubsetOrderingWellFounded, FS_FiniteSubsetsOfFinite
<1>3. \E m \in S : \A x \in S : m >= x
  <2>1. PICK U \in {Above(x) : x \in S} : \A V \in {Above(x) : x \in S} : ~(<<V, U>> \in R)
    <3>1. {Above(x) : x \in S} \subseteq SUBSET S /\ {Above(x) : x \in S} # {}
      OBVIOUS
    <3> HIDE DEF R, Above
    <3> QED
      BY <1>2, <3>1, WFMin
  <2>2. PICK m \in S : U = Above(m)
    BY <2>1
  <2>3. ASSUME NEW x \in S, x > m
        PROVE  FALSE
    <3>0. \A y \in S : (y > x => y > m) /\ ~(x > x)
      BY <1>1, <2>3
    <3>1. Above(x) \subseteq Above(m) /\ x \in Above(m) /\ x \notin Above(x)
      BY <2>3, <3>0
    <3>2. <<Above(x), Above(m)>> \in R
      BY <3>1 DEF StrictSubsetOrdering
    <3> QED
      BY <2>1, <2>2, <3>2
  <2> QED
    BY <1>1, <2>3
<1>4. \E m \in S : \A x \in S : m <= x
  <2>1. PICK U \in {Below(x) : x \in S} : \A V \in {Below(x) : x \in S} : ~(<<V, U>> \in R)
    <3>1. {Below(x) : x \in S} \subseteq SUBSET S /\ {Below(x) : x \in S} # {}
      OBVIOUS
    <3> HIDE DEF R, Below
    <3> QED
      BY <1>2, <3>1, WFMin
  <2>2. PICK m \in S : U = Below(m)
    BY <2>1
  <2>3. ASSUME NEW x \in S, x < m
        PROVE  FALSE
    <3>0. \A y \in S : (y < x => y < m) /\ ~(x < x)
      BY <1>1, <2>3
    <3>1. Below(x) \subseteq Below(m) /\ x \in Below(m) /\ x \notin Below(x)
      BY <2>3, <3>0
    <3>2. <<Below(x), Below(m)>> \in R
      BY <3>1 DEF StrictSubsetOrdering
    <3> QED
      BY <2>1, <2>2, <3>2
  <2> QED
    BY <1>1, <2>3
<1> QED
  BY <1>3, <1>4

\* So has a set of prices: GetBest finds a level unless its tree is empty.
LEMMA PricesHaveExtremes ==
    ASSUME NEW S \in SUBSET Prices, S # {}
    PROVE  /\ \E m \in S : \A x \in S : m >= x
           /\ \E m \in S : \A x \in S : m <= x
BY FiniteExtremes, PricesAssumption, FS_Subset

\* Induction from 0 to n, for a set.
LEMMA UpTo ==
    ASSUME NEW n \in Nat, NEW T, 0 \in T, \A k \in 1 .. n : k - 1 \in T => k \in T
    PROVE  0 .. n \subseteq T
<1> DEFINE S == (0 .. n) \ T
<1> SUFFICES ASSUME S # {} PROVE FALSE
  OBVIOUS
<1>1. IsFiniteSet(S) /\ S \in SUBSET Nat
  <2>1. IsFiniteSet(0 .. n) /\ S \in SUBSET (0 .. n)
    BY FS_Interval
  <2>2. S \in SUBSET Nat
    OBVIOUS
  <2> HIDE DEF S
  <2>3. IsFiniteSet(S)
    BY <2>1, FS_Subset
  <2> QED
    BY <2>2, <2>3
<1>2. PICK m \in S : \A x \in S : m <= x
  <2> HIDE DEF S
  <2> QED
    BY <1>1, FiniteExtremes
<1>3. m \in 1 .. n /\ m - 1 \in 0 .. n
  BY <1>2
<1>4. m - 1 \in T
  BY <1>2, <1>3
<1> QED
  BY <1>2, <1>3, <1>4

-----------------------------------------------------------------------------
(* Types.                                                                   *)

\* The references are valid: what a level, the index, the call in progress
\* and a ModifyOrder point at are orders that were placed.
WellFormed ==
    /\ call.pc # "idle" => call.order \in Orders /\ Born(call.order) /\ call.pending # <<>>
    /\ \A l \in Orders : \A i \in DOMAIN queue[l] : Born(queue[l][i])
    /\ \A id \in Orders : orderIndex[id] # None =>
          Born(orderIndex[id]) /\ level[orderIndex[id]] \in Orders
    /\ \A c \in Callers :
          /\ modify[c].pc \in {"cancel", "add"} =>
                /\ modify[c].id \in Orders
                /\ modify[c].original \in Orders /\ Born(modify[c].original)
                /\ modify[c].price \in Prices /\ modify[c].quantity \in Quantities
          /\ modify[c].pc = "event" => modify[c].new \in Orders

TypeInv == TypeOK /\ WellFormed

LEMMA BornOrder ==
    ASSUME TypeOK, NEW o \in Orders, Born(o)
    PROVE  order[o] \in Order
BY DEF TypeOK, Born, Blank

LEMMA AmendedTerms ==
    ASSUME TypeOK, NEW o \in Orders, order[o] \in Order, NEW q, NEW st
    PROVE  /\ Amended(o, q, st)[o].status = st
           /\ Amended(o, q, st)[o].quantity = q
           /\ Amended(o, q, st)[o].id = order[o].id
           /\ Amended(o, q, st)[o].side = order[o].side
           /\ Amended(o, q, st)[o].type = order[o].type
           /\ Amended(o, q, st)[o].price = order[o].price
           /\ \A x \in Orders : x # o => Amended(o, q, st)[x] = order[x]
<1> DEFINE new == [order[o] EXCEPT !.quantity = q, !.status = st]
<1>1. Amended(o, q, st) = [order EXCEPT ![o] = new]
  BY DEF Amended
<1>2. /\ new.status = st /\ new.quantity = q /\ new.id = order[o].id
      /\ new.side = order[o].side /\ new.type = order[o].type /\ new.price = order[o].price
  BY DEF Order
<1> HIDE DEF new
<1> QED
  BY <1>1, <1>2 DEF TypeOK

LEMMA AmendedOrder ==
    ASSUME TypeOK, NEW o \in Orders, order[o] \in Order,
           NEW q \in Nat, NEW st \in Statuses \ {"Unborn"}
    PROVE  /\ Amended(o, q, st) \in [Orders -> Order \cup {Blank}]
           /\ Amended(o, q, st)[o].status # "Unborn"
           /\ \A x \in Orders : x # o => Amended(o, q, st)[x] = order[x]
<1> DEFINE new == [order[o] EXCEPT !.quantity = q, !.status = st]
<1>1. Amended(o, q, st) = [order EXCEPT ![o] = new]
  BY DEF Amended
<1>2. new \in Order /\ new.status # "Unborn"
  BY DEF Order
<1> HIDE DEF new
<1> QED
  BY <1>1, <1>2 DEF TypeOK

LEMMA BlankPrice == Blank.price \in Prices
BY PricesAssumption DEF Blank

LEMMA InitType == Init => TypeInv
<1> SUFFICES ASSUME Init PROVE TypeInv
  OBVIOUS
<1>1. TypeOK
  <2>1. Idle \in CallType /\ NoModify \in ModifyType
    BY DEF Idle, NoModify, CallType, ModifyType
  <2>2. closed \in BOOLEAN
    BY DEF Init
  <2>3. eventChannel \in Seq([type : EventTypes, order : Orders])
        /\ Len(eventChannel) <= EventCapacity
    BY CapacityAssumption, EmptySeq DEF Init
  <2>4. /\ order \in [Orders -> Order \cup {Blank}]
        /\ tree \in [Sides -> SUBSET Orders]
        /\ queue \in [Orders -> Seq(Orders)]
        /\ volume \in [Orders -> Int]
    BY DEF Init
  <2>5. /\ orderIndex \in [Orders -> Orders \cup {None}]
        /\ level \in [Orders -> Orders \cup {None}]
        /\ asked \in [Orders -> Nat]
        /\ traded \in [Orders -> Nat]
    BY DEF Init
  <2>6. call \in CallType /\ modify \in [Callers -> ModifyType]
    BY <2>1 DEF Init
  <2> QED
    BY <2>2, <2>3, <2>4, <2>5, <2>6 DEF TypeOK
<1>2. WellFormed
  BY DEF Init, WellFormed, Idle, NoModify
<1> QED
  BY <1>1, <1>2 DEF TypeInv

\* AddOrder and the replacement of ModifyOrder
LEMMA BeginAddType ==
    ASSUME TypeInv, NEW o \in Orders, NEW id \in Orders, NEW side \in Sides, NEW type \in Types,
           NEW price \in Prices, NEW q \in Quantities, NEW c \in Callers \cup {None},
           BeginAdd(o, id, side, type, price, q, c)
    PROVE  /\ order' \in [Orders -> Order \cup {Blank}]
           /\ call' \in CallType
           /\ asked' \in [Orders -> Nat]
           /\ call'.order = o /\ call'.pending # <<>>
           /\ \A x \in Orders : Born(x) => order'[x] = order[x]
           /\ Born(o)' /\ order'[o] \in Order
           /\ \A x \in Orders : Born(x) => Born(x)'
<1> DEFINE r == [id |-> id, side |-> side, type |-> type, price |-> price,
                 quantity |-> q, status |-> "New"]
<1>1. q \in Nat
  BY QuantitiesAssumption
<1>2. r \in Order
  BY <1>1 DEF Order, Statuses
<1>3. order' = [order EXCEPT ![o] = r]
  BY DEF BeginAdd
<1>4. call' \in CallType /\ call'.order = o /\ call'.pending # <<>>
  BY <1>1 DEF BeginAdd, CallType, EventTypes
<1>5. asked' \in [Orders -> Nat]
  BY <1>1 DEF BeginAdd, TypeInv, TypeOK
<1>6. order' \in [Orders -> Order \cup {Blank}] /\ order'[o] = r
      /\ \A x \in Orders : x # o => order'[x] = order[x]
  BY <1>2, <1>3 DEF TypeInv, TypeOK
<1>7. ~Born(o)
  BY DEF BeginAdd
<1> QED
  BY <1>2, <1>4, <1>5, <1>6, <1>7 DEF Born

\* A send keeps the event channel within its capacity (engine.go:418-424).
LEMMA SendType ==
    ASSUME TypeOK, NEW t \in EventTypes, NEW o \in Orders, Send([type |-> t, order |-> o])
    PROVE  /\ eventChannel' \in Seq([type : EventTypes, order : Orders])
           /\ Len(eventChannel') <= EventCapacity
<1> DEFINE E == [type : EventTypes, order : Orders]
           e == [type |-> t, order |-> o]
<1>1. e \in E /\ eventChannel \in Seq(E) /\ Len(eventChannel) <= EventCapacity
  BY DEF TypeOK
<1>2. Len(eventChannel) \in Nat /\ EventCapacity \in Nat
  BY <1>1, LenProperties, CapacityAssumption
<1> HIDE DEF E, e
<1>3. Append(eventChannel, e) \in Seq(E)
      /\ Len(Append(eventChannel, e)) = Len(eventChannel) + 1
  BY <1>1, AppendProperties
<1>4. \/ eventChannel' = Append(eventChannel, e) /\ Len(eventChannel) < EventCapacity
      \/ eventChannel' = eventChannel
  BY DEF Send, e
<1>5. eventChannel' \in Seq(E) /\ Len(eventChannel') <= EventCapacity
  BY <1>1, <1>2, <1>3, <1>4
<1> QED
  BY <1>5 DEF E

\* AddOrder keeps the types and the references.
LEMMA AddOrderType == ASSUME TypeInv, AddOrder PROVE TypeInv'
<1>1. PICK o \in Orders, side \in Sides, type \in Types, q \in Quantities :
        \E id \in RequestIDs(o), price \in RequestPrices(type) :
            BeginAdd(o, id, side, type, price, q, None) /\ UNCHANGED modify
  BY DEF AddOrder
<1>2. PICK id \in RequestIDs(o), price \in RequestPrices(type) :
            BeginAdd(o, id, side, type, price, q, None) /\ UNCHANGED modify
  BY <1>1
<1>3. id \in Orders /\ price \in Prices
  <2>1. \A x \in Orders : Born(x) => order[x].id \in Orders
    BY BornOrder DEF TypeInv, Order
  <2> QED
    BY <1>2, <2>1, BlankPrice DEF RequestIDs, RequestPrices
<1>4. /\ order' \in [Orders -> Order \cup {Blank}]
      /\ call' \in CallType
      /\ asked' \in [Orders -> Nat]
      /\ call'.order = o /\ call'.pending # <<>>
      /\ Born(o)' /\ \A x \in Orders : Born(x) => Born(x)'
  BY <1>2, <1>3, BeginAddType
<1>5. UNCHANGED <<tree, queue, volume, orderIndex, level, modify, eventChannel, closed, traded>>
  BY <1>2 DEF BeginAdd, book
<1>6. TypeOK'
  BY <1>4, <1>5 DEF TypeInv, TypeOK
<1>7. WellFormed'
  <2>1. call'.order \in Orders /\ Born(call.order)' /\ call'.pending # <<>>
    BY <1>4 DEF Born
  <2>2. \A l \in Orders : \A i \in DOMAIN queue[l] : queue[l][i] \in Orders
    BY ElementOfSeq, LenProperties DEF TypeInv, TypeOK
  <2>3. \A l \in Orders : \A i \in DOMAIN queue[l] : Born(queue[l][i])'
    BY <1>4, <1>5, <2>2 DEF TypeInv, WellFormed, Born
  <2>4. \A x \in Orders : orderIndex[x] # None =>
            Born(orderIndex[x])' /\ level[orderIndex[x]] \in Orders
    BY <1>4, <1>5 DEF TypeInv, TypeOK, WellFormed, Born
  <2>5. \A c \in Callers : modify[c].pc \in {"cancel", "add"} => Born(modify[c].original)'
    BY <1>4, <1>5 DEF TypeInv, WellFormed, Born
  <2> QED
    BY <1>5, <2>1, <2>3, <2>4, <2>5 DEF TypeInv, WellFormed, Born
<1> QED
  BY <1>6, <1>7 DEF TypeInv

\* the members of a queue are orders that were placed
LEMMA QueueMembers ==
    ASSUME TypeInv, NEW l \in Orders
    PROVE  /\ DOMAIN queue[l] = 1 .. Len(queue[l]) /\ Len(queue[l]) \in Nat
           /\ \A i \in DOMAIN queue[l] : queue[l][i] \in Orders /\ Born(queue[l][i])
           /\ queue[l] # <<>> =>
                /\ Head(queue[l]) = queue[l][1] /\ 1 \in DOMAIN queue[l]
                /\ Tail(queue[l]) \in Seq(Orders)
                /\ \A i \in DOMAIN Tail(queue[l]) :
                      i + 1 \in DOMAIN queue[l] /\ Tail(queue[l])[i] = queue[l][i + 1]
<1>1. queue[l] \in Seq(Orders)
  BY DEF TypeInv, TypeOK
<1>2. DOMAIN queue[l] = 1 .. Len(queue[l]) /\ Len(queue[l]) \in Nat
  BY <1>1, LenProperties
<1>3. \A i \in DOMAIN queue[l] : queue[l][i] \in Orders /\ Born(queue[l][i])
  BY <1>1, <1>2, ElementOfSeq DEF TypeInv, WellFormed
<1>4. ASSUME queue[l] # <<>>
      PROVE  /\ Head(queue[l]) = queue[l][1] /\ 1 \in DOMAIN queue[l]
             /\ Tail(queue[l]) \in Seq(Orders)
             /\ \A i \in DOMAIN Tail(queue[l]) :
                   i + 1 \in DOMAIN queue[l] /\ Tail(queue[l])[i] = queue[l][i + 1]
  <2>1. Len(queue[l]) \in Nat \ {0}
    BY <1>1, <1>4, EmptySeq
  <2>2. /\ Tail(queue[l]) \in Seq(Orders)
        /\ Len(Tail(queue[l])) = Len(queue[l]) - 1
        /\ \A i \in 1 .. Len(Tail(queue[l])) : Tail(queue[l])[i] = queue[l][i + 1]
    BY <1>1, <1>4, HeadTailProperties
  <2>3. DOMAIN Tail(queue[l]) = 1 .. Len(Tail(queue[l]))
    BY <2>2, LenProperties
  <2>4. Head(queue[l]) = queue[l][1]
    BY <1>1, <1>4
  <2> QED
    BY <1>2, <2>1, <2>2, <2>3, <2>4
<1> QED
  BY <1>2, <1>3, <1>4

\* the level an order trades at, and the order at its front
LEMMA MatchFacts ==
    ASSUME TypeInv, call.pc = "match", NEW l \in Matchable
    PROVE  /\ call.order \in Orders /\ order[call.order] \in Order /\ Born(call.order)
           /\ l \in tree[Opposite(order[call.order].side)] /\ l \in Orders
           /\ Opposite(order[call.order].side) \in Sides
           /\ queue[l] # <<>>
           /\ Head(queue[l]) \in Orders /\ Born(Head(queue[l]))
           /\ order[Head(queue[l])] \in Order
           /\ call.remaining \in Nat /\ call.remaining > 0
<1>1. call.order \in Orders /\ order[call.order] \in Order /\ Born(call.order)
  BY BornOrder DEF TypeInv, WellFormed
<1>2. Opposite(order[call.order].side) \in Sides
  BY <1>1 DEF Opposite, Sides
<1>3. l \in tree[Opposite(order[call.order].side)] /\ queue[l] # <<>> /\ call.remaining > 0
  BY DEF Matchable, GetBest, IsEmpty
<1>4. l \in Orders
  BY <1>2, <1>3 DEF TypeInv, TypeOK
<1>5. Head(queue[l]) \in Orders /\ Born(Head(queue[l]))
  BY <1>3, <1>4, QueueMembers
<1>6. call.remaining \in Nat
  BY DEF TypeInv, TypeOK, CallType
<1> QED
  BY <1>1, <1>2, <1>3, <1>4, <1>5, <1>6, BornOrder DEF TypeInv

\* Delete only takes levels out of a tree.
LEMMA DeleteShrinks ==
    ASSUME TypeOK, NEW s \in Sides, NEW p
    PROVE  /\ Delete(s, p) \in [Sides -> SUBSET Orders]
           /\ \A r \in Sides : Delete(s, p)[r] \subseteq tree[r]
BY DEF Delete, Search, TypeOK

\* One round of MatchQuantity keeps the types and the references.
LEMMA MatchType == ASSUME TypeInv, Match PROVE TypeInv'
<1>1. PICK l \in Matchable : MatchQuantity(l)
  BY DEF Match
<1> DEFINE o == call.order
           maker == Head(queue[l])
           full == order[maker].quantity <= call.remaining
           fill == Smaller(order[maker].quantity, call.remaining)
<1>2. call.pc = "match"
  BY DEF Match
<1>3. /\ o \in Orders /\ l \in Orders /\ maker \in Orders /\ queue[l] # <<>>
      /\ order[maker] \in Order /\ Born(maker) /\ Born(o)
      /\ Opposite(order[o].side) \in Sides
      /\ call.remaining \in Nat
  BY <1>2, MatchFacts
<1>4. order[maker].quantity \in Nat
  BY <1>3 DEF Order
<1>5. /\ fill \in Nat /\ call.remaining - fill \in Nat
      /\ ~full => order[maker].quantity - fill \in Nat
  BY <1>3, <1>4 DEF Smaller
<1> HIDE DEF fill, full
<1>6. \E q \in Nat, st \in Statuses \ {"Unborn"} : order' = Amended(maker, q, st)
  BY <1>1, <1>4, <1>5 DEF MatchQuantity, full, fill, Statuses
<1>7. order' \in [Orders -> Order \cup {Blank}] /\ \A x \in Orders : Born(x) => Born(x)'
  <2>1. PICK q \in Nat, st \in Statuses \ {"Unborn"} : order' = Amended(maker, q, st)
    BY <1>6
  <2>2. /\ order' \in [Orders -> Order \cup {Blank}] /\ order'[maker].status # "Unborn"
        /\ \A x \in Orders : x # maker => order'[x] = order[x]
    <3> HIDE DEF maker
    <3>1. TypeOK /\ order[maker] \in Order /\ maker \in Orders
      BY <1>3 DEF TypeInv
    <3>2. /\ \A x \in Orders : x # maker => Amended(maker, q, st)[x] = order[x]
          /\ Amended(maker, q, st) \in [Orders -> Order \cup {Blank}]
          /\ Amended(maker, q, st)[maker].status # "Unborn"
      BY <2>1, <3>1, AmendedOrder
    <3> QED
      BY <2>1, <3>2
  <2> QED
    BY <2>2 DEF Born
<1>8. queue' \in [Orders -> Seq(Orders)]
      /\ \A k \in Orders : \A i \in DOMAIN queue'[k] :
            \E j \in DOMAIN queue[k] : queue'[k][i] = queue[k][j]
  <2>1. queue' = [queue EXCEPT ![l] = Tail(@)] \/ queue' = queue
    BY <1>1 DEF MatchQuantity
  <2>2. queue \in [Orders -> Seq(Orders)]
    BY DEF TypeInv, TypeOK
  <2>3. /\ Tail(queue[l]) \in Seq(Orders)
        /\ \A i \in DOMAIN Tail(queue[l]) :
              i + 1 \in DOMAIN queue[l] /\ Tail(queue[l])[i] = queue[l][i + 1]
    BY <1>3, QueueMembers
  <2> HIDE DEF maker, o
  <2>4. CASE queue' = queue
    BY <2>2, <2>4
  <2>5. CASE queue' = [queue EXCEPT ![l] = Tail(@)]
    <3>1. queue'[l] = Tail(queue[l]) /\ \A k \in Orders : k # l => queue'[k] = queue[k]
      BY <1>3, <2>2, <2>5
    <3>2. queue' \in [Orders -> Seq(Orders)]
      BY <1>3, <2>2, <2>3, <2>5
    <3> QED
      BY <2>3, <3>1, <3>2
  <2> QED
    BY <2>1, <2>4, <2>5
<1>9. tree' \in [Sides -> SUBSET Orders]
  BY <1>1, <1>3, DeleteShrinks DEF MatchQuantity, TypeInv, TypeOK
<1>10. call' \in CallType /\ call'.order = o /\ call'.pending # <<>>
  <2>1. call.pending \in Seq(EventTypes) /\ "OrderMatched" \in EventTypes
    BY DEF TypeInv, TypeOK, CallType, EventTypes
  <2>2. Append(call.pending, "OrderMatched") \in Seq(EventTypes)
        /\ Append(call.pending, "OrderMatched") # <<>>
    BY <2>1, AppendProperties
  <2>3. call' = [call EXCEPT !.remaining = @ - fill, !.pending = Append(@, "OrderMatched")]
    BY <1>1 DEF MatchQuantity, fill
  <2> QED
    BY <1>5, <2>2, <2>3 DEF TypeInv, TypeOK, CallType
<1>11. volume' \in [Orders -> Int]
  <2>1. volume' = [volume EXCEPT ![l] = @ - fill]
    BY <1>1 DEF MatchQuantity, fill
  <2>2. volume \in [Orders -> Int] /\ fill \in Int
    BY <1>5 DEF TypeInv, TypeOK
  <2> HIDE DEF maker, o
  <2>3. volume[l] - fill \in Int
    BY <1>3, <2>2
  <2> QED
    BY <1>3, <2>1, <2>2, <2>3
<1>12. traded' \in [Orders -> Nat]
  <2>1. traded' = [x \in Orders |-> IF x \in {o, maker} THEN traded[x] + fill ELSE traded[x]]
    BY <1>1 DEF MatchQuantity, fill
  <2>2. \A x \in Orders : traded[x] \in Nat /\ traded[x] + fill \in Nat
    BY <1>5 DEF TypeInv, TypeOK
  <2> HIDE DEF maker, o
  <2>3. \A x \in Orders : (IF x \in {o, maker} THEN traded[x] + fill ELSE traded[x]) \in Nat
    BY <2>2
  <2> QED
    BY <2>1, <2>3
<1>13. UNCHANGED <<orderIndex, level, modify, eventChannel, closed, asked>>
  BY <1>1 DEF MatchQuantity
<1>14. TypeOK'
  BY <1>7, <1>8, <1>9, <1>10, <1>11, <1>12, <1>13 DEF TypeInv, TypeOK
<1>15. WellFormed'
  <2>1. call'.order \in Orders /\ Born(call.order)' /\ call'.pending # <<>>
    BY <1>3, <1>7, <1>10 DEF Born
  <2>2. \A k \in Orders : \A i \in DOMAIN queue'[k] : Born(queue[k][i])'
    <3> SUFFICES ASSUME NEW k \in Orders, NEW i \in DOMAIN queue'[k]
                 PROVE  Born(queue[k][i])'
      OBVIOUS
    <3>1. PICK j \in DOMAIN queue[k] : queue'[k][i] = queue[k][j]
      BY <1>8
    <3>2. queue[k][j] \in Orders /\ Born(queue[k][j])
      BY QueueMembers
    <3> QED
      BY <1>7, <3>1, <3>2 DEF Born
  <2>3. \A x \in Orders : orderIndex[x] # None =>
            Born(orderIndex[x])' /\ level[orderIndex[x]] \in Orders
    BY <1>7, <1>13 DEF TypeInv, TypeOK, WellFormed, Born
  <2>4. \A c \in Callers : modify[c].pc \in {"cancel", "add"} => Born(modify[c].original)'
    BY <1>7, <1>13 DEF TypeInv, WellFormed, Born
  <2> QED
    BY <1>13, <2>1, <2>2, <2>3, <2>4 DEF TypeInv, WellFormed, Born
<1> QED
  BY <1>14, <1>15 DEF TypeInv

\* WellFormed after a step that places no order and keeps every ModifyOrder
\* where it is
LEMMA KeepsReferences ==
    ASSUME TypeInv, TypeOK',
           \A x \in Orders : Born(x) => Born(x)',
           call'.pc # "idle" => call'.order \in Orders /\ Born(call'.order) /\ call'.pending # <<>>,
           \A k \in Orders : \A i \in DOMAIN queue'[k] : Born(queue'[k][i]),
           \A x \in Orders : orderIndex'[x] # None =>
               Born(orderIndex'[x]) /\ level'[orderIndex'[x]] \in Orders,
           UNCHANGED modify
    PROVE  TypeInv'
<1>1. call'.pc # "idle" => Born(call.order)'
  BY DEF Born
<1>2. \A k \in Orders : \A i \in DOMAIN queue'[k] : queue'[k][i] \in Orders
  BY ElementOfSeq, LenProperties DEF TypeOK
<1>3. \A k \in Orders : \A i \in DOMAIN queue'[k] : Born(queue[k][i])'
  BY <1>2 DEF Born
<1>4. \A x \in Orders : orderIndex'[x] # None => Born(orderIndex[x])'
  BY DEF Born, TypeOK
<1>5. \A c \in Callers : modify[c].pc \in {"cancel", "add"} => Born(modify[c].original)'
  BY DEF TypeInv, WellFormed, Born
<1>6. WellFormed'
  BY <1>1, <1>3, <1>4, <1>5 DEF TypeInv, WellFormed
<1> QED
  BY <1>6 DEF TypeInv

\* The end of an AddOrder that books nothing.
LEMMA FinishType ==
    ASSUME TypeInv, FinishMarket \/ FinishFilledLimit
    PROVE  TypeInv'
<1> DEFINE o == call.order
<1>1. /\ call.pc = "match" /\ o \in Orders /\ Born(o) /\ order[o] \in Order
      /\ call.remaining \in Nat /\ call.pending # <<>>
  BY BornOrder DEF FinishMarket, FinishFilledLimit, TypeInv, WellFormed, TypeOK, CallType
<1>2. UNCHANGED <<tree, queue, volume, orderIndex, level, modify, eventChannel, closed, asked, traded>>
  BY DEF FinishMarket, FinishFilledLimit, book
<1>3. call' = [call EXCEPT !.pc = "emit"]
  BY DEF FinishMarket, FinishFilledLimit
<1>4. call' \in CallType /\ call'.order = o /\ call'.pending = call.pending
  BY <1>3 DEF TypeInv, TypeOK, CallType
<1>5. \E st \in Statuses \ {"Unborn"}, q \in Nat :
          order' = Amended(o, q, st)
  <2>1. CASE FinishMarket
    <3> DEFINE st == IF call.remaining = 0 THEN "Filled"
                     ELSE IF call.remaining < order[o].quantity
                     THEN "PartiallyFilled" ELSE order[o].status
    <3>1. st \in Statuses \ {"Unborn"}
      BY <1>1 DEF Statuses, Order, Born
    <3>2. order' = Amended(o, call.remaining, st)
      BY <2>1 DEF FinishMarket
    <3> QED
      BY <1>1, <3>1, <3>2
  <2>2. CASE FinishFilledLimit
    <3>1. order' = [order EXCEPT ![o].status = "Filled"]
      BY <2>2 DEF FinishFilledLimit, LimitStatus
    <3>2. order[o].quantity \in Nat /\ "Filled" \in Statuses \ {"Unborn"}
      BY <1>1 DEF Order, Statuses
    <3>3. [order[o] EXCEPT !.quantity = order[o].quantity, !.status = "Filled"]
              = [order[o] EXCEPT !.status = "Filled"]
      BY <1>1 DEF Order
    <3>4. order' = Amended(o, order[o].quantity, "Filled")
      BY <3>1, <3>3 DEF Amended
    <3> QED
      BY <3>2, <3>4
  <2> QED
    BY <2>1, <2>2
<1>6. order' \in [Orders -> Order \cup {Blank}] /\ \A x \in Orders : Born(x) => Born(x)'
  <2>1. PICK st \in Statuses \ {"Unborn"}, q \in Nat :
            order' = Amended(o, q, st)
    BY <1>5
  <2>2. /\ order' \in [Orders -> Order \cup {Blank}] /\ order'[o].status # "Unborn"
        /\ \A x \in Orders : x # o => order'[x] = order[x]
    <3> HIDE DEF o
    <3>1. TypeOK /\ order[o] \in Order /\ o \in Orders
      BY <1>1 DEF TypeInv
    <3>2. /\ \A x \in Orders : x # o => Amended(o, q, st)[x] = order[x]
          /\ Amended(o, q, st) \in [Orders -> Order \cup {Blank}]
          /\ Amended(o, q, st)[o].status # "Unborn"
      BY <1>1, <2>1, <3>1, AmendedOrder
    <3> QED
      BY <1>1, <2>1, <3>2
  <2> QED
    BY <2>2 DEF Born
<1>7. TypeOK'
  BY <1>2, <1>4, <1>6 DEF TypeInv, TypeOK
<1> QED
  BY <1>1, <1>2, <1>4, <1>6, <1>7, KeepsReferences DEF TypeInv, WellFormed

\* Booking what is left of a limit order.
LEMMA RestType == ASSUME TypeInv, FinishRestingLimit PROVE TypeInv'
<1> DEFINE o == call.order
           q == call.remaining
<1>1. /\ call.pc = "match" /\ o \in Orders /\ Born(o) /\ order[o] \in Order
      /\ q \in Nat /\ call.pending # <<>>
  BY BornOrder DEF FinishRestingLimit, TypeInv, WellFormed, TypeOK, CallType
<1>2. order[o].id \in Orders /\ order[o].side \in Sides
  BY <1>1 DEF Order
<1>3. PICK l \in Insert(o) : AddToBook(o, l, q)
  BY DEF FinishRestingLimit
<1>4. l \in Orders
  BY <1>1, <1>2, <1>3 DEF Insert, Search, TypeInv, TypeOK
<1>5. order' = Amended(o, q, LimitStatus(q, q))
      /\ call' = [call EXCEPT !.pc = "emit"]
      /\ UNCHANGED <<modify, eventChannel, closed, asked, traded>>
  BY DEF FinishRestingLimit
<1>6. call' \in CallType /\ call'.order = o /\ call'.pending = call.pending
  BY <1>5 DEF TypeInv, TypeOK, CallType
<1>7. order' \in [Orders -> Order \cup {Blank}] /\ \A x \in Orders : Born(x) => Born(x)'
  <2>1. LimitStatus(q, q) \in Statuses \ {"Unborn"}
    BY DEF LimitStatus, Statuses
  <2>2. /\ order' \in [Orders -> Order \cup {Blank}] /\ order'[o].status # "Unborn"
        /\ \A x \in Orders : x # o => order'[x] = order[x]
    <3> HIDE DEF o, q
    <3>1. TypeOK /\ order[o] \in Order /\ o \in Orders
      BY <1>1 DEF TypeInv
    <3>2. /\ \A x \in Orders : x # o => Amended(o, q, LimitStatus(q, q))[x] = order[x]
          /\ Amended(o, q, LimitStatus(q, q)) \in [Orders -> Order \cup {Blank}]
          /\ Amended(o, q, LimitStatus(q, q))[o].status # "Unborn"
      BY <1>1, <2>1, <3>1, AmendedOrder
    <3> QED
      BY <1>1, <1>5, <2>1, <3>2
  <2> QED
    BY <2>2 DEF Born
<1>8. queue' \in [Orders -> Seq(Orders)]
      /\ \A k \in Orders : \A i \in DOMAIN queue'[k] : Born(queue'[k][i])
  <2>1. queue' = [queue EXCEPT ![l] = Append(@, o)] /\ queue \in [Orders -> Seq(Orders)]
    BY <1>3 DEF AddToBook, TypeInv, TypeOK
  <2>2. /\ Append(queue[l], o) \in Seq(Orders)
        /\ Len(Append(queue[l], o)) = Len(queue[l]) + 1
        /\ \A i \in 1 .. Len(queue[l]) : Append(queue[l], o)[i] = queue[l][i]
        /\ Append(queue[l], o)[Len(queue[l]) + 1] = o
    BY <1>1, <1>4, <2>1, AppendProperties
  <2>3. DOMAIN Append(queue[l], o) = 1 .. Len(queue[l]) + 1 /\ Len(queue[l]) \in Nat
    BY <1>4, <2>1, <2>2, LenProperties
  <2>4. \A i \in DOMAIN Append(queue[l], o) : Born(Append(queue[l], o)[i])
    BY <1>1, <1>4, <2>2, <2>3, QueueMembers
  <2> QED
    BY <1>4, <2>1, <2>2, <2>4, QueueMembers
<1>9. /\ tree' \in [Sides -> SUBSET Orders]
      /\ volume' \in [Orders -> Int]
      /\ level' \in [Orders -> Orders \cup {None}]
      /\ orderIndex' \in [Orders -> Orders \cup {None}]
  <2>1. volume \in [Orders -> Int] /\ volume' = [volume EXCEPT ![l] = @ + q]
    BY <1>3 DEF AddToBook, TypeInv, TypeOK
  <2>2. volume[l] + q \in Int
    BY <1>1, <1>4, <2>1
  <2>3. volume' \in [Orders -> Int]
    BY <1>4, <2>1, <2>2
  <2> QED
    BY <1>1, <1>2, <1>3, <1>4, <2>3 DEF AddToBook, TypeInv, TypeOK
<1>10. \A x \in Orders : orderIndex'[x] # None =>
           Born(orderIndex'[x]) /\ level'[orderIndex'[x]] \in Orders
  <2>1. orderIndex' = [orderIndex EXCEPT ![order[o].id] = o] /\ level' = [level EXCEPT ![o] = l]
    BY <1>3 DEF AddToBook
  <2>2. \A x \in Orders : orderIndex[x] \in Orders \cup {None}
    BY DEF TypeInv, TypeOK
  <2> QED
    BY <1>1, <1>2, <1>4, <2>1, <2>2 DEF TypeInv, TypeOK, WellFormed
<1>11. TypeOK'
  BY <1>5, <1>6, <1>7, <1>8, <1>9 DEF TypeInv, TypeOK
<1> QED
  BY <1>1, <1>5, <1>6, <1>7, <1>8, <1>10, <1>11, KeepsReferences DEF TypeInv, WellFormed

\* CancelOrder keeps the types; the levels hold no order they did not hold.
LEMMA BeginCancelType ==
    ASSUME TypeInv, NEW id \in Orders, NEW c \in Callers \cup {None}, BeginCancel(id, c)
    PROVE  /\ orderIndex[id] \in Orders /\ order[orderIndex[id]] \in Order
           /\ Born(orderIndex[id]) /\ level[orderIndex[id]] \in Orders
           /\ order' = [order EXCEPT ![orderIndex[id]].status = "Canceled"]
           /\ order' \in [Orders -> Order \cup {Blank}]
           /\ \A x \in Orders : Born(x) => Born(x)'
           /\ tree' \in [Sides -> SUBSET Orders]
           /\ queue' \in [Orders -> Seq(Orders)]
           /\ \A k \in Orders : \A i \in DOMAIN queue'[k] :
                 \E j \in DOMAIN queue[k] : queue'[k][i] = queue[k][j]
           /\ volume' \in [Orders -> Int]
           /\ orderIndex' = [orderIndex EXCEPT ![id] = None]
           /\ call' \in CallType
           /\ call'.order = orderIndex[id] /\ call'.pending # <<>> /\ call'.pc = "emit"
           /\ UNCHANGED <<level, eventChannel, closed, asked, traded>>
<1> DEFINE o == orderIndex[id]
           l == level[o]
<1>1. o \in Orders /\ Born(o) /\ l \in Orders /\ order[o] \in Order
  BY BornOrder DEF BeginCancel, TypeInv, TypeOK, WellFormed
<1>2. /\ order' = [order EXCEPT ![o].status = "Canceled"]
      /\ queue' = [queue EXCEPT ![l] = Without(@, o)]
      /\ volume' = [volume EXCEPT ![l] = @ - order[o].quantity]
      /\ orderIndex' = [orderIndex EXCEPT ![id] = None]
      /\ tree' = IF queue'[l] = <<>> THEN Delete(order[o].side, PriceOf(l)) ELSE tree
      /\ call' = [pc |-> "emit", order |-> o, remaining |-> 0,
                  pending |-> <<"OrderCanceled">>, caller |-> c]
      /\ UNCHANGED <<level, eventChannel, closed, asked, traded>>
  BY DEF BeginCancel
<1> HIDE DEF l, o
<1>3. order' \in [Orders -> Order \cup {Blank}] /\ \A x \in Orders : Born(x) => Born(x)'
  <2>1. /\ order'[o] = [order[o] EXCEPT !.status = "Canceled"]
        /\ \A x \in Orders : x # o => order'[x] = order[x]
        /\ DOMAIN order' = Orders
    BY <1>1, <1>2 DEF TypeInv, TypeOK
  <2>2. order'[o] \in Order /\ order'[o].status # "Unborn"
    BY <1>1, <2>1 DEF Order, Statuses
  <2> QED
    BY <1>1, <1>2, <2>1, <2>2 DEF TypeInv, TypeOK, Born
<1>4. /\ queue' \in [Orders -> Seq(Orders)]
      /\ \A k \in Orders : \A i \in DOMAIN queue'[k] :
            \E j \in DOMAIN queue[k] : queue'[k][i] = queue[k][j]
  <2>1. queue \in [Orders -> Seq(Orders)]
    BY DEF TypeInv, TypeOK
  <2>2. /\ Without(queue[l], o) \in Seq(Orders)
        /\ \A i \in DOMAIN Without(queue[l], o) :
              \E j \in DOMAIN queue[l] : Without(queue[l], o)[i] = queue[l][j]
    BY <1>1, <2>1, WithoutIsSubqueue
  <2>3. queue'[l] = Without(queue[l], o) /\ \A k \in Orders : k # l => queue'[k] = queue[k]
    BY <1>1, <1>2, <2>1
  <2> QED
    BY <1>1, <1>2, <2>1, <2>2, <2>3
<1>5. tree' \in [Sides -> SUBSET Orders]
  <2>1. order[o].side \in Sides
    BY <1>1 DEF Order
  <2>2. tree' = tree \/ tree' = Delete(order[o].side, PriceOf(l))
    BY <1>2
  <2> QED
    BY <2>1, <2>2, DeleteShrinks DEF TypeInv, TypeOK
<1>6. volume' \in [Orders -> Int]
  <2>1. volume \in [Orders -> Int] /\ order[o].quantity \in Nat
    BY <1>1 DEF TypeInv, TypeOK, Order
  <2>2. volume[l] - order[o].quantity \in Int
    BY <1>1, <2>1
  <2> QED
    BY <1>1, <1>2, <2>1, <2>2
<1>7. call' \in CallType /\ call'.order = o /\ call'.pending # <<>> /\ call'.pc = "emit"
  BY <1>1, <1>2 DEF CallType, EventTypes
<1> QED
  BY <1>1, <1>2, <1>3, <1>4, <1>5, <1>6, <1>7 DEF o, l

\* After a cancel every reference is still valid.
LEMMA CancelReferences ==
    ASSUME TypeInv, NEW id \in Orders, NEW c \in Callers \cup {None}, BeginCancel(id, c)
    PROVE  /\ \A k \in Orders : \A i \in DOMAIN queue'[k] : Born(queue[k][i])'
           /\ \A x \in Orders : orderIndex'[x] # None =>
                 Born(orderIndex[x])' /\ level'[orderIndex'[x]] \in Orders
           /\ Born(call.order)' /\ call'.order \in Orders /\ call'.pending # <<>>
           /\ \A x \in Callers : modify[x].pc \in {"cancel", "add"} =>
                 order'[modify[x].original].status # "Unborn"
<1>1. \A x \in Orders : Born(x) => Born(x)'
  BY BeginCancelType
<1>2. \A k \in Orders : \A i \in DOMAIN queue'[k] :
          \E j \in DOMAIN queue[k] : queue'[k][i] = queue[k][j]
  BY BeginCancelType
<1>3. orderIndex' = [orderIndex EXCEPT ![id] = None] /\ level' = level
  BY BeginCancelType
<1>4. ASSUME NEW k \in Orders, NEW i \in DOMAIN queue'[k]
      PROVE  Born(queue[k][i])'
  <2>1. PICK j \in DOMAIN queue[k] : queue'[k][i] = queue[k][j]
    BY <1>2
  <2>2. queue[k][j] \in Orders /\ Born(queue[k][j])
    BY QueueMembers
  <2> QED
    BY <1>1, <2>1, <2>2 DEF Born
<1>5. ASSUME NEW x \in Orders, orderIndex'[x] # None
      PROVE  Born(orderIndex[x])' /\ level'[orderIndex'[x]] \in Orders
  <2>1. orderIndex'[x] = orderIndex[x] /\ orderIndex[x] \in Orders /\ level' = level
    BY <1>3, <1>5 DEF TypeInv, TypeOK
  <2> QED
    BY <1>1, <1>5, <2>1 DEF TypeInv, WellFormed, Born
<1>6. Born(call.order)' /\ call'.order \in Orders /\ call'.pending # <<>>
  BY <1>1, BeginCancelType DEF Born
<1>7. \A x \in Callers : modify[x].pc \in {"cancel", "add"} =>
          order'[modify[x].original].status # "Unborn"
  BY <1>1 DEF TypeInv, WellFormed, Born
<1> QED
  BY <1>4, <1>5, <1>6, <1>7

LEMMA CancelOrderType == ASSUME TypeInv, CancelOrder PROVE TypeInv'
<1>1. PICK id \in Orders : BeginCancel(id, None) /\ UNCHANGED modify
  BY DEF CancelOrder
<1>2. TypeOK'
  BY <1>1, BeginCancelType DEF TypeInv, TypeOK
<1>3. WellFormed'
  BY <1>1, CancelReferences DEF TypeInv, WellFormed, Born
<1> QED
  BY <1>2, <1>3 DEF TypeInv

LEMMA ModifyCancelType == ASSUME TypeInv, NEW c \in Callers, ModifyCancel(c) PROVE TypeInv'
<1>1. modify[c].id \in Orders /\ modify[c] \in ModifyType /\ modify[c].pc = "cancel"
  BY DEF ModifyCancel, TypeInv, TypeOK, WellFormed
<1>2. BeginCancel(modify[c].id, c) /\ modify' = [modify EXCEPT ![c].pc = "add"]
  BY DEF ModifyCancel
<1>3. modify' \in [Callers -> ModifyType]
  <2>1. modify'[c] = [modify[c] EXCEPT !.pc = "add"]
        /\ \A x \in Callers : x # c => modify'[x] = modify[x]
    BY <1>2 DEF TypeInv, TypeOK
  <2>2. modify'[c] \in ModifyType
    BY <1>1, <2>1 DEF ModifyType
  <2> QED
    BY <1>2, <2>1, <2>2 DEF TypeInv, TypeOK
<1>4. TypeOK'
  BY <1>1, <1>2, <1>3, BeginCancelType DEF TypeInv, TypeOK
<1>5. \A x \in Callers :
          /\ modify'[x].pc \in {"cancel", "add"} => modify[x].pc \in {"cancel", "add"}
          /\ modify'[x].pc = "event" => modify[x].pc = "event"
          /\ modify'[x].id = modify[x].id /\ modify'[x].original = modify[x].original
          /\ modify'[x].price = modify[x].price /\ modify'[x].quantity = modify[x].quantity
          /\ modify'[x].new = modify[x].new
  BY <1>1, <1>2 DEF TypeInv, TypeOK, ModifyType
<1>6. WellFormed'
  <2>1. \A x \in Callers : modify'[x].pc \in {"cancel", "add"} =>
            /\ modify'[x].id \in Orders
            /\ modify'[x].original \in Orders /\ Born(modify[x].original)'
            /\ modify'[x].price \in Prices /\ modify'[x].quantity \in Quantities
    BY <1>1, <1>2, <1>5, CancelReferences DEF TypeInv, WellFormed, Born
  <2>2. \A x \in Callers : modify'[x].pc = "event" => modify'[x].new \in Orders
    BY <1>5 DEF TypeInv, WellFormed
  <2> QED
    BY <1>1, <1>2, <2>1, <2>2, CancelReferences DEF WellFormed
<1> QED
  BY <1>4, <1>6 DEF TypeInv

\* The other steps of ModifyOrder.
LEMMA ModifyStepType ==
    ASSUME TypeInv, NEW c \in Callers,
           ModifyLookup(c) \/ ModifyNotFound(c) \/ ModifyEvent(c) \/ ModifyPanics(c)
    PROVE  TypeInv'
<1>1. UNCHANGED <<order, tree, queue, volume, orderIndex, level, call, closed, asked, traded>>
  BY DEF ModifyLookup, ModifyNotFound, ModifyEvent, ModifyPanics, book
<1>2. PICK m \in ModifyType :
        /\ modify' = [modify EXCEPT ![c] = m]
        /\ m.pc \in {"cancel", "add"} =>
              /\ m.id \in Orders /\ m.original \in Orders /\ Born(m.original)
              /\ m.price \in Prices /\ m.quantity \in Quantities
        /\ m.pc # "event"
  <2>1. CASE ModifyLookup(c)
    <3>1. PICK id \in Orders, p \in Prices, q \in Quantities :
            /\ orderIndex[id] # None
            /\ modify' = [modify EXCEPT ![c] = [pc |-> "cancel", id |-> id,
                   original |-> orderIndex[id], price |-> p, quantity |-> q, new |-> None]]
      BY <2>1 DEF ModifyLookup
    <3>2. orderIndex[id] \in Orders /\ Born(orderIndex[id])
      BY <3>1 DEF TypeInv, TypeOK, WellFormed
    <3> DEFINE r == [pc |-> "cancel", id |-> id, original |-> orderIndex[id],
                     price |-> p, quantity |-> q, new |-> None]
    <3>3. r \in ModifyType
      BY <3>2 DEF ModifyType
    <3>4. /\ r.pc = "cancel" /\ r.id = id /\ r.original = orderIndex[id]
          /\ r.price = p /\ r.quantity = q
      OBVIOUS
    <3>5. modify' = [modify EXCEPT ![c] = r]
      BY <3>1
    <3> HIDE DEF r
    <3>6. Born(r.original) /\ r.original \in Orders
      BY <3>2, <3>4
    <3> QED
      BY <3>3, <3>4, <3>5, <3>6
  <2>2. CASE ~ModifyLookup(c)
    <3>1. NoModify \in ModifyType /\ NoModify.pc = "idle"
      BY DEF NoModify, ModifyType
    <3>2. modify' = [modify EXCEPT ![c] = NoModify]
      BY <2>2 DEF ModifyNotFound, ModifyEvent, ModifyPanics
    <3> QED
      BY <3>1, <3>2
  <2> QED
    BY <2>1, <2>2
<1>3. eventChannel' \in Seq([type : EventTypes, order : Orders])
      /\ Len(eventChannel') <= EventCapacity
  <2>1. CASE ModifyEvent(c)
    <3>1. modify[c].new \in Orders /\ "OrderModified" \in EventTypes
      BY <2>1 DEF ModifyEvent, TypeInv, WellFormed, EventTypes
    <3>2. Send([type |-> "OrderModified", order |-> modify[c].new])
      BY <2>1 DEF ModifyEvent
    <3> QED
      BY <3>1, <3>2, SendType DEF TypeInv
  <2>2. CASE ~ModifyEvent(c)
    BY <2>2 DEF ModifyLookup, ModifyNotFound, ModifyPanics, TypeInv, TypeOK
  <2> QED
    BY <2>1, <2>2
<1>4. modify' \in [Callers -> ModifyType]
  BY <1>2 DEF TypeInv, TypeOK
<1>5. TypeOK'
  BY <1>1, <1>3, <1>4 DEF TypeInv, TypeOK
<1>6. WellFormed'
  <2>1. modify'[c] = m /\ \A x \in Callers : x # c => modify'[x] = modify[x]
    BY <1>2 DEF TypeInv, TypeOK
  <2>2. \A x \in Orders : Born(x)' <=> Born(x)
    BY <1>1 DEF Born
  <2>3. \A x \in Callers : modify'[x].pc \in {"cancel", "add"} =>
            /\ modify'[x].id \in Orders
            /\ modify'[x].original \in Orders /\ Born(modify[x].original)'
            /\ modify'[x].price \in Prices /\ modify'[x].quantity \in Quantities
    BY <1>1, <1>2, <2>1 DEF TypeInv, WellFormed, Born
  <2>4. \A x \in Callers : modify'[x].pc = "event" => modify'[x].new \in Orders
    BY <1>2, <2>1 DEF TypeInv, WellFormed
  <2>5. call.pc # "idle" => call.order \in Orders /\ Born(call.order)' /\ call.pending # <<>>
    BY <1>1 DEF TypeInv, WellFormed, Born
  <2>6. \A l \in Orders : \A i \in DOMAIN queue[l] : Born(queue[l][i])'
    BY <1>1 DEF TypeInv, WellFormed, Born
  <2>7. \A x \in Orders : orderIndex[x] # None =>
            Born(orderIndex[x])' /\ level[orderIndex[x]] \in Orders
    BY <1>1 DEF TypeInv, WellFormed, Born
  <2> QED
    BY <1>1, <2>3, <2>4, <2>5, <2>6, <2>7 DEF WellFormed, Born
<1> QED
  BY <1>5, <1>6 DEF TypeInv

LEMMA ModifyAddType == ASSUME TypeInv, NEW c \in Callers, ModifyAdd(c) PROVE TypeInv'
<1> DEFINE m == modify[c]
<1>1. PICK o \in Orders :
        /\ BeginAdd(o, o, order[m.original].side, order[m.original].type, m.price, m.quantity, c)
        /\ modify' = [modify EXCEPT ![c] = [@ EXCEPT !.pc = "event", !.new = o]]
  BY DEF ModifyAdd
<1>2. /\ m \in ModifyType /\ m.original \in Orders /\ Born(m.original)
      /\ m.price \in Prices /\ m.quantity \in Quantities
  BY DEF ModifyAdd, TypeInv, TypeOK, WellFormed
<1>3. order[m.original].side \in Sides /\ order[m.original].type \in Types
  BY <1>2, BornOrder DEF TypeInv, Order
<1>4. /\ order' \in [Orders -> Order \cup {Blank}]
      /\ call' \in CallType
      /\ asked' \in [Orders -> Nat]
      /\ call'.order = o /\ call'.pending # <<>>
      /\ Born(o)' /\ \A x \in Orders : Born(x) => Born(x)'
  <2> HIDE DEF m
  <2> QED
    BY <1>1, <1>2, <1>3, BeginAddType
<1>5. UNCHANGED <<tree, queue, volume, orderIndex, level, eventChannel, closed, traded>>
  BY <1>1 DEF BeginAdd, book
<1>6. /\ modify'[c] = [m EXCEPT !.pc = "event", !.new = o]
      /\ \A x \in Callers : x # c => modify'[x] = modify[x]
  BY <1>1 DEF TypeInv, TypeOK
<1>7. modify' \in [Callers -> ModifyType] /\ modify'[c].pc = "event" /\ modify'[c].new = o
  <2>1. modify'[c] \in ModifyType /\ modify'[c].pc = "event" /\ modify'[c].new = o
    BY <1>2, <1>6 DEF ModifyType
  <2> QED
    BY <1>1, <1>6, <2>1 DEF TypeInv, TypeOK
<1>8. TypeOK'
  BY <1>4, <1>5, <1>7 DEF TypeInv, TypeOK
<1>9. WellFormed'
  <2>1. call'.order \in Orders /\ Born(call.order)' /\ call'.pending # <<>>
    BY <1>4 DEF Born
  <2>2. \A l \in Orders : \A i \in DOMAIN queue[l] : Born(queue[l][i])'
    BY <1>4, <1>5, QueueMembers DEF Born
  <2>3. \A x \in Orders : orderIndex[x] # None =>
            Born(orderIndex[x])' /\ level[orderIndex[x]] \in Orders
    BY <1>4, <1>5 DEF TypeInv, TypeOK, WellFormed, Born
  <2>4. \A x \in Callers : x # c /\ modify[x].pc \in {"cancel", "add"} =>
            Born(modify[x].original)'
    BY <1>4, <1>6 DEF TypeInv, WellFormed, Born
  <2>5. \A x \in Callers :
            /\ modify'[x].pc \in {"cancel", "add"} => x # c
            /\ modify'[x].pc = "event" => modify'[x].new \in Orders
    BY <1>6, <1>7 DEF TypeInv, WellFormed
  <2>6. \A x \in Callers : modify'[x].pc \in {"cancel", "add"} =>
            /\ modify'[x].id \in Orders
            /\ modify'[x].original \in Orders /\ order'[modify'[x].original].status # "Unborn"
            /\ modify'[x].price \in Prices /\ modify'[x].quantity \in Quantities
    BY <1>6, <2>4, <2>5 DEF TypeInv, WellFormed, Born
  <2> QED
    BY <1>5, <2>1, <2>2, <2>3, <2>5, <2>6 DEF WellFormed, Born
<1> QED
  BY <1>8, <1>9 DEF TypeInv

\* WellFormed when only the call in progress and ModifyOrder calls move on.
LEMMA KeepsBook ==
    ASSUME TypeInv, TypeOK', UNCHANGED <<order, queue, orderIndex, level>>,
           call'.pc # "idle" => call'.order = call.order /\ call.pc # "idle" /\ call'.pending # <<>>,
           \A x \in Callers : modify'[x] \in {modify[x], NoModify}
    PROVE  TypeInv'
<1>1. \A x \in Orders : Born(x)' <=> Born(x)
  BY DEF Born
<1>2. call'.pc # "idle" => call'.order \in Orders /\ Born(call.order)' /\ call'.pending # <<>>
  BY DEF Born, TypeInv, WellFormed
<1>3. \A l \in Orders : \A i \in DOMAIN queue'[l] : Born(queue[l][i])'
  BY DEF Born, TypeInv, WellFormed
<1>4. \A x \in Orders : orderIndex'[x] # None => Born(orderIndex[x])' /\ level'[orderIndex'[x]] \in Orders
  BY DEF Born, TypeInv, WellFormed
<1>5. NoModify.pc = "idle"
  BY DEF NoModify
<1>7. \A x \in Callers :
        /\ modify'[x].pc \in {"cancel", "add"} =>
              /\ modify'[x].id \in Orders
              /\ modify'[x].original \in Orders /\ order'[modify'[x].original].status # "Unborn"
              /\ modify'[x].price \in Prices /\ modify'[x].quantity \in Quantities
        /\ modify'[x].pc = "event" => modify'[x].new \in Orders
  BY <1>5 DEF Born, TypeInv, WellFormed
<1> QED
  BY <1>2, <1>3, <1>4, <1>7 DEF TypeInv, WellFormed, Born

LEMMA SendEventType == ASSUME TypeInv, SendEvent PROVE TypeInv'
<1>1. /\ call.pc = "emit" /\ call.order \in Orders /\ call.pending # <<>>
      /\ call \in CallType /\ call.pending \in Seq(EventTypes)
  BY DEF SendEvent, TypeInv, TypeOK, WellFormed, CallType
<1>2. Len(call.pending) \in Nat \ {0} /\ Head(call.pending) \in EventTypes
      /\ Tail(call.pending) \in Seq(EventTypes)
      /\ Len(Tail(call.pending)) = Len(call.pending) - 1
  BY <1>1, HeadTailProperties, EmptySeq, LenProperties
<1>3. eventChannel' \in Seq([type : EventTypes, order : Orders])
      /\ Len(eventChannel') <= EventCapacity
  <2>1. Send([type |-> Head(call.pending), order |-> call.order])
    BY DEF SendEvent
  <2> QED
    BY <1>1, <1>2, <2>1, SendType DEF TypeInv
<1>4. /\ call' = IF Len(call.pending) = 1 THEN Idle
                  ELSE [call EXCEPT !.pending = Tail(@)]
      /\ UNCHANGED <<order, tree, queue, volume, orderIndex, level, modify, closed, asked, traded>>
  BY DEF SendEvent, book
<1>5. /\ call' \in CallType
      /\ call'.pc # "idle" => call'.order = call.order /\ call'.pending # <<>>
  <2>1. CASE Len(call.pending) = 1
    BY <1>4, <2>1 DEF Idle, CallType
  <2>2. CASE Len(call.pending) # 1
    <3>1. call' = [call EXCEPT !.pending = Tail(call.pending)]
      BY <1>4, <2>2
    <3>2. Tail(call.pending) # <<>>
      <4>1. Len(Tail(call.pending)) # 0
        BY <1>2, <2>2
      <4>2. \A q \in Seq(EventTypes) : Len(q) # 0 => q # <<>>
        BY EmptySeq
      <4> QED
        BY <1>2, <4>1, <4>2
    <3> QED
      BY <1>1, <1>2, <3>1, <3>2 DEF CallType
  <2> QED
    BY <2>1, <2>2
<1>6. TypeOK'
  BY <1>3, <1>4, <1>5 DEF TypeInv, TypeOK
<1>7. \A x \in Callers : modify'[x] \in {modify[x], NoModify}
  BY <1>4
<1> QED
  BY <1>1, <1>4, <1>5, <1>6, <1>7, KeepsBook

LEMMA SendPanicsType == ASSUME TypeInv, SendPanics PROVE TypeInv'
<1>1. call' = Idle /\ Idle \in CallType
      /\ UNCHANGED <<order, tree, queue, volume, orderIndex, level, eventChannel, closed, asked, traded>>
  BY DEF SendPanics, book, Idle, CallType
<1>2. call.caller \in Callers \cup {None} /\ None \notin Callers
  BY CallersAssumption DEF TypeInv, TypeOK, CallType
<1>3. NoModify \in ModifyType
  BY DEF NoModify, ModifyType
<1>4. modify' \in [Callers -> ModifyType]
      /\ \A x \in Callers : modify'[x] \in {modify[x], NoModify}
  <2>1. CASE call.caller = None
    BY <1>2, <2>1 DEF SendPanics, TypeInv, TypeOK
  <2>2. CASE call.caller # None
    BY <1>2, <1>3, <2>2 DEF SendPanics, TypeInv, TypeOK
  <2> QED
    BY <2>1, <2>2
<1>5. TypeOK'
  BY <1>1, <1>4 DEF TypeInv, TypeOK
<1>6. call'.pc = "idle"
  BY <1>1 DEF Idle
<1> QED
  BY <1>1, <1>4, <1>5, <1>6, KeepsBook

LEMMA ReceiveType == ASSUME TypeInv, Receive \/ Close PROVE TypeInv'
<1>1. UNCHANGED <<order, tree, queue, volume, orderIndex, level, call, modify, asked, traded>>
  BY DEF Receive, Close, book
<1>2. closed' \in BOOLEAN
  BY DEF Receive, Close, TypeInv, TypeOK
<1>3. eventChannel' \in Seq([type : EventTypes, order : Orders])
      /\ Len(eventChannel') <= EventCapacity
  <2> DEFINE E == [type : EventTypes, order : Orders]
  <2>1. eventChannel \in Seq(E) /\ Len(eventChannel) <= EventCapacity
    BY DEF TypeInv, TypeOK
  <2>2. CASE Receive
    <3>1. eventChannel # <<>> /\ eventChannel' = Tail(eventChannel)
      BY <2>2 DEF Receive
    <3> HIDE DEF E
    <3>2. Tail(eventChannel) \in Seq(E)
          /\ Len(Tail(eventChannel)) = Len(eventChannel) - 1
      BY <2>1, <3>1, HeadTailProperties
    <3>3. Len(eventChannel) \in Nat /\ EventCapacity \in Nat
      BY <2>1, LenProperties, CapacityAssumption
    <3>4. eventChannel' \in Seq(E) /\ Len(eventChannel') <= EventCapacity
      BY <2>1, <3>1, <3>2, <3>3
    <3> QED
      BY <3>4 DEF E
  <2>3. CASE Close
    BY <2>1, <2>3 DEF Close
  <2> QED
    BY <2>2, <2>3
<1>4. TypeOK'
  BY <1>1, <1>2, <1>3 DEF TypeInv, TypeOK
<1>5. call'.pc # "idle" => call'.order = call.order /\ call.pc # "idle" /\ call'.pending # <<>>
  BY <1>1 DEF TypeInv, WellFormed
<1>6. \A x \in Callers : modify'[x] \in {modify[x], NoModify}
  BY <1>1
<1> QED
  BY <1>1, <1>4, <1>5, <1>6, KeepsBook

LEMMA TypeStep == TypeInv /\ [Next]_vars => TypeInv'
<1> SUFFICES ASSUME TypeInv, [Next]_vars
             PROVE  TypeInv'
  OBVIOUS
<1>1. CASE AddOrder
  BY <1>1, AddOrderType
<1>2. CASE CancelOrder
  BY <1>2, CancelOrderType
<1>3. CASE Holder
  BY <1>3, MatchType, FinishType, RestType, SendEventType, SendPanicsType DEF Holder
<1>4. CASE Receive \/ Close
  BY <1>4, ReceiveType
<1>5. CASE \E c \in Callers : ModifyOrder(c)
  BY <1>5, ModifyCancelType, ModifyStepType, ModifyAddType DEF ModifyOrder
<1>6. CASE UNCHANGED vars
  BY <1>6 DEF vars, book, TypeInv, TypeOK, WellFormed, Born, CallType, ModifyType
<1> QED
  BY <1>1, <1>2, <1>3, <1>4, <1>5, <1>6 DEF Next

\* Whatever the callers do, every variable keeps its type and the event
\* channel its capacity.
THEOREM TypeCorrect == Spec => []TypeOK
<1>1. Spec => []TypeInv
  BY InitType, TypeStep, PTL DEF Spec
<1>2. TypeInv => TypeOK
  BY DEF TypeInv
<1> QED
  BY <1>1, <1>2, PTL

-----------------------------------------------------------------------------
(* The book is never crossed and holds no empty level.                      *)

\* what an order is compared and looked up by never changes
KeepsTerms(x) == /\ order'[x].status # "Unborn"
                 /\ order'[x].id = order[x].id
                 /\ order'[x].side = order[x].side
                 /\ order'[x].type = order[x].type
                 /\ order'[x].price = order[x].price

\* NoEmptyLevel is not inductive: a cancel deletes the level it emptied from
\* the tree of the order's side, so an order and its level must be on one
\* side, and a level in the tree of its own.
BookInv ==
    /\ \A s \in Sides : \A l \in tree[s] : Born(l) /\ order[l].side = s
    /\ \A o \in Orders : level[o] # None =>
          Born(o) /\ Born(level[o]) /\ order[level[o]].side = order[o].side
    /\ NoEmptyLevel
    /\ NotCrossed

LEMMA BeginAddTerms ==
    ASSUME TypeInv, NEW o \in Orders, NEW id, NEW side, NEW type, NEW price, NEW q, NEW c,
           BeginAdd(o, id, side, type, price, q, c)
    PROVE  \A x \in Orders : Born(x) => KeepsTerms(x)
<1>1. \A x \in Orders : x # o => order'[x] = order[x]
  BY DEF BeginAdd, TypeInv, TypeOK
<1>2. ~Born(o)
  BY DEF BeginAdd
<1> QED
  BY <1>1, <1>2 DEF KeepsTerms, Born

LEMMA MatchTerms ==
    ASSUME TypeInv, Match
    PROVE  \A x \in Orders : Born(x) => KeepsTerms(x)
<1>1. PICK l \in Matchable : MatchQuantity(l)
  BY DEF Match
<1>2. Head(queue[l]) \in Orders /\ order[Head(queue[l])] \in Order
  BY MatchFacts DEF Match
<1> DEFINE maker == Head(queue[l])
           fill == Smaller(order[maker].quantity, call.remaining)
<1>3. \/ order' = Amended(maker, order[maker].quantity, "Filled")
      \/ order' = Amended(maker, order[maker].quantity - fill, "PartiallyFilled")
  BY <1>1 DEF MatchQuantity
<1> HIDE DEF fill
<1>4. PICK q, st : /\ order' = Amended(maker, q, st) /\ st # "Unborn"
  BY <1>3
<1> HIDE DEF maker
<1>5. /\ order'[maker].status = st
      /\ order'[maker].id = order[maker].id
      /\ order'[maker].side = order[maker].side
      /\ order'[maker].type = order[maker].type
      /\ order'[maker].price = order[maker].price
      /\ \A x \in Orders : x # maker => order'[x] = order[x]
  <2>1. TypeOK /\ maker \in Orders /\ order[maker] \in Order
    BY <1>2 DEF TypeInv, maker
  <2> QED
    BY <1>4, <2>1, AmendedTerms
<1>6. KeepsTerms(maker)
  BY <1>4, <1>5 DEF KeepsTerms
<1> QED
  BY <1>5, <1>6 DEF KeepsTerms, Born

\* No step changes the terms of an order that was placed.
LEMMA StepKeepsTerms ==
    ASSUME TypeInv, [Next]_vars
    PROVE  \A x \in Orders : Born(x) => KeepsTerms(x)
<1>1. CASE order' = order
  BY <1>1 DEF KeepsTerms, Born
<1>2. CASE AddOrder
  BY <1>2, BeginAddTerms DEF AddOrder
<1>3. ASSUME NEW o \in Orders, NEW st \in Statuses \ {"Unborn"}, NEW q \in Nat,
             Born(o), order' = Amended(o, q, st)
      PROVE  \A x \in Orders : Born(x) => KeepsTerms(x)
  <2>1. order[o] \in Order
    BY <1>3, BornOrder DEF TypeInv
  <2>2. /\ order'[o].status = st
        /\ order'[o].id = order[o].id
        /\ order'[o].side = order[o].side
        /\ order'[o].type = order[o].type
        /\ order'[o].price = order[o].price
        /\ \A x \in Orders : x # o => order'[x] = order[x]
    <3>1. TypeOK
      BY DEF TypeInv
    <3> QED
      BY <1>3, <2>1, <3>1, AmendedTerms
  <2> QED
    BY <1>3, <2>2 DEF KeepsTerms, Born
<1>4. ASSUME NEW id \in Orders, NEW c \in Callers \cup {None}, BeginCancel(id, c)
      PROVE  \A x \in Orders : Born(x) => KeepsTerms(x)
  <2> DEFINE o == orderIndex[id]
  <2>1. /\ o \in Orders /\ order[o] \in Order
        /\ order' = [order EXCEPT ![o].status = "Canceled"]
    BY <1>4, BeginCancelType
  <2> HIDE DEF o
  <2>2. /\ order'[o] = [order[o] EXCEPT !.status = "Canceled"]
        /\ \A x \in Orders : x # o => order'[x] = order[x]
    BY <2>1 DEF TypeInv, TypeOK
  <2> QED
    BY <2>1, <2>2 DEF KeepsTerms, Born, Order
<1>5. CASE CancelOrder
  BY <1>4, <1>5 DEF CancelOrder
<1>6. CASE Match
  BY <1>6, MatchTerms
<1>7. CASE FinishMarket \/ FinishFilledLimit \/ FinishRestingLimit
  <2> DEFINE o == call.order
  <2>1. o \in Orders /\ Born(o) /\ order[o] \in Order /\ call.remaining \in Nat
    BY <1>7, BornOrder
       DEF FinishMarket, FinishFilledLimit, FinishRestingLimit, TypeInv, TypeOK, WellFormed, CallType
  <2>2. CASE FinishMarket
    <3> DEFINE st == IF call.remaining = 0 THEN "Filled"
                     ELSE IF call.remaining < order[o].quantity
                     THEN "PartiallyFilled" ELSE order[o].status
    <3>1. st \in Statuses \ {"Unborn"}
      BY <2>1 DEF Statuses, Order, Born
    <3>2. order' = Amended(o, call.remaining, st)
      BY <2>2 DEF FinishMarket
    <3> HIDE DEF st, o
    <3> QED
      BY <1>3, <2>1, <3>1, <3>2
  <2>3. CASE FinishFilledLimit
    <3>1. order' = [order EXCEPT ![o].status = "Filled"]
      BY <2>3 DEF FinishFilledLimit, LimitStatus
    <3>2. /\ order'[o] = [order[o] EXCEPT !.status = "Filled"]
          /\ \A x \in Orders : x # o => order'[x] = order[x]
      BY <2>1, <3>1 DEF TypeInv, TypeOK
    <3> QED
      BY <2>1, <3>2 DEF KeepsTerms, Born, Order
  <2>4. CASE FinishRestingLimit
    <3>1. order' = Amended(o, call.remaining, LimitStatus(call.remaining, call.remaining))
      BY <2>4 DEF FinishRestingLimit
    <3>2. LimitStatus(call.remaining, call.remaining) # "Unborn"
      BY DEF LimitStatus
    <3> DEFINE q == call.remaining
               st == LimitStatus(q, q)
    <3>3. /\ order'[o].status = st
          /\ order'[o].id = order[o].id
          /\ order'[o].side = order[o].side
          /\ order'[o].type = order[o].type
          /\ order'[o].price = order[o].price
          /\ \A x \in Orders : x # o => order'[x] = order[x]
      <4>1. TypeOK /\ order' = Amended(o, q, st)
        BY <3>1 DEF TypeInv
      <4> HIDE DEF o, q, st
      <4> QED
        BY <2>1, <4>1, AmendedTerms
    <3> QED
      BY <2>1, <3>2, <3>3 DEF KeepsTerms, Born
  <2> QED
    BY <1>7, <2>2, <2>3, <2>4
<1>8. CASE \E c \in Callers : ModifyOrder(c)
  <2>1. PICK c \in Callers : ModifyOrder(c)
    BY <1>8
  <2>2. CASE ModifyCancel(c)
    <3>1. modify[c].id \in Orders
      BY <2>2 DEF ModifyCancel, TypeInv, WellFormed
    <3> QED
      BY <1>4, <2>2, <3>1 DEF ModifyCancel
  <2>3. CASE ModifyAdd(c)
    BY <2>3, BeginAddTerms DEF ModifyAdd
  <2>4. CASE ModifyLookup(c) \/ ModifyNotFound(c) \/ ModifyEvent(c) \/ ModifyPanics(c)
    BY <1>1, <2>4 DEF ModifyLookup, ModifyNotFound, ModifyEvent, ModifyPanics
  <2> QED
    BY <2>1, <2>2, <2>3, <2>4 DEF ModifyOrder
<1>9. CASE SendEvent \/ SendPanics \/ Receive \/ Close \/ UNCHANGED vars
  BY <1>1, <1>9 DEF SendEvent, SendPanics, Receive, Close, vars
<1> QED
  BY <1>2, <1>5, <1>6, <1>7, <1>8, <1>9 DEF Next, Holder

\* A step that files no order and leaves no empty level in a tree.
LEMMA ShrinkingBook ==
    ASSUME TypeInv, TypeOK', BookInv, \A x \in Orders : Born(x) => KeepsTerms(x),
           level' = level,
           \A s \in Sides : tree'[s] \subseteq tree[s],
           \A s \in Sides : \A l \in tree'[s] : queue'[l] # <<>>
    PROVE  BookInv'
<1>1. \A s \in Sides : \A l \in tree'[s] :
          l \in Orders /\ order'[l].status # "Unborn" /\ order'[l].side = s
          /\ order'[l].price = order[l].price
  BY DEF BookInv, KeepsTerms, TypeInv, TypeOK
<1>2. \A o \in Orders : level[o] # None =>
          /\ order'[o].status # "Unborn" /\ order'[level[o]].status # "Unborn"
          /\ order'[level[o]].side = order'[o].side
  <2>1. \A o \in Orders : level[o] \in Orders \cup {None}
    BY DEF TypeInv, TypeOK
  <2> QED
    BY <2>1 DEF BookInv, KeepsTerms
<1>3. NoEmptyLevel'
  BY DEF NoEmptyLevel, IsEmpty
<1>4. NotCrossed'
  BY <1>1 DEF BookInv, NotCrossed, PriceOf, Sides
<1> QED
  BY <1>1, <1>2, <1>3, <1>4 DEF BookInv, Born

LEMMA MatchBook == ASSUME TypeInv, TypeOK', BookInv, Match PROVE BookInv'
<1>1. PICK l \in Matchable : MatchQuantity(l)
  BY DEF Match
<1> DEFINE s == Opposite(order[call.order].side)
<1>2. /\ l \in tree[s] /\ l \in Orders /\ s \in Sides
      /\ \A r \in Sides : tree[r] \subseteq Orders
  BY <1>1, MatchFacts DEF Match, TypeInv, TypeOK
<1>3. /\ tree' = IF queue'[l] = <<>> THEN Delete(s, PriceOf(l)) ELSE tree
      /\ level' = level
      /\ queue' = [queue EXCEPT ![l] = Tail(@)] \/ queue' = queue
  BY <1>1 DEF MatchQuantity
<1> HIDE DEF s
<1>4. \A k \in Orders : k # l => queue'[k] = queue[k]
  BY <1>3 DEF TypeInv, TypeOK
<1>5. \A r \in Sides : Delete(s, PriceOf(l))[r] \subseteq tree[r]
  BY <1>2, DeleteShrinks DEF TypeInv
<1>6. \A r \in Sides : tree'[r] \subseteq tree[r]
  BY <1>3, <1>5
<1>7. queue'[l] = <<>> => \A r \in Sides : l \notin tree'[r]
  <2>1. \A r \in Sides : l \in tree[r] => r = s
    BY <1>2 DEF BookInv
  <2>2. l \notin Delete(s, PriceOf(l))[s]
    BY <1>2 DEF Delete, Search, TypeInv, TypeOK
  <2> QED
    BY <1>3, <1>6, <2>1, <2>2
<1>8. \A r \in Sides : \A k \in tree'[r] : queue'[k] # <<>>
  BY <1>2, <1>4, <1>6, <1>7 DEF BookInv, NoEmptyLevel, IsEmpty
<1> QED
  BY <1>3, <1>6, <1>8, MatchTerms, ShrinkingBook

LEMMA CancelBook ==
    ASSUME TypeInv, TypeOK', BookInv, \A x \in Orders : Born(x) => KeepsTerms(x),
           NEW id \in Orders, NEW c \in Callers \cup {None}, BeginCancel(id, c)
    PROVE  BookInv'
<1> DEFINE o == orderIndex[id]
           l == level[o]
           s == order[o].side
<1>1. /\ o \in Orders /\ l \in Orders /\ s \in Sides
      /\ \A r \in Sides : tree[r] \subseteq Orders
  BY BeginCancelType DEF TypeInv, TypeOK, Order
<1>2. /\ tree' = IF queue'[l] = <<>> THEN Delete(s, PriceOf(l)) ELSE tree
      /\ level' = level
      /\ queue' = [queue EXCEPT ![l] = Without(@, o)]
  BY DEF BeginCancel
<1>3. order[l].side = s
  BY <1>1, OrdersAssumption DEF BookInv
<1> HIDE DEF o, l, s
<1>4. \A k \in Orders : k # l => queue'[k] = queue[k]
  BY <1>2 DEF TypeInv, TypeOK
<1>5. \A r \in Sides : Delete(s, PriceOf(l))[r] \subseteq tree[r]
  BY <1>1, DeleteShrinks DEF TypeInv
<1>6. \A r \in Sides : tree'[r] \subseteq tree[r]
  BY <1>2, <1>5
<1>7. queue'[l] = <<>> => \A r \in Sides : l \notin tree'[r]
  <2>1. \A r \in Sides : l \in tree[r] => r = s
    BY <1>3 DEF BookInv
  <2>2. l \notin Delete(s, PriceOf(l))[s]
    BY <1>1 DEF Delete, Search, TypeInv, TypeOK
  <2> QED
    BY <1>2, <1>6, <2>1, <2>2
<1>8. \A r \in Sides : \A k \in tree'[r] : queue'[k] # <<>>
  BY <1>1, <1>4, <1>6, <1>7 DEF BookInv, NoEmptyLevel, IsEmpty
<1> QED
  BY <1>2, <1>6, <1>8, ShrinkingBook

\* A tree with a level has a best one.
LEMMA BestExists ==
    ASSUME TypeInv, BookInv, NEW s \in Sides, tree[s] # {}
    PROVE  GetBest(s) # {}
<1> DEFINE P == {PriceOf(l) : l \in tree[s]}
<1>1. \A l \in tree[s] : PriceOf(l) \in Prices
  BY BornOrder DEF BookInv, TypeInv, TypeOK, PriceOf, Order
<1>2. P \in SUBSET Prices /\ P # {}
  BY <1>1
<1>3. CASE s = "Buy"
  <2>1. PICK m \in P : \A x \in P : m >= x
    BY <1>2, PricesHaveExtremes
  <2>2. PICK l \in tree[s] : PriceOf(l) = m
    BY <2>1
  <2>3. l \in GetBest(s)
    BY <1>3, <2>1, <2>2 DEF GetBest, NoWorse
  <2> QED
    BY <2>3
<1>4. CASE s = "Sell"
  <2>1. PICK m \in P : \A x \in P : m <= x
    BY <1>2, PricesHaveExtremes
  <2>2. PICK l \in tree[s] : PriceOf(l) = m
    BY <2>1
  <2>3. l \in GetBest(s)
    BY <1>4, <2>1, <2>2 DEF GetBest, NoWorse
  <2> QED
    BY <2>3
<1> QED
  BY <1>3, <1>4 DEF Sides

\* Matching stops with something left to trade only when every opposite level
\* is beyond the price of the order.
LEMMA NothingToMatch ==
    ASSUME TypeInv, BookInv, call.pc = "match", Matchable = {}, call.remaining > 0,
           NEW k \in tree[Opposite(order[call.order].side)]
    PROVE  /\ order[call.order].type = "Limit"
           /\ IF order[call.order].side = "Buy" THEN order[call.order].price < PriceOf(k)
              ELSE order[call.order].price > PriceOf(k)
<1> DEFINE o == call.order
           s == Opposite(order[o].side)
<1>1. /\ o \in Orders /\ Born(o) /\ order[o] \in Order /\ order[o].side \in Sides /\ s \in Sides
      /\ order[o].price \in Prices /\ order[o].type \in Types
  BY BornOrder DEF TypeInv, TypeOK, WellFormed, Order, Opposite, Sides
<1>2. \A l \in tree[s] : PriceOf(l) \in Prices /\ ~IsEmpty(l)
  BY <1>1, BornOrder DEF BookInv, NoEmptyLevel, TypeInv, TypeOK, PriceOf, Order
<1>3. PICK l \in GetBest(s) : TRUE
  BY <1>1, BestExists
<1>4. ~Crosses(o, l) /\ l \in tree[s] /\ NoWorse(s, PriceOf(l), PriceOf(k))
  BY <1>2, <1>3 DEF Matchable, GetBest
<1>5. order[o].price \in Nat /\ PriceOf(l) \in Nat /\ PriceOf(k) \in Nat
  BY <1>1, <1>2, <1>4, PricesAssumption
<1> QED
  BY <1>1, <1>4, <1>5 DEF Crosses, NoWorse, Opposite, Sides, Types

LEMMA RestBook ==
    ASSUME TypeInv, TypeOK', BookInv, FinishRestingLimit,
           \A x \in Orders : Born(x) => KeepsTerms(x)
    PROVE  BookInv'
<1> DEFINE o == call.order
           s == order[o].side
<1>1. /\ o \in Orders /\ Born(o) /\ order[o] \in Order /\ s \in Sides
      /\ order[o].price \in Prices
  BY BornOrder DEF FinishRestingLimit, TypeInv, TypeOK, WellFormed, Order
<1>2. PICK l \in Insert(o) : AddToBook(o, l, call.remaining)
  BY DEF FinishRestingLimit
<1>3. /\ l \in Orders /\ Born(l) /\ order[l].side = s /\ PriceOf(l) = order[o].price
      /\ \A r \in Sides : tree[r] \subseteq Orders
  BY <1>1, <1>2 DEF Insert, Search, BookInv, PriceOf, TypeInv, TypeOK
<1>4. /\ tree' = [tree EXCEPT ![s] = @ \cup {l}]
      /\ queue' = [queue EXCEPT ![l] = Append(@, o)]
      /\ level' = [level EXCEPT ![o] = l]
  BY <1>2 DEF AddToBook
<1>5. \A r \in Sides : \A k \in tree'[r] : k \in tree[r] \/ (k = l /\ r = s)
  BY <1>1, <1>4 DEF TypeInv, TypeOK
<1>6. \A b \in tree["Buy"] : s = "Sell" => PriceOf(b) < order[o].price
  <2>1. SUFFICES ASSUME NEW b \in tree["Buy"], s = "Sell" PROVE PriceOf(b) < order[o].price
    OBVIOUS
  <2>2. b \in tree[Opposite(order[call.order].side)]
    BY <2>1 DEF Opposite
  <2>3. order[o].price > PriceOf(b)
    BY <2>1, <2>2, NothingToMatch DEF FinishRestingLimit
  <2>4. PriceOf(b) \in Nat /\ order[o].price \in Nat
    BY <1>1, <1>3, BornOrder, PricesAssumption DEF BookInv, PriceOf, Order, TypeInv, Sides
  <2> QED
    BY <2>3, <2>4
<1>7. \A a \in tree["Sell"] : s = "Buy" => order[o].price < PriceOf(a)
  <2>1. SUFFICES ASSUME NEW a \in tree["Sell"], s = "Buy" PROVE order[o].price < PriceOf(a)
    OBVIOUS
  <2>2. a \in tree[Opposite(order[call.order].side)]
    BY <2>1 DEF Opposite
  <2> QED
    BY <2>1, <2>2, NothingToMatch DEF FinishRestingLimit
<1> HIDE DEF s, o
<1>8. \A k \in Orders : Born(k) => order'[k].price = PriceOf(k)
  BY DEF KeepsTerms, PriceOf
<1>9. NotCrossed'
  <2> SUFFICES ASSUME NEW b \in tree'["Buy"], NEW a \in tree'["Sell"]
               PROVE  order'[b].price < order'[a].price
    BY DEF NotCrossed, PriceOf
  <2>1. b \in Orders /\ a \in Orders /\ Born(a) /\ Born(b)
    BY <1>3, <1>5 DEF BookInv, Sides
  <2>2. order'[b].price = PriceOf(b) /\ order'[a].price = PriceOf(a)
    BY <1>8, <2>1
  <2>3. b \in tree["Buy"] \/ (b = l /\ s = "Buy")
    BY <1>5 DEF Sides
  <2>4. a \in tree["Sell"] \/ (a = l /\ s = "Sell")
    BY <1>5 DEF Sides
  <2> QED
    BY <1>3, <1>6, <1>7, <2>2, <2>3, <2>4 DEF BookInv, NotCrossed
<1>10. \A r \in Sides : \A k \in tree'[r] :
          order'[k].status # "Unborn" /\ order'[k].side = r
  BY <1>3, <1>5 DEF BookInv, KeepsTerms
<1>11. \A x \in Orders : level'[x] # None =>
          /\ order'[x].status # "Unborn" /\ order'[level'[x]].status # "Unborn"
          /\ order'[level'[x]].side = order'[x].side
  <2> SUFFICES ASSUME NEW x \in Orders, level'[x] # None
               PROVE  /\ order'[x].status # "Unborn" /\ order'[level'[x]].status # "Unborn"
                      /\ order'[level'[x]].side = order'[x].side
    OBVIOUS
  <2>1. CASE x = o
    <3>1. level'[x] = l /\ s = order[o].side
      BY <1>1, <1>4, <2>1 DEF TypeInv, TypeOK, s
    <3> QED
      BY <1>1, <1>3, <2>1, <3>1 DEF KeepsTerms
  <2>2. CASE x # o
    <3>1. level'[x] = level[x] /\ level[x] \in Orders
      BY <1>4, <2>2 DEF TypeInv, TypeOK
    <3> QED
      BY <3>1 DEF BookInv, KeepsTerms
  <2> QED
    BY <2>1, <2>2
<1>12. NoEmptyLevel'
  <2>1. queue'[l] # <<>> /\ \A k \in Orders : k # l => queue'[k] = queue[k]
    <3>1. queue[l] \in Seq(Orders) /\ queue'[l] = Append(queue[l], o)
      BY <1>3, <1>4 DEF TypeInv, TypeOK
    <3>2. Append(queue[l], o) # <<>>
      BY <1>1, <3>1, AppendProperties
    <3> QED
      BY <1>4, <3>1, <3>2 DEF TypeInv, TypeOK
  <2> QED
    BY <1>3, <1>5, <2>1 DEF BookInv, NoEmptyLevel, IsEmpty
<1> QED
  BY <1>9, <1>10, <1>11, <1>12 DEF BookInv, Born

LEMMA InitBook == Init => BookInv
<1> SUFFICES ASSUME Init PROVE BookInv
  OBVIOUS
<1>1. \A s \in Sides : tree[s] = {}
  BY DEF Init
<1>2. \A o \in Orders : level[o] = None
  BY DEF Init
<1> QED
  BY <1>1, <1>2 DEF BookInv, NoEmptyLevel, NotCrossed, Sides

LEMMA BookStep == TypeInv /\ BookInv /\ [Next]_vars => BookInv'
<1> SUFFICES ASSUME TypeInv, BookInv, [Next]_vars
             PROVE  BookInv'
  OBVIOUS
<1>1. TypeOK' /\ \A x \in Orders : Born(x) => KeepsTerms(x)
  BY TypeStep, StepKeepsTerms DEF TypeInv
<1>2. CASE UNCHANGED <<tree, queue, level>>
  <2>1. \A s \in Sides : \A l \in tree[s] : queue[l] # <<>>
    BY DEF BookInv, NoEmptyLevel, IsEmpty
  <2>2. /\ level' = level
        /\ \A s \in Sides : tree'[s] \subseteq tree[s]
        /\ \A s \in Sides : \A l \in tree'[s] : queue'[l] # <<>>
    BY <1>2, <2>1
  <2> QED
    BY <1>1, <2>2, ShrinkingBook
<1>3. CASE Match
  BY <1>1, <1>3, MatchBook
<1>4. CASE FinishRestingLimit
  BY <1>1, <1>4, RestBook
<1>5. CASE CancelOrder
  BY <1>1, <1>5, CancelBook DEF CancelOrder
<1>6. CASE \E c \in Callers : ModifyCancel(c)
  <2>1. PICK c \in Callers : ModifyCancel(c)
    BY <1>6
  <2>2. modify[c].id \in Orders /\ BeginCancel(modify[c].id, c)
    BY <2>1 DEF ModifyCancel, TypeInv, WellFormed
  <2> QED
    BY <1>1, <2>2, CancelBook
<1>7. CASE AddOrder \/ \E c \in Callers : ModifyAdd(c)
  BY <1>2, <1>7 DEF AddOrder, ModifyAdd, BeginAdd, book
<1>8. CASE FinishMarket \/ FinishFilledLimit \/ SendEvent \/ SendPanics \/ Receive \/ Close
           \/ UNCHANGED vars
  BY <1>2, <1>8
     DEF FinishMarket, FinishFilledLimit, SendEvent, SendPanics, Receive, Close, vars, book
<1>9. CASE \E c \in Callers :
              ModifyLookup(c) \/ ModifyNotFound(c) \/ ModifyEvent(c) \/ ModifyPanics(c)
  BY <1>2, <1>9 DEF ModifyLookup, ModifyNotFound, ModifyEvent, ModifyPanics, book
<1> QED
  BY <1>3, <1>4, <1>5, <1>6, <1>7, <1>8, <1>9 DEF Next, Holder, ModifyOrder

LEMMA BookHolds == Spec => [](TypeInv /\ BookInv)
<1>1. Init => TypeInv /\ BookInv
  BY InitType, InitBook
<1>2. TypeInv /\ BookInv /\ [Next]_vars => (TypeInv /\ BookInv)'
  BY TypeStep, BookStep
<1> QED
  BY <1>1, <1>2, PTL DEF Spec

\* Whatever the callers do, and however many orders a filled order's cancel
\* takes along, no empty level hides the levels behind it.
THEOREM NoEmptyLevels == Spec => []NoEmptyLevel
<1>1. TypeInv /\ BookInv => NoEmptyLevel
  BY DEF BookInv
<1> QED
  BY <1>1, BookHolds, PTL

\* Whatever the callers do, every bid is below every ask.
THEOREM BookNotCrossed == Spec => []NotCrossed
<1>1. TypeInv /\ BookInv => NotCrossed
  BY DEF BookInv
<1> QED
  BY <1>1, BookHolds, PTL

-----------------------------------------------------------------------------
(* Every order has one place.                                               *)

\* What the queues, OrderEntry.PriceLevel and the call in progress say of an
\* order: it is in the queue of its level at most, once, with something left
\* to trade; the order that matches has no level yet.  Nothing in the code
\* checks it, and every property about quantities rests on it.
PlaceInv ==
    /\ \A o \in Orders : level[o] # None => order[level[o]].price = order[o].price
    /\ call.pc = "match" => level[call.order] = None /\ order[call.order].status = "New"
    /\ \A l \in Orders :
          /\ Distinct(queue[l])
          /\ \A i \in DOMAIN queue[l] :
                /\ level[queue[l][i]] = l
                /\ order[queue[l][i]].status \in {"New", "PartiallyFilled"}
                /\ order[queue[l][i]].quantity > 0

\* One round of MatchQuantity's loop trades `fill` between the incoming order
\* and m, the oldest order of the best opposite level l.
MatchEffect(l, m, fill) ==
    /\ call.pc = "match" /\ call'.pc = "match"
    /\ call.order \in Orders /\ call'.order = call.order /\ m # call.order
    /\ l \in Matchable /\ l \in tree[Opposite(order[call.order].side)]
    /\ 1 \in DOMAIN queue[l] /\ queue[l][1] = m /\ level[m] = l
    /\ order[m].side = Opposite(order[call.order].side) /\ order[l].side = order[m].side
    /\ order[l].price = order[m].price
    /\ fill > 0 /\ fill <= call.remaining /\ fill <= order[m].quantity
    /\ fill = call.remaining \/ fill = order[m].quantity
    /\ call'.remaining = call.remaining - fill
    /\ order'[m].status = IF fill = order[m].quantity THEN "Filled" ELSE "PartiallyFilled"
    /\ order'[m].quantity = IF fill = order[m].quantity THEN fill ELSE order[m].quantity - fill
    /\ \A x \in Orders : x # m => order'[x] = order[x]
    /\ queue'[l] = IF fill = order[m].quantity THEN Tail(queue[l]) ELSE queue[l]
    /\ \A k \in Orders : k # l => queue'[k] = queue[k]
    /\ volume' = [volume EXCEPT ![l] = @ - fill]
    /\ tree' = IF queue'[l] = <<>> THEN Delete(order[m].side, order[m].price) ELSE tree
    /\ \A x \in Orders : traded'[x] = IF x \in {call.order, m} THEN traded[x] + fill ELSE traded[x]
    /\ UNCHANGED <<orderIndex, level, modify, eventChannel, closed, asked>>

LEMMA MatchHasEffect ==
    ASSUME TypeInv, BookInv, PlaceInv, Match
    PROVE  \E l, m \in Orders, fill \in Nat : MatchEffect(l, m, fill)
<1>1. PICK l \in Matchable : MatchQuantity(l)
  BY DEF Match
<1> DEFINE o == call.order
           m == Head(queue[l])
           fill == Smaller(order[m].quantity, call.remaining)
           full == order[m].quantity <= call.remaining
<1>2. /\ call.pc = "match"
      /\ o \in Orders /\ l \in Orders /\ m \in Orders
      /\ order[m] \in Order /\ order[o] \in Order
      /\ l \in tree[Opposite(order[o].side)] /\ Opposite(order[o].side) \in Sides
      /\ queue[l] # <<>> /\ call.remaining \in Nat /\ call.remaining > 0
  BY MatchFacts DEF Match
<1>3. 1 \in DOMAIN queue[l] /\ queue[l][1] = m
  BY <1>2, QueueMembers
<1>4. level[m] = l /\ order[m].quantity > 0 /\ order[m].quantity \in Nat /\ level[o] = None
  BY <1>2, <1>3 DEF PlaceInv, Order
<1>5. order[l].side = Opposite(order[o].side) /\ order[m].side = order[l].side
      /\ order[l].price = order[m].price /\ m # o
  BY <1>2, <1>4, OrdersAssumption DEF BookInv, PlaceInv
<1>6. /\ fill \in Nat /\ fill > 0 /\ fill <= call.remaining /\ fill <= order[m].quantity
      /\ fill = call.remaining \/ fill = order[m].quantity
      /\ full <=> fill = order[m].quantity
  BY <1>2, <1>4 DEF Smaller
<1>7. /\ order' = IF full THEN Amended(m, order[m].quantity, "Filled")
                  ELSE Amended(m, order[m].quantity - fill, "PartiallyFilled")
      /\ queue' = IF full THEN [queue EXCEPT ![l] = Tail(@)] ELSE queue
      /\ volume' = [volume EXCEPT ![l] = @ - fill]
      /\ tree' = IF queue'[l] = <<>> THEN Delete(Opposite(order[o].side), PriceOf(l)) ELSE tree
      /\ call' = [call EXCEPT !.remaining = @ - fill, !.pending = Append(@, "OrderMatched")]
      /\ traded' = [x \in Orders |-> IF x \in {o, m} THEN traded[x] + fill ELSE traded[x]]
      /\ UNCHANGED <<orderIndex, level, modify, eventChannel, closed, asked>>
  BY <1>1 DEF MatchQuantity
<1> HIDE DEF o, m, fill, full
<1>8. /\ order'[m].status = IF fill = order[m].quantity THEN "Filled" ELSE "PartiallyFilled"
      /\ order'[m].quantity = IF fill = order[m].quantity THEN fill ELSE order[m].quantity - fill
      /\ \A x \in Orders : x # m => order'[x] = order[x]
  <2>1. TypeOK
    BY DEF TypeInv
  <2>2. CASE full
    <3>1. order' = Amended(m, order[m].quantity, "Filled")
      BY <1>7, <2>2
    <3> DEFINE q == order[m].quantity
    <3> HIDE DEF q
    <3>2. /\ Amended(m, q, "Filled")[m].status = "Filled"
          /\ Amended(m, q, "Filled")[m].quantity = q
          /\ \A x \in Orders : x # m => Amended(m, q, "Filled")[x] = order[x]
      BY <1>2, <2>1, AmendedTerms
    <3> QED
      BY <1>6, <2>2, <3>1, <3>2 DEF q
  <2>3. CASE ~full
    <3>1. order' = Amended(m, order[m].quantity - fill, "PartiallyFilled")
      BY <1>7, <2>3
    <3> DEFINE q == order[m].quantity - fill
    <3> HIDE DEF q
    <3>2. /\ Amended(m, q, "PartiallyFilled")[m].status = "PartiallyFilled"
          /\ Amended(m, q, "PartiallyFilled")[m].quantity = q
          /\ \A x \in Orders : x # m => Amended(m, q, "PartiallyFilled")[x] = order[x]
      BY <1>2, <2>1, AmendedTerms
    <3> QED
      BY <1>6, <2>3, <3>1, <3>2 DEF q
  <2> QED
    BY <2>2, <2>3
<1>9. /\ queue'[l] = IF fill = order[m].quantity THEN Tail(queue[l]) ELSE queue[l]
      /\ \A k \in Orders : k # l => queue'[k] = queue[k]
  BY <1>2, <1>6, <1>7 DEF TypeInv, TypeOK
<1>10. tree' = IF queue'[l] = <<>> THEN Delete(order[m].side, order[m].price) ELSE tree
  BY <1>5, <1>7 DEF PriceOf
<1>11. call'.pc = "match" /\ call'.order = o /\ call'.remaining = call.remaining - fill
  BY <1>2, <1>7 DEF TypeInv, TypeOK, CallType, o
<1>12. \A x \in Orders : traded'[x] = IF x \in {o, m} THEN traded[x] + fill ELSE traded[x]
  BY <1>7
<1>13. MatchEffect(l, m, fill)
  BY <1>1, <1>2, <1>3, <1>4, <1>5, <1>6, <1>7, <1>8, <1>9, <1>10, <1>11, <1>12 DEF MatchEffect, o
<1> QED
  BY <1>2, <1>6, <1>13

\* the first conjunct of PlaceInv, when no order gets a level
LEMMA KeepsLevelPrices ==
    ASSUME TypeInv, BookInv, PlaceInv, \A x \in Orders : Born(x) => KeepsTerms(x), level' = level
    PROVE  \A o \in Orders : level'[o] # None => order'[level'[o]].price = order'[o].price
<1>1. \A o \in Orders : level[o] \in Orders \cup {None}
  BY DEF TypeInv, TypeOK
<1> QED
  BY <1>1 DEF BookInv, PlaceInv, KeepsTerms

LEMMA MatchPlace ==
    ASSUME TypeInv, BookInv, PlaceInv, Match, \A x \in Orders : Born(x) => KeepsTerms(x)
    PROVE  PlaceInv'
<1>1. PICK l \in Orders, m \in Orders, fill \in Nat : MatchEffect(l, m, fill)
  BY MatchHasEffect
<1>2. \A o \in Orders : level'[o] # None => order'[level'[o]].price = order'[o].price
  BY <1>1, KeepsLevelPrices DEF MatchEffect
<1>3. level'[call'.order] = None /\ order'[call'.order].status = "New"
  BY <1>1 DEF MatchEffect, PlaceInv
<1>4. ASSUME NEW k \in Orders
      PROVE  /\ Distinct(queue'[k])
             /\ \A i \in DOMAIN queue'[k] :
                   /\ level[queue'[k][i]] = k
                   /\ order'[queue'[k][i]].status \in {"New", "PartiallyFilled"}
                   /\ order'[queue'[k][i]].quantity > 0
  <2>1. \A i \in DOMAIN queue[k] :
           /\ queue[k][i] \in Orders /\ level[queue[k][i]] = k
           /\ order[queue[k][i]].status \in {"New", "PartiallyFilled"}
           /\ order[queue[k][i]].quantity > 0
    BY QueueMembers DEF PlaceInv
  <2>2. Distinct(queue[k])
    BY DEF PlaceInv
  <2>3. CASE k # l
    <3>1. queue'[k] = queue[k] /\ \A i \in DOMAIN queue[k] : queue[k][i] # m
      BY <1>1, <2>1, <2>3 DEF MatchEffect
    <3>2. \A i \in DOMAIN queue[k] : order'[queue[k][i]] = order[queue[k][i]]
      BY <1>1, <2>1, <3>1 DEF MatchEffect
    <3> QED
      BY <2>1, <2>2, <3>1, <3>2
  <2>4. CASE k = l /\ fill = order[m].quantity
    <3>1. /\ queue'[k] = Tail(queue[k]) /\ queue[k] # <<>> /\ queue[k][1] = m
          /\ 1 \in DOMAIN queue[k]
      BY <1>1, <2>4 DEF MatchEffect
    <3>2. /\ DOMAIN queue[k] = 1 .. Len(queue[k]) /\ Len(queue[k]) \in Nat
          /\ \A i \in DOMAIN Tail(queue[k]) :
                i + 1 \in DOMAIN queue[k] /\ Tail(queue[k])[i] = queue[k][i + 1]
      BY <3>1, QueueMembers
    <3>3. \A i \in DOMAIN Tail(queue[k]) : i \in Nat /\ i > 0
      <4>1. Tail(queue[k]) \in Seq(Orders)
        BY <3>1, QueueMembers
      <4> QED
        BY <4>1, LenProperties
    <3>4. \A i \in DOMAIN Tail(queue[k]) : queue[k][i + 1] # m
      BY <2>2, <3>1, <3>2, <3>3 DEF Distinct
    <3>5. \A i \in DOMAIN Tail(queue[k]) : order'[queue[k][i + 1]] = order[queue[k][i + 1]]
      BY <1>1, <2>1, <3>2, <3>4 DEF MatchEffect
    <3>6. Distinct(Tail(queue[k]))
      BY <2>2, <3>2, <3>3 DEF Distinct
    <3> QED
      BY <2>1, <3>1, <3>2, <3>5, <3>6
  <2>5. CASE k = l /\ fill # order[m].quantity
    <3>1. queue'[k] = queue[k]
      BY <1>1, <2>5 DEF MatchEffect
    <3>2. order'[m].status = "PartiallyFilled" /\ order'[m].quantity = order[m].quantity - fill
          /\ fill <= order[m].quantity
      BY <1>1, <2>5 DEF MatchEffect
    <3>3. order[m].quantity \in Nat
      BY <1>1, <2>1, BornOrder, QueueMembers DEF MatchEffect, TypeInv, Order
    <3>4. order'[m].quantity > 0
      BY <2>5, <3>2, <3>3
    <3>5. \A x \in Orders : x # m => order'[x] = order[x]
      BY <1>1 DEF MatchEffect
    <3> QED
      BY <2>1, <2>2, <3>1, <3>2, <3>4, <3>5
  <2> QED
    BY <2>3, <2>4, <2>5
<1>5. level' = level
  BY <1>1 DEF MatchEffect
<1> QED
  BY <1>2, <1>3, <1>4, <1>5 DEF PlaceInv

\* PlaceInv after a step that leaves the queues alone, and the orders in them.
LEMMA KeepsPlaces ==
    ASSUME TypeInv, BookInv, PlaceInv, \A x \in Orders : Born(x) => KeepsTerms(x),
           UNCHANGED <<queue, level>>,
           \A x \in Orders : level[x] # None => order'[x] = order[x],
           call'.pc = "match" => level[call'.order] = None /\ order'[call'.order].status = "New"
    PROVE  PlaceInv'
<1>1. \A o \in Orders : level'[o] # None => order'[level'[o]].price = order'[o].price
  BY KeepsLevelPrices
<1>2. ASSUME NEW k \in Orders, NEW i \in DOMAIN queue[k]
      PROVE  order'[queue[k][i]] = order[queue[k][i]]
  <2>1. queue[k][i] \in Orders /\ level[queue[k][i]] = k
    BY QueueMembers DEF PlaceInv
  <2> QED
    BY <2>1, OrdersAssumption
<1>3. \A k \in Orders :
        /\ Distinct(queue[k])
        /\ \A i \in DOMAIN queue[k] :
              /\ level[queue[k][i]] = k
              /\ order'[queue[k][i]].status \in {"New", "PartiallyFilled"}
              /\ order'[queue[k][i]].quantity > 0
  BY <1>2 DEF PlaceInv
<1> QED
  BY <1>1, <1>3 DEF PlaceInv

\* the order that is placed has no level, nor has any other that was not placed
LEMMA BeginAddPlace ==
    ASSUME TypeInv, BookInv, PlaceInv, NEW o \in Orders, NEW id, NEW side, NEW type, NEW price,
           NEW q, NEW c, BeginAdd(o, id, side, type, price, q, c)
    PROVE  PlaceInv'
<1>1. /\ UNCHANGED <<queue, level>>
      /\ call'.order = o
      /\ \A x \in Orders : x # o => order'[x] = order[x]
      /\ order'[o].status = "New"
      /\ ~Born(o)
  BY DEF BeginAdd, book, TypeInv, TypeOK
<1>2. level[o] = None
  BY <1>1 DEF BookInv
<1>3. \A x \in Orders : Born(x) => KeepsTerms(x)
  BY BeginAddTerms
<1> QED
  BY <1>1, <1>2, <1>3, KeepsPlaces

LEMMA FinishPlace ==
    ASSUME TypeInv, BookInv, PlaceInv, \A x \in Orders : Born(x) => KeepsTerms(x),
           FinishMarket \/ FinishFilledLimit
    PROVE  PlaceInv'
<1> DEFINE o == call.order
<1>1. o \in Orders /\ level[o] = None
  BY DEF FinishMarket, FinishFilledLimit, TypeInv, WellFormed, PlaceInv
<1>2. /\ UNCHANGED <<queue, level>>
      /\ call'.pc = "emit"
  BY DEF FinishMarket, FinishFilledLimit, book, TypeInv, TypeOK, CallType
<1>3. \A x \in Orders : x # o => order'[x] = order[x]
  BY <1>1 DEF FinishMarket, FinishFilledLimit, Amended, TypeInv, TypeOK
<1> QED
  BY <1>1, <1>2, <1>3, KeepsPlaces

\* The order that rests goes to the end of the queue of its level.
RestEffect(o, l, q) ==
    /\ call.pc = "match" /\ call'.pc = "emit"
    /\ o = call.order /\ q = call.remaining /\ q > 0
    /\ order[o].side \in Sides /\ order[o].type = "Limit"
    /\ l \in Insert(o) /\ (l = o \/ l \in tree[order[o].side])
    /\ level[o] = None /\ order[l].price = order[o].price
    /\ tree' = [tree EXCEPT ![order[o].side] = @ \cup {l}]
    /\ queue'[l] = Append(queue[l], o)
    /\ \A k \in Orders : k # l => queue'[k] = queue[k]
    /\ level'[o] = l
    /\ \A x \in Orders : x # o => level'[x] = level[x] /\ order'[x] = order[x]
    /\ order'[o].quantity = q /\ order'[o].status = "New"
    /\ volume' = [volume EXCEPT ![l] = @ + q]
    /\ orderIndex' = [orderIndex EXCEPT ![order[o].id] = o]
    /\ UNCHANGED <<modify, eventChannel, closed, asked, traded>>

LEMMA RestHasEffect ==
    ASSUME TypeInv, PlaceInv, FinishRestingLimit
    PROVE  \E l, o \in Orders, q \in Nat : RestEffect(o, l, q)
<1> DEFINE o == call.order
           q == call.remaining
<1>1. /\ call.pc = "match" /\ o \in Orders /\ order[o] \in Order /\ order[o].type = "Limit"
      /\ q \in Nat /\ q > 0 /\ level[o] = None /\ order[o].side \in Sides
  BY BornOrder DEF FinishRestingLimit, TypeInv, TypeOK, CallType, WellFormed, PlaceInv, Order
<1>2. PICK l \in Insert(o) : AddToBook(o, l, q)
  BY DEF FinishRestingLimit
<1>3. l \in Orders /\ (l = o \/ l \in tree[order[o].side]) /\ order[l].price = order[o].price
  BY <1>1, <1>2 DEF Insert, Search, PriceOf, TypeInv, TypeOK
<1>4. /\ tree' = [tree EXCEPT ![order[o].side] = @ \cup {l}]
      /\ queue' = [queue EXCEPT ![l] = Append(@, o)]
      /\ volume' = [volume EXCEPT ![l] = @ + q]
      /\ level' = [level EXCEPT ![o] = l]
      /\ orderIndex' = [orderIndex EXCEPT ![order[o].id] = o]
  BY <1>2 DEF AddToBook
<1>5. /\ order' = Amended(o, q, "New")
      /\ call' = [call EXCEPT !.pc = "emit"]
      /\ UNCHANGED <<modify, eventChannel, closed, asked, traded>>
  BY <1>1 DEF FinishRestingLimit, LimitStatus
<1>6. call'.pc = "emit"
  BY <1>5 DEF TypeInv, TypeOK, CallType
<1> HIDE DEF o, q
<1>7. /\ order'[o].quantity = q /\ order'[o].status = "New"
      /\ \A x \in Orders : x # o => order'[x] = order[x]
  <2>1. TypeOK
    BY DEF TypeInv
  <2> QED
    BY <1>1, <1>5, <2>1, AmendedTerms
<1>8. /\ queue'[l] = Append(queue[l], o)
      /\ \A k \in Orders : k # l => queue'[k] = queue[k]
      /\ level'[o] = l
      /\ \A x \in Orders : x # o => level'[x] = level[x]
  BY <1>1, <1>3, <1>4 DEF TypeInv, TypeOK
<1>9. RestEffect(o, l, q)
  BY <1>1, <1>2, <1>3, <1>4, <1>5, <1>6, <1>7, <1>8 DEF RestEffect, o, q
<1> QED
  BY <1>1, <1>3, <1>9

LEMMA RestPlace ==
    ASSUME TypeInv, BookInv, PlaceInv, \A x \in Orders : Born(x) => KeepsTerms(x),
           FinishRestingLimit
    PROVE  PlaceInv'
<1>1. PICK l \in Orders, o \in Orders, q \in Nat : RestEffect(o, l, q)
  BY RestHasEffect
<1>2. Born(o)
  BY <1>1 DEF RestEffect, TypeInv, WellFormed
<1>3. ASSUME NEW x \in Orders, level'[x] # None
      PROVE  order'[level'[x]].price = order'[x].price
  <2>1. CASE x = o
    <3>1. l = o \/ Born(l)
      BY <1>1, <1>2 DEF RestEffect, BookInv
    <3>2. order'[l].price = order[l].price /\ order'[o].price = order[o].price
      BY <1>2, <3>1 DEF KeepsTerms
    <3> QED
      BY <1>1, <2>1, <3>2 DEF RestEffect
  <2>2. CASE x # o
    <3>1. level'[x] = level[x] /\ level[x] \in Orders
      BY <1>1, <1>3, <2>2 DEF RestEffect, TypeInv, TypeOK
    <3>2. Born(x) /\ Born(level[x])
      BY <1>3, <3>1 DEF BookInv
    <3> QED
      BY <1>3, <3>1, <3>2 DEF PlaceInv, KeepsTerms
  <2> QED
    BY <2>1, <2>2
<1>4. ASSUME NEW k \in Orders
      PROVE  /\ Distinct(queue'[k])
             /\ \A i \in DOMAIN queue'[k] :
                   /\ level'[queue'[k][i]] = k
                   /\ order'[queue'[k][i]].status \in {"New", "PartiallyFilled"}
                   /\ order'[queue'[k][i]].quantity > 0
  <2>1. \A i \in DOMAIN queue[k] :
           /\ queue[k][i] \in Orders /\ level[queue[k][i]] = k
           /\ order[queue[k][i]].status \in {"New", "PartiallyFilled"}
           /\ order[queue[k][i]].quantity > 0
    BY QueueMembers DEF PlaceInv
  <2>2. \A i \in DOMAIN queue[k] :
           /\ queue[k][i] # o
           /\ level'[queue[k][i]] = k /\ order'[queue[k][i]] = order[queue[k][i]]
    BY <1>1, <2>1, OrdersAssumption DEF RestEffect
  <2>3. Distinct(queue[k])
    BY DEF PlaceInv
  <2>4. CASE k # l
    <3>1. queue'[k] = queue[k]
      BY <1>1, <2>4 DEF RestEffect
    <3> QED
      BY <2>1, <2>2, <2>3, <3>1
  <2>5. CASE k = l
    <3> DEFINE s == queue[k]
               t == Append(s, o)
    <3>1. queue'[k] = t
      BY <1>1, <2>5 DEF RestEffect
    <3>2. s \in Seq(Orders)
      BY DEF TypeInv, TypeOK
    <3> HIDE DEF s
    <3>3. /\ t \in Seq(Orders) /\ Len(t) = Len(s) + 1 /\ Len(s) \in Nat
          /\ \A i \in 1 .. Len(s) : t[i] = s[i]
          /\ t[Len(s) + 1] = o
      BY <3>2, AppendProperties, LenProperties
    <3>4. DOMAIN t = 1 .. Len(s) + 1 /\ DOMAIN s = 1 .. Len(s)
      BY <3>2, <3>3, LenProperties
    <3> HIDE DEF t
    <3>5. \A i \in DOMAIN t : (i \in DOMAIN s /\ t[i] = s[i]) \/ (i = Len(s) + 1 /\ t[i] = o)
      BY <3>3, <3>4
    <3>6. Distinct(t)
      <4>1. \A i \in DOMAIN s : s[i] # o
        BY <2>2 DEF s
      <4>2. Distinct(s)
        BY <2>3 DEF s
      <4> QED
        BY <3>5, <4>1, <4>2 DEF Distinct
    <3>7. \A i \in DOMAIN s :
             /\ level'[s[i]] = k
             /\ order'[s[i]].status \in {"New", "PartiallyFilled"}
             /\ order'[s[i]].quantity > 0
      BY <2>1, <2>2 DEF s
    <3>8. level'[o] = k /\ order'[o].status = "New" /\ order'[o].quantity > 0
      BY <1>1, <2>5 DEF RestEffect
    <3> QED
      BY <3>1, <3>5, <3>6, <3>7, <3>8
  <2> QED
    BY <2>4, <2>5
<1>5. call'.pc # "match"
  BY <1>1 DEF RestEffect
<1> QED
  BY <1>3, <1>4, <1>5 DEF PlaceInv

\* The order that is canceled is in no queue any more, whether it was still
\* open or filled before.
CancelEffect(id, o, l) ==
    /\ call.pc = "idle" /\ call'.pc = "emit"
    /\ o = orderIndex[id] /\ l = level[o] /\ Born(o)
    /\ order'[o].status = "Canceled" /\ order'[o].quantity = order[o].quantity
    /\ \A x \in Orders : x # o => order'[x] = order[x]
    /\ queue'[l] = Without(queue[l], o)
    /\ \A k \in Orders : k # l => queue'[k] = queue[k]
    /\ \A k \in Orders : \A i \in DOMAIN queue'[k] :
          queue'[k][i] # o /\ \E j \in DOMAIN queue[k] : queue'[k][i] = queue[k][j]
    /\ tree' = IF queue'[l] = <<>> THEN Delete(order[o].side, order[o].price) ELSE tree
    /\ volume' = [volume EXCEPT ![l] = @ - order[o].quantity]
    /\ orderIndex' = [orderIndex EXCEPT ![id] = None]
    /\ UNCHANGED <<level, eventChannel, closed, asked, traded>>

LEMMA CancelHasEffect ==
    ASSUME TypeInv, PlaceInv, NEW id \in Orders, NEW c \in Callers \cup {None}, BeginCancel(id, c)
    PROVE  \E l, o \in Orders : CancelEffect(id, o, l)
<1> DEFINE o == orderIndex[id]
           l == level[o]
<1>1. /\ o \in Orders /\ l \in Orders /\ Born(o) /\ order[o] \in Order
      /\ order' = [order EXCEPT ![o].status = "Canceled"]
      /\ call'.pc = "emit"
      /\ \A k \in Orders : \A i \in DOMAIN queue'[k] :
            \E j \in DOMAIN queue[k] : queue'[k][i] = queue[k][j]
      /\ orderIndex' = [orderIndex EXCEPT ![id] = None]
      /\ UNCHANGED <<level, eventChannel, closed, asked, traded>>
  BY BeginCancelType
<1>2. /\ call.pc = "idle"
      /\ queue' = [queue EXCEPT ![l] = Without(@, o)]
      /\ volume' = [volume EXCEPT ![l] = @ - order[o].quantity]
      /\ tree' = IF queue'[l] = <<>> THEN Delete(order[o].side, PriceOf(l)) ELSE tree
  BY DEF BeginCancel, MutexFree
<1>3. PriceOf(l) = order[o].price
  BY <1>1, OrdersAssumption DEF PlaceInv, PriceOf
<1> HIDE DEF o, l
<1>4. /\ order'[o] = [order[o] EXCEPT !.status = "Canceled"]
      /\ \A x \in Orders : x # o => order'[x] = order[x]
  BY <1>1 DEF TypeInv, TypeOK
<1>5. order'[o].status = "Canceled" /\ order'[o].quantity = order[o].quantity
  BY <1>1, <1>4 DEF Order
<1>6. queue'[l] = Without(queue[l], o) /\ \A k \in Orders : k # l => queue'[k] = queue[k]
  BY <1>1, <1>2 DEF TypeInv, TypeOK
<1>7. ASSUME NEW k \in Orders, NEW i \in DOMAIN queue'[k]
      PROVE  queue'[k][i] # o
  <2>1. CASE k = l
    <3>1. queue[l] \in Seq(Orders) /\ Distinct(queue[l])
      BY <1>1 DEF TypeInv, TypeOK, PlaceInv
    <3>2. \A j \in DOMAIN Without(queue[l], o) : Without(queue[l], o)[j] # o
      BY <3>1, WithoutIsSubqueue
    <3> QED
      BY <1>6, <2>1, <3>2
  <2>2. CASE k # l
    <3>1. queue'[k] = queue[k]
      BY <1>6, <2>2
    <3>2. level[queue[k][i]] = k
      BY <3>1 DEF PlaceInv
    <3> QED
      BY <2>2, <3>1, <3>2 DEF l
  <2> QED
    BY <2>1, <2>2
<1>8. CancelEffect(id, o, l)
  BY <1>1, <1>2, <1>3, <1>4, <1>5, <1>6, <1>7 DEF CancelEffect, o, l
<1> QED
  BY <1>1, <1>8

LEMMA CancelPlace ==
    ASSUME TypeInv, BookInv, PlaceInv, \A x \in Orders : Born(x) => KeepsTerms(x),
           NEW id \in Orders, NEW c \in Callers \cup {None}, BeginCancel(id, c)
    PROVE  PlaceInv'
<1>1. PICK l \in Orders, o \in Orders : CancelEffect(id, o, l)
  BY CancelHasEffect
<1>2. level' = level /\ call'.pc # "match"
  BY <1>1 DEF CancelEffect
<1>3. \A x \in Orders : level'[x] # None => order'[level'[x]].price = order'[x].price
  BY <1>2, KeepsLevelPrices
<1>4. ASSUME NEW k \in Orders
      PROVE  /\ Distinct(queue'[k])
             /\ \A i \in DOMAIN queue'[k] :
                   /\ level[queue'[k][i]] = k
                   /\ order'[queue'[k][i]].status \in {"New", "PartiallyFilled"}
                   /\ order'[queue'[k][i]].quantity > 0
  <2>1. \A i \in DOMAIN queue[k] :
           /\ queue[k][i] \in Orders /\ level[queue[k][i]] = k
           /\ order[queue[k][i]].status \in {"New", "PartiallyFilled"}
           /\ order[queue[k][i]].quantity > 0
    BY QueueMembers DEF PlaceInv
  <2>2. \A i \in DOMAIN queue'[k] :
          queue'[k][i] # o /\ \E j \in DOMAIN queue[k] : queue'[k][i] = queue[k][j]
    BY <1>1 DEF CancelEffect
  <2>3. \A x \in Orders : x # o => order'[x] = order[x]
    BY <1>1 DEF CancelEffect
  <2>4. Distinct(queue'[k])
    <3>1. queue[k] \in Seq(Orders) /\ Distinct(queue[k])
      BY DEF TypeInv, TypeOK, PlaceInv
    <3>2. Distinct(Without(queue[k], o))
      BY <3>1, WithoutIsSubqueue
    <3>3. queue'[k] = queue[k] \/ queue'[k] = Without(queue[k], o)
      BY <1>1 DEF CancelEffect
    <3> QED
      BY <3>1, <3>2, <3>3
  <2> QED
    BY <2>1, <2>2, <2>3, <2>4
<1> QED
  BY <1>2, <1>3, <1>4 DEF PlaceInv

LEMMA SendsAfterMatching ==
    ASSUME TypeInv, SendEvent \/ SendPanics
    PROVE  call'.pc # "match"
<1>1. CASE SendPanics
  BY <1>1 DEF SendPanics, Idle
<1>2. CASE SendEvent
  <2> DEFINE tail == Tail(call.pending)
  <2>1. call' = Idle \/ call' = [call EXCEPT !.pending = tail]
    BY <1>2 DEF SendEvent
  <2> HIDE DEF tail
  <2>2. call.pc = "emit" /\ call \in CallType
    BY <1>2 DEF SendEvent, TypeInv, TypeOK
  <2> QED
    BY <2>1, <2>2 DEF Idle, CallType
<1> QED
  BY <1>1, <1>2

\* What a step does to the book: the six kinds that touch it or the order that
\* matches, and the rest.
LEMMA StepKinds ==
    ASSUME TypeInv, [Next]_vars
    PROVE  \/ Match
           \/ FinishMarket \/ FinishFilledLimit
           \/ FinishRestingLimit
           \/ \E id \in Orders, c \in Callers \cup {None} : BeginCancel(id, c)
           \/ \E o \in Orders, id \in Orders, side \in Sides, type \in Types, price \in Prices,
                 q \in Quantities, c \in Callers \cup {None} :
                 /\ BeginAdd(o, id, side, type, price, q, c)
                 /\ "reuseID" \in Environment \/ id = o
           \/ /\ UNCHANGED <<order, tree, queue, volume, orderIndex, level, asked, traded>>
              /\ call' = call \/ (call.pc = "emit" /\ call'.pc # "match")
<1>1. CASE AddOrder
  <2>1. PICK o \in Orders, side \in Sides, type \in Types, q \in Quantities :
          \E id \in RequestIDs(o), price \in RequestPrices(type) :
              BeginAdd(o, id, side, type, price, q, None)
    BY <1>1 DEF AddOrder
  <2>2. PICK id \in RequestIDs(o), price \in RequestPrices(type) :
              BeginAdd(o, id, side, type, price, q, None)
    BY <2>1
  <2>3. id \in Orders /\ price \in Prices /\ ("reuseID" \in Environment \/ id = o)
    <3>1. \A x \in Orders : Born(x) => order[x].id \in Orders
      BY BornOrder DEF TypeInv, Order
    <3> QED
      BY <2>2, <3>1, BlankPrice DEF RequestIDs, RequestPrices
  <2> QED
    BY <2>2, <2>3
<1>2. CASE CancelOrder
  BY <1>2 DEF CancelOrder
<1>3. CASE Holder
  <2>1. CASE SendEvent \/ SendPanics
    BY <2>1, SendsAfterMatching DEF SendEvent, SendPanics, book
  <2> QED
    BY <1>3, <2>1 DEF Holder
<1>4. CASE Receive \/ Close \/ UNCHANGED vars
  BY <1>4 DEF Receive, Close, vars, book
<1>5. ASSUME NEW c \in Callers, ModifyCancel(c)
      PROVE  \E id \in Orders, d \in Callers \cup {None} : BeginCancel(id, d)
  BY <1>5 DEF ModifyCancel, TypeInv, WellFormed
<1>6. ASSUME NEW c \in Callers, ModifyAdd(c)
      PROVE  \E o \in Orders, side \in Sides, type \in Types, price \in Prices, q \in Quantities :
                 BeginAdd(o, o, side, type, price, q, c)
  <2> DEFINE m == modify[c]
  <2>1. PICK o \in Orders : BeginAdd(o, o, order[m.original].side, order[m.original].type,
                                     m.price, m.quantity, c)
    BY <1>6 DEF ModifyAdd
  <2>2. /\ m.original \in Orders /\ order[m.original] \in Order
        /\ m.price \in Prices /\ m.quantity \in Quantities
    BY <1>6, BornOrder DEF ModifyAdd, TypeInv, WellFormed
  <2>3. order[m.original].side \in Sides /\ order[m.original].type \in Types
    BY <2>2 DEF Order
  <2> QED
    BY <2>1, <2>2, <2>3
<1>7. ASSUME NEW c \in Callers,
             ModifyLookup(c) \/ ModifyNotFound(c) \/ ModifyEvent(c) \/ ModifyPanics(c)
      PROVE  UNCHANGED <<order, tree, queue, volume, orderIndex, level, asked, traded, call>>
  BY <1>7 DEF ModifyLookup, ModifyNotFound, ModifyEvent, ModifyPanics, book
<1>8. CASE \E c \in Callers : ModifyOrder(c)
  <2>1. PICK c \in Callers : ModifyOrder(c)
    BY <1>8
  <2>2. CASE ModifyCancel(c)
    BY <1>5, <2>2
  <2>3. CASE ModifyAdd(c)
    BY <1>6, <2>3
  <2>4. CASE ~ModifyCancel(c) /\ ~ModifyAdd(c)
    BY <1>7, <2>1, <2>4 DEF ModifyOrder
  <2> QED
    BY <2>2, <2>3, <2>4
<1> QED
  BY <1>1, <1>2, <1>3, <1>4, <1>8 DEF Next

\* No step puts an order into a second place.
LEMMA PlaceStep == TypeInv /\ BookInv /\ PlaceInv /\ [Next]_vars => PlaceInv'
<1> SUFFICES ASSUME TypeInv, BookInv, PlaceInv, [Next]_vars
             PROVE  PlaceInv'
  OBVIOUS
<1>1. \A x \in Orders : Born(x) => KeepsTerms(x)
  BY StepKeepsTerms
<1>2. CASE /\ UNCHANGED <<order, queue, level>>
           /\ call' = call \/ call'.pc # "match"
  BY <1>1, <1>2, KeepsPlaces DEF PlaceInv
<1> QED
  BY <1>1, <1>2, StepKinds, MatchPlace, FinishPlace, RestPlace, CancelPlace, BeginAddPlace

LEMMA InitPlace == Init => PlaceInv
<1> SUFFICES ASSUME Init PROVE PlaceInv
  OBVIOUS
<1>1. \A l \in Orders : queue[l] = <<>> /\ level[l] = None
  BY DEF Init
<1>2. call.pc = "idle"
  BY DEF Init, Idle
<1> QED
  BY <1>1, <1>2 DEF PlaceInv, Distinct

PlacesInv == TypeInv /\ BookInv /\ PlaceInv

LEMMA PlacesHold == Spec => []PlacesInv
<1>1. Init => PlacesInv
  BY InitType, InitBook, InitPlace DEF PlacesInv
<1>2. PlacesInv /\ [Next]_vars => PlacesInv'
  BY TypeStep, BookStep, PlaceStep DEF PlacesInv
<1> QED
  BY <1>1, <1>2, PTL DEF Spec

-----------------------------------------------------------------------------
(* Quantities.                                                              *)

\* QuantityConserved, with what it rests on when an order is placed.
QuantityInv ==
    /\ \A o \in Orders : ~Born(o) => traded[o] = 0
    /\ QuantityConserved

\* QuantityInv after a step that trades nothing and places no order.
LEMMA KeepsQuantities ==
    ASSUME TypeInv, QuantityInv, \A x \in Orders : Born(x) => KeepsTerms(x),
           UNCHANGED <<asked, traded>>,
           \A k \in Orders : \A i \in DOMAIN queue'[k] :
               /\ \E j \in DOMAIN queue[k] : queue[k][j] = queue'[k][i]
               /\ order'[queue'[k][i]].quantity = order[queue'[k][i]].quantity,
           \A x \in Orders : order'[x].status = "Filled" => traded[x] = asked[x],
           call'.pc = "match" => call' = call
    PROVE  QuantityInv'
<1>1. \A x \in Orders : ~Born(x)' => ~Born(x)
  BY DEF Born, KeepsTerms
<1>2. \A x \in Orders : Incoming(x)' => Incoming(x) /\ call'.remaining = call.remaining
  BY DEF Incoming
<1>3. ASSUME NEW x \in Orders, NEW k \in Orders, InQueue(x, k)'
      PROVE  traded[x] + order'[x].quantity = asked[x]
  <2>1. PICK i \in DOMAIN queue'[k] : queue'[k][i] = x
    BY <1>3 DEF InQueue
  <2>2. InQueue(x, k) /\ order'[x].quantity = order[x].quantity
    BY <2>1 DEF InQueue
  <2> QED
    BY <2>2 DEF QuantityInv, QuantityConserved
<1> QED
  BY <1>1, <1>2, <1>3 DEF QuantityInv, QuantityConserved

LEMMA BeginAddQuantity ==
    ASSUME TypeInv, BookInv, PlaceInv, QuantityInv, NEW o \in Orders, NEW id, NEW side, NEW type,
           NEW price, NEW q \in Quantities, NEW c, BeginAdd(o, id, side, type, price, q, c)
    PROVE  QuantityInv'
<1>1. /\ UNCHANGED <<queue, traded>>
      /\ call'.order = o /\ call'.remaining = q
      /\ order'[o].status = "New"
      /\ \A x \in Orders : x # o => order'[x] = order[x]
      /\ asked'[o] = q /\ \A x \in Orders : x # o => asked'[x] = asked[x]
      /\ ~Born(o)
  BY DEF BeginAdd, book, TypeInv, TypeOK
<1>2. traded[o] = 0 /\ q \in Nat
  BY <1>1, QuantitiesAssumption DEF QuantityInv
<1>3. ASSUME NEW x \in Orders
      PROVE  /\ ~Born(x)' => traded'[x] = 0
             /\ traded'[x] <= asked'[x]
             /\ Incoming(x)' => traded'[x] + call'.remaining = asked'[x]
             /\ order'[x].status = "Filled" => traded'[x] = asked'[x]
  <2>1. CASE x = o
    BY <1>1, <1>2, <2>1 DEF Born
  <2>2. CASE x # o
    BY <1>1, <2>2 DEF Born, Incoming, QuantityInv, QuantityConserved
  <2> QED
    BY <2>1, <2>2
<1>4. ASSUME NEW x \in Orders, NEW k \in Orders, InQueue(x, k)'
      PROVE  traded'[x] + order'[x].quantity = asked'[x]
  <2>1. InQueue(x, k)
    BY <1>1, <1>4 DEF InQueue
  <2>2. x # o
    BY <1>1, <2>1, QueueMembers DEF InQueue
  <2> QED
    BY <1>1, <2>1, <2>2 DEF QuantityInv, QuantityConserved
<1> QED
  BY <1>3, <1>4 DEF QuantityInv, QuantityConserved

LEMMA MatchQuantities ==
    ASSUME TypeInv, TypeInv', BookInv, PlaceInv, PlaceInv', QuantityInv, Match,
           \A x \in Orders : Born(x) => KeepsTerms(x)
    PROVE  QuantityInv'
<1>1. PICK l \in Orders, m \in Orders, fill \in Nat : MatchEffect(l, m, fill)
  BY MatchHasEffect
<1> DEFINE o == call.order
<1>2. /\ o \in Orders /\ m # o /\ Incoming(o) /\ InQueue(m, l)
      /\ fill <= call.remaining /\ fill <= order[m].quantity
      /\ call.remaining \in Nat /\ order[m].quantity \in Nat
      /\ asked' = asked
  <2>1. order[m] \in Order
    BY <1>1, BornOrder, QueueMembers DEF MatchEffect, TypeInv
  <2> QED
    BY <1>1, <2>1 DEF MatchEffect, Incoming, InQueue, TypeInv, TypeOK, CallType, Order
<1>3. \A x \in Orders : traded[x] \in Nat /\ asked[x] \in Nat
  BY DEF TypeInv, TypeOK
<1>4. /\ traded[o] + call.remaining = asked[o]
      /\ traded[m] + order[m].quantity = asked[m]
  BY <1>2 DEF QuantityInv, QuantityConserved
<1>5. /\ traded'[o] = traded[o] + fill /\ traded'[m] = traded[m] + fill
      /\ \A x \in Orders : x # o /\ x # m => traded'[x] = traded[x] /\ order'[x] = order[x]
      /\ order'[o] = order[o]
      /\ call'.order = o /\ call'.remaining = call.remaining - fill
  BY <1>1, <1>2 DEF MatchEffect
<1>6. /\ order'[m].status = IF fill = order[m].quantity THEN "Filled" ELSE "PartiallyFilled"
      /\ order'[m].quantity = IF fill = order[m].quantity THEN fill ELSE order[m].quantity - fill
  BY <1>1 DEF MatchEffect
<1>7. Born(m) /\ Born(o) /\ order[o].status # "Filled"
  BY <1>1, QueueMembers DEF MatchEffect, TypeInv, WellFormed, PlaceInv
<1> HIDE DEF o
<1>8. ASSUME NEW x \in Orders
      PROVE  /\ ~Born(x)' => traded'[x] = 0
             /\ traded'[x] <= asked'[x]
             /\ Incoming(x)' => traded'[x] + call'.remaining = asked'[x]
             /\ order'[x].status = "Filled" => traded'[x] = asked'[x]
  <2>1. CASE x = o
    BY <1>2, <1>3, <1>4, <1>5, <1>7, <2>1 DEF Born, KeepsTerms
  <2>2. CASE x = m
    BY <1>2, <1>3, <1>4, <1>5, <1>6, <1>7, <2>2 DEF Born, KeepsTerms, Incoming
  <2>3. CASE x # o /\ x # m
    BY <1>2, <1>5, <2>3 DEF Born, Incoming, QuantityInv, QuantityConserved
  <2> QED
    BY <2>1, <2>2, <2>3
<1>9. ASSUME NEW x \in Orders, NEW k \in Orders, InQueue(x, k)'
      PROVE  traded'[x] + order'[x].quantity = asked'[x]
  <2>1. order'[x].status # "Filled"
    BY <1>9 DEF InQueue, PlaceInv
  <2>2. CASE x = m
    <3>1. fill # order[m].quantity
      BY <1>6, <2>1, <2>2
    <3> QED
      BY <1>2, <1>3, <1>4, <1>5, <1>6, <2>2, <3>1
  <2>3. CASE x # m
    <3>1. InQueue(x, k)
      <4>1. PICK i \in DOMAIN queue'[k] : queue'[k][i] = x
        BY <1>9 DEF InQueue
      <4>2. CASE queue'[k] = queue[k]
        BY <4>1, <4>2 DEF InQueue
      <4>3. CASE queue'[k] # queue[k]
        <5>1. queue'[k] = Tail(queue[k]) /\ queue[k] # <<>>
          BY <1>1, <4>3 DEF MatchEffect
        <5>2. i + 1 \in DOMAIN queue[k] /\ Tail(queue[k])[i] = queue[k][i + 1]
          BY <4>1, <5>1, QueueMembers
        <5> QED
          BY <4>1, <5>1, <5>2 DEF InQueue
      <4> QED
        BY <4>2, <4>3
    <3>2. x # o
      BY <1>1, <3>1, OrdersAssumption DEF InQueue, PlaceInv, MatchEffect, o
    <3>3. traded[x] + order[x].quantity = asked[x]
      BY <3>1 DEF QuantityInv, QuantityConserved
    <3> QED
      BY <1>2, <1>5, <2>3, <3>2, <3>3
  <2> QED
    BY <2>2, <2>3
<1> QED
  BY <1>8, <1>9 DEF QuantityInv, QuantityConserved

LEMMA FinishQuantity ==
    ASSUME TypeInv, PlaceInv, QuantityInv, \A x \in Orders : Born(x) => KeepsTerms(x),
           FinishMarket \/ FinishFilledLimit
    PROVE  QuantityInv'
<1> DEFINE o == call.order
<1>1. /\ o \in Orders /\ level[o] = None /\ Incoming(o) /\ call.remaining \in Nat
      /\ order[o].status = "New" /\ order[o] \in Order
  BY BornOrder DEF FinishMarket, FinishFilledLimit, TypeInv, TypeOK, CallType, WellFormed,
                   PlaceInv, Incoming
<1>2. /\ UNCHANGED <<queue, asked, traded>>
      /\ call'.pc = "emit"
  BY DEF FinishMarket, FinishFilledLimit, book, TypeInv, TypeOK, CallType
<1>3. \A x \in Orders : x # o => order'[x] = order[x]
  BY <1>1 DEF FinishMarket, FinishFilledLimit, Amended, TypeInv, TypeOK
<1>4. \A k \in Orders : \A i \in DOMAIN queue[k] : queue[k][i] \in Orders /\ queue[k][i] # o
  BY <1>1, QueueMembers, OrdersAssumption DEF PlaceInv
<1>5. order'[o].status = "Filled" => call.remaining = 0
  <2>1. CASE FinishFilledLimit
    BY <2>1 DEF FinishFilledLimit
  <2>2. CASE FinishMarket
    <3> DEFINE st == IF call.remaining = 0 THEN "Filled"
                     ELSE IF call.remaining < order[o].quantity
                     THEN "PartiallyFilled" ELSE order[o].status
               q == call.remaining
    <3>1. order' = Amended(o, q, st)
      BY <2>2 DEF FinishMarket
    <3>2. call.remaining # 0 => st # "Filled"
      BY <1>1
    <3> HIDE DEF st, q
    <3>3. Amended(o, q, st)[o].status = st
      <4>1. TypeOK
        BY DEF TypeInv
      <4> HIDE DEF o
      <4> QED
        BY <1>1, <4>1, AmendedTerms
    <3> QED
      BY <3>1, <3>2, <3>3
  <2> QED
    BY <2>1, <2>2
<1>6. traded[o] + call.remaining = asked[o] /\ traded[o] \in Nat
  BY <1>1 DEF QuantityInv, QuantityConserved, TypeInv, TypeOK
<1>7. \A x \in Orders : order'[x].status = "Filled" => traded[x] = asked[x]
  BY <1>3, <1>5, <1>6 DEF QuantityInv, QuantityConserved
<1> HIDE DEF o
<1>8. \A k \in Orders : \A i \in DOMAIN queue'[k] :
         /\ \E j \in DOMAIN queue[k] : queue[k][j] = queue'[k][i]
         /\ order'[queue'[k][i]].quantity = order[queue'[k][i]].quantity
  BY <1>2, <1>3, <1>4
<1> QED
  BY <1>2, <1>7, <1>8, KeepsQuantities

LEMMA RestQuantity ==
    ASSUME TypeInv, BookInv, PlaceInv, QuantityInv, \A x \in Orders : Born(x) => KeepsTerms(x),
           FinishRestingLimit
    PROVE  QuantityInv'
<1>1. PICK l \in Orders, o \in Orders, q \in Nat : RestEffect(o, l, q)
  BY RestHasEffect
<1>2. /\ traded[o] + q = asked[o] /\ order'[o].quantity = q /\ order'[o].status = "New"
      /\ Born(o) /\ \A x \in Orders : x # o => order'[x] = order[x]
      /\ UNCHANGED <<asked, traded>> /\ call'.pc = "emit"
  BY <1>1 DEF RestEffect, QuantityInv, QuantityConserved, Incoming, TypeInv, WellFormed
<1>3. ASSUME NEW x \in Orders
      PROVE  /\ ~Born(x)' => traded'[x] = 0
             /\ traded'[x] <= asked'[x]
             /\ Incoming(x)' => traded'[x] + call'.remaining = asked'[x]
             /\ order'[x].status = "Filled" => traded'[x] = asked'[x]
  BY <1>2 DEF Born, Incoming, QuantityInv, QuantityConserved
<1>4. ASSUME NEW x \in Orders, NEW k \in Orders, InQueue(x, k)'
      PROVE  traded'[x] + order'[x].quantity = asked'[x]
  <2>1. CASE x = o
    BY <1>2, <2>1
  <2>2. CASE x # o
    <3>1. PICK i \in DOMAIN queue'[k] : queue'[k][i] = x
      BY <1>4 DEF InQueue
    <3>2. InQueue(x, k)
      <4>1. CASE queue'[k] = queue[k]
        BY <3>1, <4>1 DEF InQueue
      <4>2. CASE queue'[k] # queue[k]
        <5> DEFINE s == queue[k]
        <5>1. queue'[k] = Append(s, o)
          BY <1>1, <4>2 DEF RestEffect
        <5>2. s \in Seq(Orders)
          BY DEF TypeInv, TypeOK
        <5> HIDE DEF s
        <5>3. i \in DOMAIN s /\ Append(s, o)[i] = s[i]
          BY <2>2, <3>1, <5>1, <5>2, AppendProperties, LenProperties
        <5> QED
          BY <3>1, <5>1, <5>3 DEF InQueue, s
      <4> QED
        BY <4>1, <4>2
    <3>3. traded[x] + order[x].quantity = asked[x]
      BY <3>2 DEF QuantityInv, QuantityConserved
    <3> QED
      BY <1>2, <2>2, <3>3
  <2> QED
    BY <2>1, <2>2
<1> QED
  BY <1>3, <1>4 DEF QuantityInv, QuantityConserved

LEMMA CancelQuantity ==
    ASSUME TypeInv, PlaceInv, QuantityInv, \A x \in Orders : Born(x) => KeepsTerms(x),
           NEW id \in Orders, NEW c \in Callers \cup {None}, BeginCancel(id, c)
    PROVE  QuantityInv'
<1>1. PICK l \in Orders, o \in Orders : CancelEffect(id, o, l)
  BY CancelHasEffect
<1>2. /\ UNCHANGED <<asked, traded>> /\ call'.pc = "emit"
      /\ order'[o].status = "Canceled"
      /\ \A x \in Orders : x # o => order'[x] = order[x]
  BY <1>1 DEF CancelEffect
<1>3. ASSUME NEW k \in Orders, NEW i \in DOMAIN queue'[k]
      PROVE  /\ \E j \in DOMAIN queue[k] : queue[k][j] = queue'[k][i]
             /\ order'[queue'[k][i]].quantity = order[queue'[k][i]].quantity
  <2>1. /\ queue'[k][i] # o
        /\ \E j \in DOMAIN queue[k] : queue'[k][i] = queue[k][j]
    BY <1>1 DEF CancelEffect
  <2>2. queue'[k][i] \in Orders
    BY <2>1, QueueMembers
  <2> QED
    BY <1>2, <2>1, <2>2
<1>4. \A x \in Orders : order'[x].status = "Filled" => traded[x] = asked[x]
  BY <1>2 DEF QuantityInv, QuantityConserved
<1> QED
  BY <1>2, <1>3, <1>4, KeepsQuantities

\* No step creates or loses a quantity.
LEMMA QuantityStep == PlacesInv /\ QuantityInv /\ [Next]_vars => QuantityInv'
<1> SUFFICES ASSUME TypeInv, BookInv, PlaceInv, QuantityInv, [Next]_vars
             PROVE  QuantityInv'
  BY DEF PlacesInv
<1>1. \A x \in Orders : Born(x) => KeepsTerms(x)
  BY StepKeepsTerms
<1>2. CASE Match
  BY <1>1, <1>2, TypeStep, PlaceStep, MatchQuantities
<1>3. CASE /\ UNCHANGED <<order, queue, asked, traded>>
           /\ call' = call \/ call'.pc # "match"
  BY <1>1, <1>3, KeepsQuantities DEF QuantityInv, QuantityConserved
<1> QED
  BY <1>1, <1>2, <1>3, StepKinds, FinishQuantity, RestQuantity, CancelQuantity, BeginAddQuantity

LEMMA InitQuantity == Init => QuantityInv
<1> SUFFICES ASSUME Init PROVE QuantityInv
  OBVIOUS
<1>1. \A o \in Orders : traded[o] = 0 /\ asked[o] = 0 /\ order[o] = Blank /\ queue[o] = <<>>
  BY DEF Init
<1>2. call.pc = "idle" /\ Blank.status = "Unborn"
  BY DEF Init, Idle, Blank
<1> QED
  BY <1>1, <1>2 DEF QuantityInv, QuantityConserved, Incoming, InQueue

\* Whatever the callers do, no quantity is created or lost: an order trades
\* what it was placed with and no more.
THEOREM QuantityNeverLost == Spec => []QuantityConserved
<1>1. Init => QuantityInv
  BY InitQuantity
<1>2. QuantityInv /\ PlacesInv /\ [Next]_vars => QuantityInv'
  BY QuantityStep
<1>3. QuantityInv => QuantityConserved
  BY DEF QuantityInv
<1> QED
  BY <1>1, <1>2, <1>3, PlacesHold, PTL DEF Spec

-----------------------------------------------------------------------------
(* Trades.                                                                  *)

LEMMA OnlyMatchTrades ==
    ASSUME TypeInv, [Next]_vars, traded' # traded
    PROVE  Match
BY StepKinds DEF FinishMarket, FinishFilledLimit, FinishRestingLimit, BeginCancel, BeginAdd

\* The two sides of one round of MatchQuantity.
LEMMA MatchIsFair ==
    ASSUME PlacesInv, TypeInv', Match
    PROVE  \E b, s \in Orders : FairTrade(b, s)
<1>1. PICK l \in Orders, m \in Orders, fill \in Nat : MatchEffect(l, m, fill)
  BY MatchHasEffect DEF PlacesInv
<1> DEFINE o == call.order
<1>2. /\ o \in Orders /\ m # o /\ fill > 0
      /\ order[m].side = Opposite(order[o].side) /\ order[l].price = order[m].price
      /\ \A x \in Orders : traded'[x] = IF x \in {o, m} THEN traded[x] + fill ELSE traded[x]
      /\ Crosses(o, l) /\ call.pc = "match"
  BY <1>1 DEF MatchEffect, Matchable
<1>3. order[o].side \in Sides
  BY <1>2, BornOrder DEF PlacesInv, TypeInv, WellFormed, Order
<1>4. order[o].type = "Limit" => NoWorse(order[o].side, order[o].price, order[m].price)
  BY <1>2 DEF Crosses, PriceOf
<1> HIDE DEF o
<1>5. /\ traded' \in [Orders -> Nat] /\ traded \in [Orders -> Nat]
  BY DEF PlacesInv, TypeInv, TypeOK
<1>6. ASSUME NEW b \in Orders, NEW s \in Orders, b # s, {b, s} = {o, m}
      PROVE  traded' = [traded EXCEPT ![b] = @ + (traded'[b] - traded[b]),
                                      ![s] = @ + (traded'[b] - traded[b])]
             /\ traded'[b] - traded[b] > 0
  <2>1. /\ traded'[b] = traded[b] + fill /\ traded'[s] = traded[s] + fill
        /\ \A x \in Orders : x # b /\ x # s => traded'[x] = traded[x]
    BY <1>2, <1>6
  <2>2. traded'[b] - traded[b] = fill
    BY <1>5, <2>1
  <2>3. traded' = [traded EXCEPT ![b] = @ + fill, ![s] = @ + fill]
    BY <1>5, <1>6, <2>1
  <2> QED
    BY <1>2, <2>2, <2>3
<1>7. CASE order[o].side = "Buy"
  <2>1. order[m].side = "Sell"
    BY <1>2, <1>7 DEF Opposite
  <2>2. order[o].type = "Limit" => order[o].price >= order[m].price
    BY <1>4, <1>7 DEF NoWorse
  <2>3. FairTrade(o, m)
    BY <1>2, <1>6, <1>7, <2>1, <2>2 DEF FairTrade
  <2> QED
    BY <1>2, <2>3
<1>8. CASE order[o].side = "Sell"
  <2>1. order[m].side = "Buy"
    BY <1>2, <1>8 DEF Opposite
  <2>2. order[o].type = "Limit" => order[m].price >= order[o].price
    BY <1>4, <1>8 DEF NoWorse
  <2>3. FairTrade(m, o)
    BY <1>2, <1>6, <1>8, <2>1, <2>2 DEF FairTrade
  <2> QED
    BY <1>2, <2>3
<1> QED
  BY <1>3, <1>7, <1>8 DEF Sides

\* Whatever the callers do, every trade is between a buyer and a seller, of
\* one quantity, and within the limits of both.
THEOREM TradesKeepLimits == Spec => TradesAreFair
<1>1. PlacesInv /\ [Next]_vars =>
          [traded' # traded => \E b, s \in Orders : FairTrade(b, s)]_vars
  BY OnlyMatchTrades, TypeStep, MatchIsFair DEF PlacesInv
<1> QED
  BY <1>1, PlacesHold, PTL DEF Spec, TradesAreFair

LEMMA CanceledDoesNotMatch ==
    ASSUME PlacesInv, [Next]_vars, NEW o \in Orders, order[o].status = "Canceled"
    PROVE  traded'[o] = traded[o]
<1>1. CASE traded' = traded
  BY <1>1
<1>2. CASE traded' # traded
  <2>1. Match
    BY <1>2, OnlyMatchTrades DEF PlacesInv
  <2>2. PICK l \in Orders, m \in Orders, fill \in Nat : MatchEffect(l, m, fill)
    BY <2>1, MatchHasEffect DEF PlacesInv
  <2>3. order[m].status # "Canceled" /\ order[call.order].status # "Canceled"
    BY <2>2 DEF MatchEffect, PlacesInv, PlaceInv
  <2> QED
    BY <2>2, <2>3 DEF MatchEffect
<1> QED
  BY <1>1, <1>2

\* Whatever the callers do, an order that was canceled never trades again.
THEOREM CanceledIsOut == Spec => CanceledNeverTrades
<1>1. PlacesInv /\ [Next]_vars =>
          [\A o \in Orders : order[o].status = "Canceled" => traded'[o] = traded[o]]_vars
  BY CanceledDoesNotMatch
<1> QED
  BY <1>1, PlacesHold, PTL DEF Spec, CanceledNeverTrades

-----------------------------------------------------------------------------
(* ModifyOrder.                                                             *)

\* Where a ModifyOrder stands, as long as no OrderID is used twice: before
\* its cancel, what it looked up is filed under the OrderID it was given;
\* after it, that order has left the book for good.
ReplaceInv ==
    /\ \A o \in Orders : Born(o) => order[o].id = o
    /\ \A id \in Orders : orderIndex[id] \in {id, None}
    /\ \A c \in Callers :
          /\ modify[c].pc = "cancel" => modify[c].original = modify[c].id
          /\ modify[c].pc \in {"cancel", "add", "event"} =>
                modify[c].original \in Orders /\ level[modify[c].original] # None
    /\ ModifyReplaces

\* An order that has a level and is in no queue never gets into one again.
LEMMA GoneForGood ==
    ASSUME PlacesInv, [Next]_vars, NEW o \in Orders, level[o] # None,
           \A l \in Orders : ~InQueue(o, l)
    PROVE  level'[o] # None /\ \A l \in Orders : ~InQueue(o, l)'
<1>1. CASE UNCHANGED <<queue, level>>
  BY <1>1 DEF InQueue
<1>2. CASE Match
  <2>1. PICK l \in Orders, m \in Orders, fill \in Nat : MatchEffect(l, m, fill)
    BY <1>2, MatchHasEffect DEF PlacesInv
  <2>2. level' = level
    BY <2>1 DEF MatchEffect
  <2>3. ASSUME NEW k \in Orders, InQueue(o, k)' PROVE FALSE
    <3>1. PICK i \in DOMAIN queue'[k] : queue'[k][i] = o
      BY <2>3 DEF InQueue
    <3>2. queue'[k] # queue[k]
      BY <3>1 DEF InQueue
    <3>3. queue'[k] = Tail(queue[k]) /\ queue[k] # <<>>
      BY <2>1, <3>2 DEF MatchEffect
    <3>4. i + 1 \in DOMAIN queue[k] /\ Tail(queue[k])[i] = queue[k][i + 1]
      BY <3>1, <3>3, QueueMembers DEF PlacesInv
    <3> QED
      BY <3>1, <3>3, <3>4 DEF InQueue
  <2> QED
    BY <2>2, <2>3
<1>3. CASE FinishRestingLimit
  <2>1. PICK l \in Orders, x \in Orders, q \in Nat : RestEffect(x, l, q)
    BY <1>3, RestHasEffect DEF PlacesInv
  <2>2. x # o /\ level'[o] = level[o]
    BY <2>1 DEF RestEffect
  <2>3. ASSUME NEW k \in Orders, InQueue(o, k)' PROVE FALSE
    <3>1. PICK i \in DOMAIN queue'[k] : queue'[k][i] = o
      BY <2>3 DEF InQueue
    <3>2. queue'[k] # queue[k]
      BY <3>1 DEF InQueue
    <3> DEFINE s == queue[k]
    <3>3. queue'[k] = Append(s, x) /\ s \in Seq(Orders)
      BY <2>1, <3>2 DEF RestEffect, PlacesInv, TypeInv, TypeOK
    <3> HIDE DEF s
    <3>4. i \in DOMAIN s /\ Append(s, x)[i] = s[i]
      BY <2>2, <3>1, <3>3, AppendProperties, LenProperties
    <3> QED
      BY <3>1, <3>3, <3>4 DEF InQueue, s
  <2> QED
    BY <2>2, <2>3
<1>4. ASSUME NEW id \in Orders, NEW c \in Callers \cup {None}, BeginCancel(id, c)
      PROVE  level'[o] # None /\ \A l \in Orders : ~InQueue(o, l)'
  <2>1. PICK l \in Orders, x \in Orders : CancelEffect(id, x, l)
    BY <1>4, CancelHasEffect DEF PlacesInv
  <2> QED
    BY <2>1 DEF CancelEffect, InQueue
<1>5. CASE FinishMarket \/ FinishFilledLimit
  BY <1>1, <1>5 DEF FinishMarket, FinishFilledLimit, book
<1>6. ASSUME NEW x, NEW id, NEW side, NEW type, NEW price, NEW q, NEW c,
             BeginAdd(x, id, side, type, price, q, c)
      PROVE  level'[o] # None /\ \A l \in Orders : ~InQueue(o, l)'
  BY <1>1, <1>6 DEF BeginAdd, book
<1> QED
  BY <1>1, <1>2, <1>3, <1>4, <1>5, <1>6, StepKinds DEF PlacesInv

\* Where a ModifyOrder goes in a step: forward, out, or nowhere.
LEMMA ModifyMoves ==
    ASSUME TypeInv, [Next]_vars, NEW c \in Callers
    PROVE  \/ ModifyLookup(c) \/ ModifyCancel(c)
           \/ /\ modify[c].pc = "add" /\ modify'[c].pc = "event"
              /\ modify'[c].original = modify[c].original
           \/ modify'[c] = modify[c]
           \/ modify'[c] = NoModify
<1>1. modify \in [Callers -> ModifyType]
  BY DEF TypeInv, TypeOK
<1>2. CASE UNCHANGED modify
  BY <1>2
<1>3. CASE SendPanics
  BY <1>1, <1>3 DEF SendPanics
<1>4. ASSUME NEW d \in Callers, ModifyOrder(d), d # c
      PROVE  modify'[c] = modify[c]
  <2>1. CASE ModifyAdd(d)
    <3>1. PICK new : modify' = [modify EXCEPT ![d] = new]
      BY <2>1 DEF ModifyAdd
    <3> QED
      BY <1>1, <1>4, <3>1
  <2>2. CASE ModifyLookup(d) \/ ModifyCancel(d) \/ ModifyNotFound(d) \/ ModifyEvent(d) \/ ModifyPanics(d)
    <3>1. PICK new : modify' = [modify EXCEPT ![d] = new]
      BY <2>2 DEF ModifyLookup, ModifyCancel, ModifyNotFound, ModifyEvent, ModifyPanics
    <3> QED
      BY <1>1, <1>4, <3>1
  <2> QED
    BY <1>4, <2>1, <2>2 DEF ModifyOrder
<1>5. CASE ModifyAdd(c)
  <2> DEFINE m == modify[c]
  <2>1. PICK o \in Orders :
          /\ BeginAdd(o, o, order[m.original].side, order[m.original].type, m.price, m.quantity, c)
          /\ modify' = [modify EXCEPT ![c] = [@ EXCEPT !.pc = "event", !.new = o]]
    BY <1>5, Zenon DEF ModifyAdd
  <2>2. m \in ModifyType /\ m.pc = "add" /\ modify'[c] = [m EXCEPT !.pc = "event", !.new = o]
    BY <1>1, <1>5, <2>1 DEF ModifyAdd
  <2> HIDE DEF m
  <2>3. m.pc = "add" /\ modify'[c].pc = "event" /\ modify'[c].original = m.original
    BY <2>2 DEF ModifyType
  <2> QED
    BY <2>3 DEF m
<1>6. CASE ModifyNotFound(c) \/ ModifyEvent(c) \/ ModifyPanics(c)
  BY <1>1, <1>6 DEF ModifyNotFound, ModifyEvent, ModifyPanics
<1>7. CASE \E d \in Callers : ModifyOrder(d)
  BY <1>4, <1>5, <1>6, <1>7 DEF ModifyOrder
<1>8. CASE AddOrder \/ CancelOrder \/ Receive \/ Close \/ UNCHANGED vars
  BY <1>2, <1>8 DEF AddOrder, CancelOrder, Receive, Close, vars
<1>9. CASE Match \/ FinishMarket \/ FinishFilledLimit \/ FinishRestingLimit \/ SendEvent
  <2>1. Match => UNCHANGED modify
    BY DEF Match, MatchQuantity
  <2> QED
    BY <1>2, <1>9, <2>1 DEF FinishMarket, FinishFilledLimit, FinishRestingLimit, SendEvent
<1> QED
  BY <1>3, <1>7, <1>8, <1>9 DEF Next, Holder

\* An order keeps the level it was given.
LEMMA LevelStays ==
    ASSUME PlacesInv, [Next]_vars, NEW o \in Orders, level[o] # None
    PROVE  level'[o] = level[o]
<1>1. CASE FinishRestingLimit
  <2>1. PICK l \in Orders, x \in Orders, q \in Nat : RestEffect(x, l, q)
    BY <1>1, RestHasEffect DEF PlacesInv
  <2> QED
    BY <2>1 DEF RestEffect
<1>2. CASE Match
  BY <1>2 DEF Match, MatchQuantity
<1>3. CASE FinishMarket \/ FinishFilledLimit
  BY <1>3 DEF FinishMarket, FinishFilledLimit, book
<1> QED
  BY <1>1, <1>2, <1>3, StepKinds DEF PlacesInv, BeginCancel, BeginAdd, book

\* Without reused OrderIDs an order is filed under its own name.
LEMMA OwnNames ==
    ASSUME "reuseID" \notin Environment, PlacesInv, ReplaceInv, [Next]_vars
    PROVE  /\ \A o \in Orders : Born(o)' => order'[o].id = o
           /\ \A id \in Orders : orderIndex'[id] \in {id, None}
<1>1. \A x \in Orders : Born(x) => KeepsTerms(x)
  BY StepKeepsTerms DEF PlacesInv
<1>2. ASSUME NEW o \in Orders, Born(o)' PROVE order'[o].id = o
  <2>1. CASE Born(o)
    BY <1>1, <2>1 DEF KeepsTerms, ReplaceInv
  <2>2. CASE ~Born(o)
    <3>1. CASE order'[o] = order[o]
      BY <1>2, <2>2, <3>1 DEF Born
    <3>2. ASSUME NEW x \in Orders, NEW side, NEW type, NEW price, NEW q, NEW c,
                 BeginAdd(x, x, side, type, price, q, c)
          PROVE  order'[o].id = o
      BY <3>1, <3>2 DEF BeginAdd, PlacesInv, TypeInv, TypeOK
    <3>3. CASE Match
      <4>1. PICK l \in Orders, m \in Orders, fill \in Nat : MatchEffect(l, m, fill)
        BY <3>3, MatchHasEffect DEF PlacesInv
      <4>2. Born(m)
        BY <4>1, QueueMembers DEF MatchEffect, PlacesInv
      <4> QED
        BY <2>2, <3>1, <4>1, <4>2 DEF MatchEffect
    <3>4. CASE FinishMarket \/ FinishFilledLimit
      <4>1. call.order \in Orders /\ Born(call.order)
        BY <3>4 DEF FinishMarket, FinishFilledLimit, PlacesInv, TypeInv, WellFormed
      <4> QED
        BY <2>2, <3>1, <3>4, <4>1
           DEF FinishMarket, FinishFilledLimit, Amended, PlacesInv, TypeInv, TypeOK
    <3>5. CASE FinishRestingLimit
      <4>1. PICK l \in Orders, x \in Orders, q \in Nat : RestEffect(x, l, q)
        BY <3>5, RestHasEffect DEF PlacesInv
      <4>2. Born(x)
        BY <4>1 DEF RestEffect, PlacesInv, TypeInv, WellFormed
      <4> QED
        BY <2>2, <3>1, <4>1, <4>2 DEF RestEffect
    <3>6. ASSUME NEW id \in Orders, NEW c \in Callers \cup {None}, BeginCancel(id, c)
          PROVE  order'[o].id = o
      <4>1. PICK l \in Orders, x \in Orders : CancelEffect(id, x, l)
        BY <3>6, CancelHasEffect DEF PlacesInv
      <4> QED
        BY <2>2, <3>1, <4>1 DEF CancelEffect
    <3> QED
      BY <3>1, <3>2, <3>3, <3>4, <3>5, <3>6, StepKinds DEF PlacesInv
  <2> QED
    BY <2>1, <2>2
<1>3. ASSUME NEW id \in Orders PROVE orderIndex'[id] \in {id, None}
  <2>1. CASE orderIndex' = orderIndex
    BY <2>1 DEF ReplaceInv
  <2>2. CASE FinishRestingLimit
    <3>1. PICK l \in Orders, x \in Orders, q \in Nat : RestEffect(x, l, q)
      BY <2>2, RestHasEffect DEF PlacesInv
    <3>2. orderIndex' = [orderIndex EXCEPT ![order[x].id] = x] /\ order[x].id = x
      BY <3>1 DEF RestEffect, ReplaceInv, PlacesInv, TypeInv, WellFormed
    <3> QED
      BY <3>2 DEF ReplaceInv, PlacesInv, TypeInv, TypeOK
  <2>3. ASSUME NEW x \in Orders, NEW c, BeginCancel(x, c)
        PROVE  orderIndex'[id] \in {id, None}
    BY <2>3 DEF BeginCancel, ReplaceInv, PlacesInv, TypeInv, TypeOK
  <2>4. CASE Match \/ FinishMarket \/ FinishFilledLimit
    <3>1. Match => orderIndex' = orderIndex
      BY DEF Match, MatchQuantity
    <3> QED
      BY <2>1, <2>4, <3>1 DEF FinishMarket, FinishFilledLimit, book
  <2>5. ASSUME NEW x, NEW y, NEW side, NEW type, NEW price, NEW q, NEW c,
               BeginAdd(x, y, side, type, price, q, c)
        PROVE  orderIndex'[id] \in {id, None}
    BY <2>1, <2>5 DEF BeginAdd, book
  <2> QED
    BY <2>1, <2>2, <2>3, <2>4, <2>5, StepKinds DEF PlacesInv
<1> QED
  BY <1>2, <1>3

LEMMA ReplaceStep ==
    ASSUME "reuseID" \notin Environment, PlacesInv, ReplaceInv, [Next]_vars
    PROVE  ReplaceInv'
<1>1. ASSUME NEW c \in Callers
      PROVE  /\ modify'[c].pc = "cancel" => modify'[c].original = modify'[c].id
             /\ modify'[c].pc \in {"cancel", "add", "event"} =>
                   modify'[c].original \in Orders /\ level'[modify'[c].original] # None
             /\ modify'[c].pc \in {"add", "event"} =>
                   \A k \in Orders : \A i \in DOMAIN queue'[k] : queue'[k][i] # modify'[c].original
  <2>1. CASE ModifyLookup(c)
    <3>1. PICK id \in Orders, p \in Prices, q \in Quantities :
            /\ orderIndex[id] # None
            /\ modify' = [modify EXCEPT ![c] = [pc |-> "cancel", id |-> id,
                             original |-> orderIndex[id], price |-> p,
                             quantity |-> q, new |-> None]]
            /\ level' = level
      BY <2>1 DEF ModifyLookup, book
    <3>2. orderIndex[id] = id /\ level[id] \in Orders
      BY <3>1 DEF ReplaceInv, PlacesInv, TypeInv, WellFormed
    <3>3. modify'[c].pc = "cancel" /\ modify'[c].id = id /\ modify'[c].original = orderIndex[id]
      BY <3>1 DEF PlacesInv, TypeInv, TypeOK
    <3> QED
      BY <3>1, <3>2, <3>3, OrdersAssumption
  <2>2. CASE ModifyCancel(c)
    <3>1. modify[c].pc = "cancel"
      BY <2>2 DEF ModifyCancel
    <3>2. PICK o \in Orders : o = modify[c].original
      BY <3>1 DEF ReplaceInv
    <3>3. /\ modify[c].id = o /\ level[o] # None /\ orderIndex[o] \in {o, None}
          /\ BeginCancel(o, c) /\ modify' = [modify EXCEPT ![c].pc = "add"]
      BY <2>2, <3>1, <3>2 DEF ModifyCancel, ReplaceInv
    <3>4. modify'[c].pc = "add" /\ modify'[c].original = o
      <4>1. modify[c] \in ModifyType /\ modify'[c] = [modify[c] EXCEPT !.pc = "add"]
        BY <3>3 DEF PlacesInv, TypeInv, TypeOK
      <4> QED
        BY <3>2, <4>1 DEF ModifyType
    <3>5. PICK l \in Orders, x \in Orders : CancelEffect(o, x, l)
      BY <3>3, CancelHasEffect DEF PlacesInv
    <3>6. x = o /\ level'[o] # None
      BY <3>3, <3>5, OrdersAssumption DEF CancelEffect
    <3>7. \A k \in Orders : \A i \in DOMAIN queue'[k] : queue'[k][i] # o
      BY <3>5, <3>6 DEF CancelEffect
    <3> QED
      BY <3>4, <3>6, <3>7
  <2>3. CASE /\ modify'[c].original = modify[c].original
             /\ modify[c].pc \in {"add", "event"} /\ modify'[c].pc = "event"
    <3>1. PICK o \in Orders : o = modify[c].original
      BY <2>3 DEF ReplaceInv
    <3>2. level[o] # None /\ \A k \in Orders : ~InQueue(o, k)
      BY <2>3, <3>1 DEF ReplaceInv, ModifyReplaces
    <3>3. level'[o] # None /\ \A k \in Orders : ~InQueue(o, k)'
      BY <3>2, GoneForGood
    <3> QED
      BY <2>3, <3>1, <3>3 DEF InQueue
  <2>4. CASE modify'[c] = modify[c]
    <3>1. CASE modify[c].pc = "cancel"
      <4>1. PICK o \in Orders : o = modify[c].original
        BY <3>1 DEF ReplaceInv
      <4>2. level[o] # None /\ o = modify[c].id
        BY <3>1, <4>1 DEF ReplaceInv
      <4>3. level'[o] # None
        BY <4>2, LevelStays
      <4> QED
        BY <2>4, <3>1, <4>1, <4>2, <4>3
    <3>2. CASE modify[c].pc \in {"add", "event"}
      <4>1. PICK o \in Orders : o = modify[c].original
        BY <3>2 DEF ReplaceInv
      <4>2. level[o] # None /\ \A k \in Orders : ~InQueue(o, k)
        BY <3>2, <4>1 DEF ReplaceInv, ModifyReplaces
      <4>3. level'[o] # None /\ \A k \in Orders : ~InQueue(o, k)'
        BY <4>2, GoneForGood
      <4> QED
        BY <2>4, <3>2, <4>1, <4>3 DEF InQueue
    <3> QED
      BY <2>4, <3>1, <3>2
  <2>5. CASE modify'[c] = NoModify
    BY <2>5 DEF NoModify
  <2> QED
    BY <2>1, <2>2, <2>3, <2>4, <2>5, ModifyMoves DEF PlacesInv
<1>2. ModifyReplaces'
  <2>1. \A c \in Callers : modify'[c].pc \in {"add", "event"} =>
           \A k \in Orders : ~\E i \in DOMAIN queue'[k] : queue'[k][i] = modify'[c].original
    BY <1>1
  <2> QED
    BY <2>1 DEF ModifyReplaces, InQueue
<1> QED
  BY <1>1, <1>2, OwnNames DEF ReplaceInv

LEMMA InitReplace == Init => ReplaceInv
<1> SUFFICES ASSUME Init PROVE ReplaceInv
  OBVIOUS
<1>1. /\ \A o \in Orders : ~Born(o)
      /\ \A id \in Orders : orderIndex[id] = None
  BY DEF Init, Born, Blank
<1>2. \A c \in Callers : modify[c].pc = "idle"
  BY DEF Init, NoModify
<1> QED
  BY <1>1, <1>2 DEF ReplaceInv, ModifyReplaces

\* As long as no OrderID is used twice, an order and its replacement are never
\* open together, whatever other calls do between the critical sections.
THEOREM ReplacementIsAlone ==
    ASSUME "reuseID" \notin Environment
    PROVE  Spec => []ModifyReplaces
<1>1. ReplaceInv /\ PlacesInv /\ [Next]_vars => ReplaceInv'
  BY ReplaceStep
<1>2. ReplaceInv => ModifyReplaces
  BY DEF ReplaceInv
<1> QED
  BY <1>1, <1>2, InitReplace, PlacesHold, PTL DEF Spec

-----------------------------------------------------------------------------
(* The engine implements PriceTimeBook.                                     *)

LEMMA InitImplements == Init => Book!Init
<1> SUFFICES ASSUME Init PROVE Book!Init
  OBVIOUS
<1>1. /\ \A o \in Orders : ~Born(o)
      /\ \A s \in Sides : tree[s] = {}
      /\ call.pc = "idle"
  BY DEF Init, Born, Blank, Idle
<1>2. Resting = {}
  BY <1>1 DEF Resting, Sides
<1>3. Request = [o \in Orders |-> None]
  BY <1>1 DEF Request
<1>4. Open = [o \in Orders |-> 0] /\ Ahead = [o \in Orders |-> {}] /\ Trading = None
  BY <1>1, <1>2 DEF Open, Ahead, Trading, Incoming
<1> QED
  BY <1>2, <1>3, <1>4 DEF Book!Init

Within(q, x) == \E i \in DOMAIN q : q[i] = x
Before(q, x, y) == \E i, j \in DOMAIN q : i < j /\ q[i] = x /\ q[j] = y

\* An order that leaves a queue leaves the others as they stood.
LEMMA RemovalKeepsOrder ==
    ASSUME NEW S, NEW q \in Seq(S), Distinct(q), NEW o, NEW p \in DOMAIN q, q[p] = o,
           NEW w \in Seq(S), DOMAIN w = 1 .. Len(q) - 1,
           \A k \in 1 .. Len(q) - 1 : w[k] = IF k < p THEN q[k] ELSE q[k + 1]
    PROVE  /\ \A x : Within(w, x) <=> Within(q, x) /\ x # o
           /\ \A x, y : Before(w, x, y) <=> Before(q, x, y) /\ x # o /\ y # o
<1> DEFINE old(k) == IF k < p THEN k ELSE k + 1
           new(k) == IF k < p THEN k ELSE k - 1
<1>1. Len(q) \in Nat /\ DOMAIN q = 1 .. Len(q) /\ p \in 1 .. Len(q)
  BY LenProperties
<1>2. \A k \in DOMAIN w : old(k) \in DOMAIN q /\ old(k) # p /\ w[k] = q[old(k)]
  BY <1>1
<1>3. \A k \in DOMAIN q : k # p => new(k) \in DOMAIN w /\ q[k] = w[new(k)]
  <2> SUFFICES ASSUME NEW k \in DOMAIN q, k # p PROVE new(k) \in DOMAIN w /\ q[k] = w[new(k)]
    OBVIOUS
  <2>1. k \in Int /\ new(k) \in 1 .. Len(q) - 1 /\ (IF new(k) < p THEN new(k) ELSE new(k) + 1) = k
    BY <1>1
  <2> QED
    BY <2>1
<1>4. \A j, k \in DOMAIN w : j < k => old(j) < old(k)
  BY <1>1
<1>5. \A j, k \in DOMAIN q : j # p /\ k # p /\ j < k => new(j) < new(k)
  BY <1>1
<1>6. \A k \in DOMAIN q : q[k] = o <=> k = p
  BY DEF Distinct
<1> HIDE DEF old, new
<1>7. ASSUME NEW x PROVE Within(w, x) <=> Within(q, x) /\ x # o
  <2>1. ASSUME NEW k \in DOMAIN w, w[k] = x PROVE Within(q, x) /\ x # o
    BY <1>2, <1>6, <2>1 DEF Within
  <2>2. ASSUME NEW k \in DOMAIN q, q[k] = x, x # o PROVE Within(w, x)
    BY <1>3, <1>6, <2>2 DEF Within
  <2> QED
    BY <2>1, <2>2 DEF Within
<1>8. ASSUME NEW x, NEW y PROVE Before(w, x, y) <=> Before(q, x, y) /\ x # o /\ y # o
  <2>1. ASSUME NEW j \in DOMAIN w, NEW k \in DOMAIN w, j < k, w[j] = x, w[k] = y
        PROVE  Before(q, x, y) /\ x # o /\ y # o
    BY <1>2, <1>4, <1>6, <2>1 DEF Before
  <2>2. ASSUME NEW j \in DOMAIN q, NEW k \in DOMAIN q, j < k, q[j] = x, q[k] = y, x # o, y # o
        PROVE  Before(w, x, y)
    BY <1>3, <1>5, <1>6, <2>2 DEF Before
  <2> QED
    BY <2>1, <2>2 DEF Before
<1> QED
  BY <1>7, <1>8

\* An order that joins a queue stands behind all others.
LEMMA AppendKeepsOrder ==
    ASSUME NEW S, NEW q \in Seq(S), NEW o \in S, ~Within(q, o)
    PROVE  /\ \A x : Within(Append(q, o), x) <=> Within(q, x) \/ x = o
           /\ \A x, y : Before(Append(q, o), x, y) <=>
                            Before(q, x, y) \/ (y = o /\ Within(q, x))
<1> DEFINE t == Append(q, o)
           n == Len(q)
<1>1. /\ t \in Seq(S) /\ Len(t) = n + 1 /\ n \in Nat
      /\ \A i \in 1 .. n : t[i] = q[i]
      /\ t[n + 1] = o
  BY AppendProperties, LenProperties
<1>2. DOMAIN t = 1 .. n + 1 /\ DOMAIN q = 1 .. n
  BY <1>1, LenProperties
<1> HIDE DEF t, n
<1>3. /\ \A i \in DOMAIN q : i \in DOMAIN t /\ i < n + 1 /\ t[i] = q[i] /\ q[i] # o
      /\ n + 1 \in DOMAIN t /\ t[n + 1] = o
      /\ \A i \in DOMAIN t : i \in DOMAIN q \/ i = n + 1
      /\ \A i, j \in DOMAIN t : i < j => i \in DOMAIN q
  BY <1>1, <1>2 DEF Within
<1>4. \A x : Within(t, x) <=> Within(q, x) \/ x = o
  BY <1>3 DEF Within
<1>5. ASSUME NEW x, NEW y PROVE Before(t, x, y) <=> Before(q, x, y) \/ (y = o /\ Within(q, x))
  <2>1. ASSUME NEW j \in DOMAIN t, NEW k \in DOMAIN t, j < k, t[j] = x, t[k] = y
        PROVE  Before(q, x, y) \/ (y = o /\ Within(q, x))
    BY <1>3, <2>1 DEF Before, Within
  <2>2. Before(q, x, y) => Before(t, x, y)
    BY <1>3 DEF Before
  <2>3. Within(q, x) => Before(t, x, o)
    BY <1>3 DEF Before, Within
  <2> QED
    BY <2>1, <2>2, <2>3 DEF Before
<1> QED
  BY <1>4, <1>5 DEF t

\* m leaves the queue it stands in, and every other order keeps its place
LeavesQueue(m) ==
    \A k \in Orders :
        /\ \A x : Within(queue'[k], x) <=> Within(queue[k], x) /\ x # m
        /\ \A x, y : Before(queue'[k], x, y) <=> Before(queue[k], x, y) /\ x # m /\ y # m

\* o joins the queue of level l, behind all others
JoinsQueue(o, l) ==
    \A k \in Orders :
        /\ \A x : Within(queue'[k], x) <=> Within(queue[k], x) \/ (x = o /\ k = l)
        /\ \A x, y : Before(queue'[k], x, y) <=>
                        Before(queue[k], x, y) \/ (y = o /\ k = l /\ Within(queue[k], x))

LEMMA OnlyInItsQueue ==
    ASSUME PlacesInv, NEW k \in Orders, NEW x, Within(queue[k], x)
    PROVE  x \in Orders /\ level[x] = k /\ Born(x) /\ queue[k] # <<>>
<1>1. PICK i \in DOMAIN queue[k] : queue[k][i] = x
  BY DEF Within
<1> QED
  BY <1>1, QueueMembers DEF PlacesInv, PlaceInv

LEMMA MatchQueues ==
    ASSUME PlacesInv, NEW l \in Orders, NEW m \in Orders, NEW fill \in Nat, MatchEffect(l, m, fill)
    PROVE  IF fill = order[m].quantity THEN LeavesQueue(m)
           ELSE \A k \in Orders : queue'[k] = queue[k]
<1>1. CASE fill # order[m].quantity
  BY <1>1 DEF MatchEffect
<1>2. CASE fill = order[m].quantity
  <2> DEFINE q == queue[l]
             w == Tail(q)
  <2>1. q \in Seq(Orders) /\ Distinct(q) /\ 1 \in DOMAIN q /\ q[1] = m
    BY DEF PlacesInv, TypeInv, TypeOK, PlaceInv, MatchEffect
  <2>2. queue'[l] = w /\ \A k \in Orders : k # l => queue'[k] = queue[k]
    BY <1>2 DEF MatchEffect
  <2> HIDE DEF q
  <2>3. Len(q) \in Nat /\ DOMAIN q = 1 .. Len(q) /\ q # <<>>
    BY <2>1, LenProperties
  <2>4. /\ w \in Seq(Orders) /\ Len(w) = Len(q) - 1
        /\ \A k \in 1 .. Len(q) - 1 : w[k] = q[k + 1]
    BY <2>1, <2>3, HeadTailProperties
  <2>5. DOMAIN w = 1 .. Len(q) - 1
    BY <2>4, LenProperties
  <2> HIDE DEF w
  <2>6. \A k \in 1 .. Len(q) - 1 : w[k] = IF k < 1 THEN q[k] ELSE q[k + 1]
    BY <2>3, <2>4
  <2>7. /\ \A x : Within(w, x) <=> Within(q, x) /\ x # m
        /\ \A x, y : Before(w, x, y) <=> Before(q, x, y) /\ x # m /\ y # m
    BY <2>1, <2>4, <2>5, <2>6, RemovalKeepsOrder
  <2>8. ASSUME NEW k \in Orders, k # l PROVE ~Within(queue[k], m)
    <3>1. level[m] = l
      BY DEF MatchEffect
    <3> QED
      BY <2>8, <3>1, OnlyInItsQueue
  <2>9. ASSUME NEW k \in Orders, k # l, NEW x, NEW y, Before(queue[k], x, y)
        PROVE  x # m /\ y # m
    BY <2>8, <2>9 DEF Before, Within
  <2>10. LeavesQueue(m)
    BY <2>2, <2>7, <2>8, <2>9 DEF LeavesQueue, q
  <2> QED
    BY <1>2, <2>10
<1> QED
  BY <1>1, <1>2

LEMMA WithoutKeepsOrder ==
    ASSUME NEW S, NEW q \in Seq(S), NEW o, Distinct(q)
    PROVE  /\ \A x : Within(Without(q, o), x) <=> Within(q, x) /\ x # o
           /\ \A x, y : Before(Without(q, o), x, y) <=> Before(q, x, y) /\ x # o /\ y # o
<1>1. CASE ~\E i \in DOMAIN q : q[i] = o
  <2>1. Without(q, o) = q
    BY <1>1 DEF Without
  <2> QED
    BY <1>1, <2>1 DEF Within, Before
<1>2. CASE \E i \in DOMAIN q : q[i] = o
  <2> DEFINE w == Without(q, o)
  <2>1. PICK p \in DOMAIN q :
              /\ q[p] = o
              /\ w \in Seq(S)
              /\ DOMAIN w = 1 .. Len(q) - 1
              /\ \A k \in 1 .. Len(q) - 1 : w[k] = IF k < p THEN q[k] ELSE q[k + 1]
    BY <1>2, WithoutPlaces
  <2> HIDE DEF w
  <2>2. /\ \A x : Within(w, x) <=> Within(q, x) /\ x # o
        /\ \A x, y : Before(w, x, y) <=> Before(q, x, y) /\ x # o /\ y # o
    BY <2>1, RemovalKeepsOrder
  <2> QED
    BY <2>2 DEF w
<1> QED
  BY <1>1, <1>2

LEMMA CancelQueues ==
    ASSUME PlacesInv, NEW id \in Orders, NEW o \in Orders, NEW l \in Orders,
           CancelEffect(id, o, l)
    PROVE  LeavesQueue(o)
<1> DEFINE q == queue[l]
           w == Without(q, o)
<1>1. q \in Seq(Orders) /\ Distinct(q)
  BY DEF PlacesInv, TypeInv, TypeOK, PlaceInv
<1>2. queue'[l] = w /\ \A k \in Orders : k # l => queue'[k] = queue[k]
  BY DEF CancelEffect
<1> HIDE DEF q
<1>3. /\ \A x : Within(w, x) <=> Within(q, x) /\ x # o
      /\ \A x, y : Before(w, x, y) <=> Before(q, x, y) /\ x # o /\ y # o
  BY <1>1, WithoutKeepsOrder
<1>4. ASSUME NEW k \in Orders, k # l PROVE ~Within(queue[k], o)
  <2>1. level[o] = l
    BY DEF CancelEffect
  <2> QED
    BY <1>4, <2>1, OnlyInItsQueue
<1>5. ASSUME NEW k \in Orders, k # l, NEW x, NEW y, Before(queue[k], x, y)
      PROVE  x # o /\ y # o
  BY <1>4, <1>5 DEF Before, Within
<1> HIDE DEF w
<1> QED
  BY <1>2, <1>3, <1>4, <1>5 DEF LeavesQueue, q

LEMMA RestQueues ==
    ASSUME PlacesInv, NEW o \in Orders, NEW l \in Orders, NEW q \in Nat, RestEffect(o, l, q)
    PROVE  JoinsQueue(o, l) /\ \A k \in Orders : ~Within(queue[k], o)
<1>1. ASSUME NEW k \in Orders PROVE ~Within(queue[k], o)
  <2>1. level[o] = None
    BY DEF RestEffect
  <2> QED
    BY <2>1, OnlyInItsQueue, OrdersAssumption
<1> DEFINE s == queue[l]
           t == Append(s, o)
<1>2. s \in Seq(Orders)
  BY DEF PlacesInv, TypeInv, TypeOK
<1>3. queue'[l] = t /\ \A k \in Orders : k # l => queue'[k] = queue[k]
  BY DEF RestEffect
<1>4. ~Within(s, o)
  BY <1>1
<1> HIDE DEF s
<1>5. /\ \A x : Within(t, x) <=> Within(s, x) \/ x = o
      /\ \A x, y : Before(t, x, y) <=> Before(s, x, y) \/ (y = o /\ Within(s, x))
  BY <1>2, <1>4, AppendKeepsOrder
<1> HIDE DEF t
<1> QED
  BY <1>1, <1>3, <1>5 DEF JoinsQueue, s

\* How the trees, the levels' queues and the index fit together.  At most one
\* level of a tree has a price, so deleting by price deletes the level meant;
\* an order leaves its level only when it is filled or canceled; and the index
\* holds no canceled order.  A level with orders is in its tree, unless a
\* filled order was canceled: that deletes whatever level has its price by now.
ViewInv ==
    /\ \A s \in Sides : \A k, l \in tree[s] : order[k].price = order[l].price => k = l
    /\ \A o \in Orders : level[o] # None =>
          InQueue(o, level[o]) \/ order[o].status \in {"Filled", "Canceled"}
    /\ \A id \in Orders : orderIndex[id] # None =>
          order[orderIndex[id]].id = id /\ order[orderIndex[id]].status # "Canceled"
    /\ FilledCanceled \/ \A l \in Orders : queue[l] # <<>> => l \in tree[order[l].side]

CoreInv == PlacesInv /\ QuantityInv

\* what a step does to the orders that have a level, and to the others
LEMMA OrderMoves ==
    ASSUME PlacesInv, [Next]_vars, NEW x \in Orders
    PROVE  \/ order'[x] = order[x]
           \/ level[x] = None /\ order'[x].status # "Canceled"
           \/ \E l \in Orders, fill \in Nat : MatchEffect(l, x, fill)
           \/ \E id, l \in Orders : CancelEffect(id, x, l)
<1>1. CASE Match
  <2>1. PICK l \in Orders, m \in Orders, fill \in Nat : MatchEffect(l, m, fill)
    BY <1>1, MatchHasEffect DEF PlacesInv
  <2>2. x = m \/ order'[x] = order[x]
    BY <2>1 DEF MatchEffect
  <2> QED
    BY <2>1, <2>2
<1>2. CASE FinishMarket \/ FinishFilledLimit
  <2> DEFINE o == call.order
  <2>1. o \in Orders /\ level[o] = None /\ order[o].status = "New" /\ order[o] \in Order
    BY <1>2, BornOrder
       DEF FinishMarket, FinishFilledLimit, PlacesInv, TypeInv, WellFormed, PlaceInv
  <2>2. PICK q, st : /\ order' = Amended(o, q, st) /\ st # "Canceled"
    <3>1. CASE FinishMarket
      BY <2>1, <3>1 DEF FinishMarket
    <3>2. CASE FinishFilledLimit
      <4>1. order' = [order EXCEPT ![o].status = "Filled"]
        BY <3>2 DEF FinishFilledLimit, LimitStatus
      <4>2. order' = Amended(o, order[o].quantity, "Filled")
        BY <2>1, <4>1 DEF Amended, PlacesInv, TypeInv, TypeOK, Order
      <4> QED
        BY <4>2
    <3> QED
      BY <1>2, <3>1, <3>2
  <2> HIDE DEF o
  <2>3. order'[o].status = st /\ \A y \in Orders : y # o => order'[y] = order[y]
    <3>1. TypeOK
      BY DEF PlacesInv, TypeInv
    <3> QED
      BY <2>1, <2>2, <3>1, AmendedTerms
  <2> QED
    BY <2>1, <2>2, <2>3
<1>3. CASE FinishRestingLimit
  <2>1. PICK l \in Orders, o \in Orders, q \in Nat : RestEffect(o, l, q)
    BY <1>3, RestHasEffect DEF PlacesInv
  <2>2. order'[x] = order[x] \/ (level[x] = None /\ order'[x].status # "Canceled")
    BY <2>1 DEF RestEffect
  <2> QED
    BY <2>2
<1>4. ASSUME NEW id \in Orders, NEW c \in Callers \cup {None}, BeginCancel(id, c)
      PROVE  order'[x] = order[x] \/ \E k, l \in Orders : CancelEffect(k, x, l)
  <2>1. PICK l \in Orders, o \in Orders : CancelEffect(id, o, l)
    BY <1>4, CancelHasEffect DEF PlacesInv
  <2>2. x = o \/ order'[x] = order[x]
    BY <2>1 DEF CancelEffect
  <2> QED
    BY <2>1, <2>2
<1>5. ASSUME NEW o \in Orders, NEW id, NEW side, NEW type, NEW price, NEW q, NEW c,
             BeginAdd(o, id, side, type, price, q, c)
      PROVE  order'[x] = order[x] \/ (level[x] = None /\ order'[x].status # "Canceled")
  <2>1. x = o \/ order'[x] = order[x]
    BY <1>5 DEF BeginAdd, PlacesInv, TypeInv, TypeOK
  <2>2. order'[o].status = "New" /\ ~Born(o)
    BY <1>5 DEF BeginAdd, PlacesInv, TypeInv, TypeOK
  <2>3. level[o] = None
    BY <2>2 DEF PlacesInv, BookInv
  <2> QED
    BY <2>1, <2>2, <2>3
<1>6. CASE order' = order
  BY <1>6
<1> QED
  BY <1>1, <1>2, <1>3, <1>4, <1>5, <1>6, StepKinds DEF PlacesInv

\* A canceled order stays canceled, and its quantities stay as they were.
LEMMA StaysFilledCanceled ==
    ASSUME CoreInv, [Next]_vars, FilledCanceled
    PROVE  FilledCanceled'
<1>1. PICK o \in Orders : order[o].status = "Canceled" /\ traded[o] = asked[o]
  BY DEF FilledCanceled
<1>2. traded'[o] = traded[o]
  BY <1>1, CanceledDoesNotMatch DEF CoreInv
<1>3. Born(o)
  BY <1>1 DEF Born
<1>4. asked'[o] = asked[o]
  <2>1. ASSUME NEW x \in Orders, NEW id, NEW side, NEW type, NEW price, NEW q, NEW c,
               BeginAdd(x, id, side, type, price, q, c)
        PROVE  asked'[o] = asked[o]
    BY <1>3, <2>1 DEF BeginAdd, CoreInv, PlacesInv, TypeInv, TypeOK
  <2>2. Match => asked' = asked
    BY DEF Match, MatchQuantity
  <2>3. FinishMarket \/ FinishFilledLimit \/ FinishRestingLimit => asked' = asked
    BY DEF FinishMarket, FinishFilledLimit, FinishRestingLimit
  <2>4. \A id, c : BeginCancel(id, c) => asked' = asked
    BY DEF BeginCancel
  <2> QED
    BY <2>1, <2>2, <2>3, <2>4, StepKinds DEF CoreInv, PlacesInv
<1>5. order'[o].status = "Canceled"
  <2>1. CASE Match
    <3>1. PICK l \in Orders, m \in Orders, fill \in Nat : MatchEffect(l, m, fill)
      BY <2>1, MatchHasEffect DEF CoreInv, PlacesInv
    <3>2. order[m].status # "Canceled"
      BY <3>1 DEF MatchEffect, CoreInv, PlacesInv, PlaceInv
    <3> QED
      BY <1>1, <3>1, <3>2 DEF MatchEffect
  <2>2. CASE FinishMarket \/ FinishFilledLimit
    <3>1. call.order # o /\ call.order \in Orders
      BY <1>1, <2>2
         DEF FinishMarket, FinishFilledLimit, CoreInv, PlacesInv, PlaceInv, TypeInv, WellFormed
    <3> QED
      BY <1>1, <2>2, <3>1
         DEF FinishMarket, FinishFilledLimit, Amended, CoreInv, PlacesInv, TypeInv, TypeOK
  <2>3. CASE FinishRestingLimit
    <3>1. PICK l \in Orders, x \in Orders, q \in Nat : RestEffect(x, l, q)
      BY <2>3, RestHasEffect DEF CoreInv, PlacesInv
    <3>2. order[x].status = "New"
      BY <3>1 DEF RestEffect, CoreInv, PlacesInv, PlaceInv
    <3> QED
      BY <1>1, <3>1, <3>2 DEF RestEffect
  <2>4. ASSUME NEW id \in Orders, NEW c \in Callers \cup {None}, BeginCancel(id, c)
        PROVE  order'[o].status = "Canceled"
    <3>1. PICK l \in Orders, x \in Orders : CancelEffect(id, x, l)
      BY <2>4, CancelHasEffect DEF CoreInv, PlacesInv
    <3> QED
      BY <1>1, <3>1 DEF CancelEffect
  <2>5. ASSUME NEW x \in Orders, NEW id, NEW side, NEW type, NEW price, NEW q, NEW c,
               BeginAdd(x, id, side, type, price, q, c)
        PROVE  order'[o].status = "Canceled"
    BY <1>1, <1>3, <2>5 DEF BeginAdd, CoreInv, PlacesInv, TypeInv, TypeOK
  <2> QED
    BY <1>1, <2>1, <2>2, <2>3, <2>4, <2>5, StepKinds DEF CoreInv, PlacesInv
<1> QED
  BY <1>1, <1>2, <1>4, <1>5 DEF FilledCanceled

\* Matching, resting and canceling apart, a step leaves the book alone, and
\* the orders that have a place in it.
LEMMA OtherSteps ==
    ASSUME PlacesInv, [Next]_vars
    PROVE  \/ Match
           \/ FinishRestingLimit
           \/ \E id \in Orders, c \in Callers \cup {None} : BeginCancel(id, c)
           \/ /\ UNCHANGED <<tree, queue, volume, orderIndex, level>>
              /\ \A x \in Orders : level[x] # None => order'[x] = order[x]
<1>1. CASE FinishMarket \/ FinishFilledLimit
  <2>1. UNCHANGED <<tree, queue, volume, orderIndex, level>>
    BY <1>1 DEF FinishMarket, FinishFilledLimit, book
  <2>2. call.order \in Orders /\ level[call.order] = None
    BY <1>1
       DEF FinishMarket, FinishFilledLimit, PlacesInv, PlaceInv, TypeInv, WellFormed
  <2>3. \A x \in Orders : level[x] # None => order'[x] = order[x]
    BY <1>1, <2>2 DEF FinishMarket, FinishFilledLimit, Amended, PlacesInv, TypeInv, TypeOK
  <2> QED
    BY <2>1, <2>3
<1>2. ASSUME NEW o \in Orders, NEW id, NEW side, NEW type, NEW price, NEW q, NEW c,
             BeginAdd(o, id, side, type, price, q, c)
      PROVE  /\ UNCHANGED <<tree, queue, volume, orderIndex, level>>
             /\ \A x \in Orders : level[x] # None => order'[x] = order[x]
  <2>1. /\ UNCHANGED <<tree, queue, volume, orderIndex, level>>
        /\ \A x \in Orders : x # o => order'[x] = order[x]
        /\ ~Born(o)
    BY <1>2 DEF BeginAdd, book, PlacesInv, TypeInv, TypeOK
  <2>2. level[o] = None
    BY <2>1 DEF PlacesInv, BookInv
  <2> QED
    BY <2>1, <2>2
<1> QED
  BY <1>1, <1>2, StepKinds DEF PlacesInv

\* the trees a step leaves smaller, or as they were
LEMMA TreesShrink ==
    ASSUME PlacesInv, [Next]_vars, ~FinishRestingLimit
    PROVE  /\ level' = level
           /\ \A s \in Sides : tree'[s] \subseteq tree[s]
<1>1. CASE Match
  <2>1. PICK l \in Orders, m \in Orders, fill \in Nat : MatchEffect(l, m, fill)
    BY <1>1, MatchHasEffect DEF PlacesInv
  <2>2. order[m].side \in Sides
    BY <2>1, BornOrder, QueueMembers DEF MatchEffect, PlacesInv, TypeInv, Order, Sides
  <2>3. \A r \in Sides : Delete(order[m].side, order[m].price)[r] \subseteq tree[r]
    BY <2>2, DeleteShrinks DEF PlacesInv, TypeInv
  <2> QED
    BY <2>1, <2>3 DEF MatchEffect
<1>2. ASSUME NEW id \in Orders, NEW c \in Callers \cup {None}, BeginCancel(id, c)
      PROVE  level' = level /\ \A s \in Sides : tree'[s] \subseteq tree[s]
  <2>1. PICK l \in Orders, o \in Orders : CancelEffect(id, o, l)
    BY <1>2, CancelHasEffect DEF PlacesInv
  <2>2. order[o].side \in Sides
    BY <2>1, BornOrder DEF CancelEffect, PlacesInv, TypeInv, Order, Sides
  <2>3. \A r \in Sides : Delete(order[o].side, order[o].price)[r] \subseteq tree[r]
    BY <2>2, DeleteShrinks DEF PlacesInv, TypeInv
  <2> QED
    BY <2>1, <2>3 DEF CancelEffect
<1>3. CASE UNCHANGED <<tree, level>>
  BY <1>3
<1> QED
  BY <1>1, <1>2, <1>3, OtherSteps

LEMMA OneLevelPerPrice ==
    ASSUME PlacesInv, ViewInv, [Next]_vars, NEW s \in Sides,
           NEW k \in tree'[s], NEW l \in tree'[s], order'[k].price = order'[l].price
    PROVE  k = l
<1>1. \A x \in Orders : Born(x) => order'[x].price = order[x].price
  BY StepKeepsTerms DEF PlacesInv, KeepsTerms
<1>2. \A x \in tree[s] : x \in Orders /\ Born(x)
  BY DEF PlacesInv, BookInv, TypeInv, TypeOK
<1>3. CASE ~FinishRestingLimit
  <2>1. k \in tree[s] /\ l \in tree[s]
    BY <1>3, TreesShrink
  <2> QED
    BY <1>1, <1>2, <2>1 DEF ViewInv
<1>4. CASE FinishRestingLimit
  <2>1. PICK n \in Orders, o \in Orders, q \in Nat : RestEffect(o, n, q)
    BY <1>4, RestHasEffect DEF PlacesInv
  <2>2. Born(o)
    BY <2>1 DEF RestEffect, PlacesInv, TypeInv, WellFormed
  <2>3. tree'[s] = IF s = order[o].side THEN tree[s] \cup {n} ELSE tree[s]
    BY <2>1 DEF RestEffect, PlacesInv, TypeInv, TypeOK
  <2>4. CASE n = o /\ Search(order[o].side, order[o].price) = {}
    <3>1. \A x \in tree[order[o].side] : order[x].price # order[o].price
      BY <2>4 DEF Search, PriceOf
    <3> QED
      BY <1>1, <1>2, <2>2, <2>3, <2>4, <3>1 DEF ViewInv
  <2>5. CASE n \in tree[order[o].side]
    <3>1. k \in tree[s] /\ l \in tree[s]
      BY <2>3, <2>5
    <3> QED
      BY <1>1, <1>2, <3>1 DEF ViewInv
  <2>6. n \in Insert(o)
    BY <2>1 DEF RestEffect
  <2>7. (n = o /\ Search(order[o].side, order[o].price) = {}) \/ n \in tree[order[o].side]
    BY <2>6 DEF Insert, Search
  <2> QED
    BY <2>4, <2>5, <2>7
<1> QED
  BY <1>3, <1>4

LEMMA OpenIsQueued ==
    ASSUME PlacesInv, ViewInv, [Next]_vars, NEW x \in Orders, level'[x] # None
    PROVE  Within(queue'[level'[x]], x) \/ order'[x].status \in {"Filled", "Canceled"}
<1>1. \A y \in Orders : level[y] \in Orders \cup {None}
  BY DEF PlacesInv, TypeInv, TypeOK
<1>2. level[x] # None =>
          Within(queue[level[x]], x) \/ order[x].status \in {"Filled", "Canceled"}
  BY DEF ViewInv, InQueue, Within
<1>3. CASE Match
  <2>1. PICK l \in Orders, m \in Orders, fill \in Nat : MatchEffect(l, m, fill)
    BY <1>3, MatchHasEffect DEF PlacesInv
  <2>2. level' = level /\ (x # m => order'[x] = order[x]) /\ level[x] \in Orders
    BY <1>1, <2>1 DEF MatchEffect
  <2>3. CASE fill = order[m].quantity
    <3>1. LeavesQueue(m) /\ order'[m].status = "Filled"
      BY <2>1, <2>3, MatchQueues DEF MatchEffect
    <3>2. Within(queue[level[x]], x) /\ x # m => Within(queue'[level[x]], x)
      BY <2>2, <3>1 DEF LeavesQueue
    <3> QED
      BY <1>2, <2>2, <3>1, <3>2
  <2>4. CASE fill # order[m].quantity
    <3>1. queue'[level[x]] = queue[level[x]]
      BY <2>1, <2>2, <2>4, MatchQueues
    <3>2. Within(queue[level[m]], m)
      BY <2>1 DEF MatchEffect, Within
    <3>3. x = m => Within(queue[level[x]], x)
      BY <3>2
    <3>4. Within(queue[level[x]], x) => Within(queue'[level[x]], x)
      BY <3>1
    <3> QED
      BY <1>2, <2>2, <3>3, <3>4
  <2> QED
    BY <2>3, <2>4
<1>4. CASE FinishRestingLimit
  <2>1. PICK l \in Orders, o \in Orders, q \in Nat : RestEffect(o, l, q)
    BY <1>4, RestHasEffect DEF PlacesInv
  <2>2. JoinsQueue(o, l)
    BY <2>1, RestQueues
  <2>3. level'[o] = l /\ (x # o => level'[x] = level[x] /\ order'[x] = order[x])
    BY <2>1 DEF RestEffect
  <2>4. CASE x = o
    BY <2>2, <2>3, <2>4 DEF JoinsQueue
  <2>5. CASE x # o
    <3>1. level[x] \in Orders /\ level'[x] = level[x] /\ order'[x] = order[x]
      BY <1>1, <2>3, <2>5
    <3>2. Within(queue[level[x]], x) => Within(queue'[level[x]], x)
      BY <2>2, <3>1 DEF JoinsQueue
    <3> QED
      BY <1>2, <3>1, <3>2, OrdersAssumption
  <2> QED
    BY <2>4, <2>5
<1>5. ASSUME NEW id \in Orders, NEW c \in Callers \cup {None}, BeginCancel(id, c)
      PROVE  Within(queue'[level'[x]], x) \/ order'[x].status \in {"Filled", "Canceled"}
  <2>1. PICK l \in Orders, o \in Orders : CancelEffect(id, o, l)
    BY <1>5, CancelHasEffect DEF PlacesInv
  <2>2. LeavesQueue(o)
    BY <2>1, CancelQueues
  <2>3. /\ level'[x] = level[x] /\ level[x] \in Orders
        /\ order'[o].status = "Canceled" /\ (x # o => order'[x] = order[x])
    BY <1>1, <2>1 DEF CancelEffect
  <2>4. Within(queue[level[x]], x) /\ x # o => Within(queue'[level[x]], x)
    BY <2>2, <2>3 DEF LeavesQueue
  <2> QED
    BY <1>2, <2>3, <2>4, OrdersAssumption
<1>6. CASE UNCHANGED <<queue, level>> /\ (level[x] # None => order'[x] = order[x])
  BY <1>2, <1>6
<1> QED
  BY <1>3, <1>4, <1>5, <1>6, OtherSteps

LEMMA IndexIsOpen ==
    ASSUME PlacesInv, ViewInv, [Next]_vars, NEW id \in Orders, orderIndex'[id] # None
    PROVE  order'[orderIndex'[id]].id = id /\ order'[orderIndex'[id]].status # "Canceled"
<1> DEFINE o == orderIndex[id]
<1>1. o # None => /\ o \in Orders /\ Born(o) /\ level[o] \in Orders
                  /\ order[o].id = id /\ order[o].status # "Canceled"
  BY DEF ViewInv, PlacesInv, TypeInv, TypeOK, WellFormed
<1>2. \A x \in Orders : Born(x) => order'[x].id = order[x].id
  BY StepKeepsTerms DEF PlacesInv, KeepsTerms
<1>3. CASE FinishRestingLimit
  <2>1. PICK l \in Orders, x \in Orders, q \in Nat : RestEffect(x, l, q)
    BY <1>3, RestHasEffect DEF PlacesInv
  <2>2. /\ orderIndex' = [orderIndex EXCEPT ![order[x].id] = x]
        /\ order'[x].status = "New" /\ Born(x) /\ order[x].id \in Orders
        /\ \A y \in Orders : y # x => order'[y] = order[y]
    BY <2>1, BornOrder DEF RestEffect, PlacesInv, TypeInv, WellFormed, Order
  <2>3. CASE id = order[x].id
    <3>1. orderIndex'[id] = x
      BY <2>2, <2>3 DEF PlacesInv, TypeInv, TypeOK
    <3> QED
      BY <1>2, <2>2, <2>3, <3>1
  <2>4. CASE id # order[x].id
    <3>1. orderIndex'[id] = o
      BY <2>2, <2>4 DEF PlacesInv, TypeInv, TypeOK
    <3> QED
      BY <1>1, <2>2, <2>4, <3>1
  <2> QED
    BY <2>3, <2>4
<1>4. ASSUME NEW k \in Orders, NEW c \in Callers \cup {None}, BeginCancel(k, c)
      PROVE  order'[orderIndex'[id]].id = id /\ order'[orderIndex'[id]].status # "Canceled"
  <2>1. PICK l \in Orders, x \in Orders : CancelEffect(k, x, l)
    BY <1>4, CancelHasEffect DEF PlacesInv
  <2>2. /\ orderIndex' = [orderIndex EXCEPT ![k] = None] /\ x = orderIndex[k]
        /\ \A y \in Orders : y # x => order'[y] = order[y]
    BY <2>1 DEF CancelEffect
  <2>3. id # k /\ orderIndex'[id] = o
    BY <2>2 DEF PlacesInv, TypeInv, TypeOK
  <2>4. x # o
    <3>1. order[x].id = k
      BY <2>2, OrdersAssumption DEF ViewInv
    <3> QED
      BY <1>1, <2>3, <3>1
  <2> QED
    BY <1>1, <2>2, <2>3, <2>4
<1>5. CASE orderIndex' = orderIndex
  <2>1. o \in Orders /\ Born(o) /\ level[o] \in Orders /\ order[o].id = id
        /\ order[o].status # "Canceled"
    BY <1>1, <1>5
  <2>2. order'[o].status # "Canceled"
    <3>1. ASSUME NEW k \in Orders, NEW l \in Orders, CancelEffect(k, o, l) PROVE FALSE
      <4>1. orderIndex'[k] = None /\ orderIndex[k] = o
        BY <3>1 DEF CancelEffect, PlacesInv, TypeInv, TypeOK
      <4> QED
        BY <1>5, <2>1, <4>1, OrdersAssumption
    <3>2. \A l \in Orders, fill \in Nat :
              MatchEffect(l, o, fill) => order'[o].status # "Canceled"
      BY DEF MatchEffect
    <3> HIDE DEF o
    <3> QED
      BY <2>1, <3>1, <3>2, OrderMoves, OrdersAssumption
  <2> QED
    BY <1>2, <1>5, <2>1, <2>2
<1>6. Match => orderIndex' = orderIndex
  BY DEF Match, MatchQuantity
<1> QED
  BY <1>3, <1>4, <1>5, <1>6, OtherSteps

\* A cancel finds its order in the book, unless the order was filled.
LEMMA CancelInBook ==
    ASSUME CoreInv, ViewInv, ~FilledCanceled',
           NEW id \in Orders, NEW o \in Orders, NEW l \in Orders, CancelEffect(id, o, l)
    PROVE  Within(queue[l], o)
<1>1. /\ o = orderIndex[id] /\ l = level[o] /\ order'[o].status = "Canceled"
      /\ UNCHANGED <<asked, traded>>
  BY DEF CancelEffect
<1>2. order[o].status # "Canceled" /\ level[o] # None
  BY <1>1, OrdersAssumption DEF ViewInv
<1>3. order[o].status # "Filled"
  <2>1. traded[o] # asked[o]
    BY <1>1 DEF FilledCanceled
  <2> QED
    BY <2>1 DEF CoreInv, QuantityInv, QuantityConserved
<1> QED
  BY <1>1, <1>2, <1>3 DEF ViewInv, InQueue, Within

\* Deleting a level by its price deletes no other.
LEMMA DeletesOneLevel ==
    ASSUME PlacesInv, ViewInv, NEW l \in Orders, l \in tree[order[l].side]
    PROVE  /\ \A s \in Sides : \A k \in tree[s] : k # l => k \in Delete(order[l].side, order[l].price)[s]
<1>1. order[l].side \in Sides
  BY DEF PlacesInv, TypeInv, TypeOK, Order, Blank, Sides
<1> DEFINE s == order[l].side
<1>2. \A k \in tree[s] : order[k].price = order[l].price => k = l
  BY <1>1 DEF ViewInv
<1> QED
  BY <1>1, <1>2 DEF Delete, Search, PriceOf, PlacesInv, TypeInv, TypeOK

LEMMA QueuedIsInTree ==
    ASSUME CoreInv, ViewInv, [Next]_vars, ~FilledCanceled', NEW k \in Orders, queue'[k] # <<>>
    PROVE  k \in tree'[order'[k].side]
<1>1. ~FilledCanceled
  BY StaysFilledCanceled
<1>2. ASSUME queue[k] # <<>>
      PROVE  /\ k \in tree[order[k].side] /\ Born(k) /\ order[k].side \in Sides
             /\ order'[k].side = order[k].side
  <2>1. k \in tree[order[k].side]
    BY <1>1, <1>2 DEF ViewInv
  <2>2. order[k].side \in Sides
    BY DEF CoreInv, PlacesInv, TypeInv, TypeOK, Order, Blank, Sides
  <2>3. Born(k)
    BY <2>1, <2>2 DEF CoreInv, PlacesInv, BookInv
  <2> QED
    BY <2>1, <2>2, <2>3, StepKeepsTerms DEF CoreInv, PlacesInv, KeepsTerms
<1>3. CASE Match
  <2>1. PICK l \in Orders, m \in Orders, fill \in Nat : MatchEffect(l, m, fill)
    BY <1>3, MatchHasEffect DEF CoreInv, PlacesInv
  <2>2. queue[l] # <<>> /\ queue[k] # <<>>
    <3>1. queue[l] # <<>>
      BY <2>1 DEF MatchEffect
    <3> QED
      BY <2>1, <3>1 DEF MatchEffect
  <2>3. /\ order[m].side = order[l].side /\ order[m].price = order[l].price
        /\ tree' = IF queue'[l] = <<>> THEN Delete(order[m].side, order[m].price) ELSE tree
    BY <2>1 DEF MatchEffect
  <2>4. l \in tree[order[l].side]
    BY <1>1, <2>2 DEF ViewInv
  <2>5. k # l \/ tree' = tree
    BY <2>3
  <2> QED
    BY <1>2, <2>2, <2>3, <2>4, <2>5, DeletesOneLevel DEF CoreInv
<1>4. ASSUME NEW id \in Orders, NEW c \in Callers \cup {None}, BeginCancel(id, c)
      PROVE  k \in tree'[order'[k].side]
  <2>1. PICK l \in Orders, o \in Orders : CancelEffect(id, o, l)
    BY <1>4, CancelHasEffect DEF CoreInv, PlacesInv
  <2>2. Within(queue[l], o)
    BY <2>1, CancelInBook
  <2>3. queue[l] # <<>>
    BY <2>2, OnlyInItsQueue DEF CoreInv
  <2>4. queue[k] # <<>>
    BY <2>1, <2>3 DEF CancelEffect
  <2>5. /\ order[o].side = order[l].side /\ order[o].price = order[l].price
        /\ tree' = IF queue'[l] = <<>> THEN Delete(order[o].side, order[o].price) ELSE tree
    BY <2>1, OrdersAssumption DEF CancelEffect, CoreInv, PlacesInv, BookInv, PlaceInv
  <2>6. l \in tree[order[l].side]
    BY <1>1, <2>3 DEF ViewInv
  <2>7. k # l \/ tree' = tree
    BY <2>5
  <2> QED
    BY <1>2, <2>4, <2>5, <2>6, <2>7, DeletesOneLevel DEF CoreInv
<1>5. CASE FinishRestingLimit
  <2>1. PICK l \in Orders, o \in Orders, q \in Nat : RestEffect(o, l, q)
    BY <1>5, RestHasEffect DEF CoreInv, PlacesInv
  <2>2. /\ \A s \in Sides : tree[s] \subseteq tree'[s]
        /\ l \in tree'[order[o].side] /\ order[o].side \in Sides
    BY <2>1 DEF RestEffect, CoreInv, PlacesInv, TypeInv, TypeOK
  <2>3. CASE k # l
    <3>1. queue[k] # <<>>
      BY <2>1, <2>3 DEF RestEffect
    <3> QED
      BY <1>2, <2>2, <3>1
  <2>4. CASE k = l
    <3>1. Born(o)
      BY <2>1 DEF RestEffect, CoreInv, PlacesInv, TypeInv, WellFormed
    <3>2. Born(l) /\ order[l].side = order[o].side
      BY <2>1, <2>2, <3>1 DEF RestEffect, CoreInv, PlacesInv, BookInv
    <3>3. order'[l].side = order[o].side
      BY <3>2, StepKeepsTerms DEF CoreInv, PlacesInv, KeepsTerms
    <3> QED
      BY <2>2, <2>4, <3>3
  <2> QED
    BY <2>3, <2>4
<1>6. CASE UNCHANGED <<tree, queue>>
  BY <1>2, <1>6
<1> QED
  BY <1>3, <1>4, <1>5, <1>6, OtherSteps DEF CoreInv

LEMMA ViewStep == CoreInv /\ ViewInv /\ [Next]_vars => ViewInv'
<1> SUFFICES ASSUME CoreInv, ViewInv, [Next]_vars PROVE ViewInv'
  OBVIOUS
<1>1. \A s \in Sides : \A k, l \in tree'[s] : order'[k].price = order'[l].price => k = l
  BY OneLevelPerPrice DEF CoreInv
<1>2. \A o \in Orders : level'[o] # None =>
          InQueue(o, level[o])' \/ order'[o].status \in {"Filled", "Canceled"}
  BY OpenIsQueued DEF CoreInv, InQueue, Within
<1>3. \A id \in Orders : orderIndex'[id] # None =>
          order'[orderIndex'[id]].id = id /\ order'[orderIndex'[id]].status # "Canceled"
  BY IndexIsOpen DEF CoreInv
<1>4. FilledCanceled' \/ \A l \in Orders : queue'[l] # <<>> => l \in tree'[order'[l].side]
  BY QueuedIsInTree
<1> QED
  BY <1>1, <1>2, <1>3, <1>4 DEF ViewInv

BookkeepingInv == CoreInv /\ ViewInv

LEMMA InitBookkeeping == Init => BookkeepingInv
<1>1. Init => ViewInv
  BY DEF Init, ViewInv, Sides
<1>2. Init => CoreInv
  BY InitType, InitBook, InitPlace, InitQuantity DEF CoreInv, PlacesInv
<1> QED
  BY <1>1, <1>2 DEF BookkeepingInv

LEMMA BookkeepingStep == BookkeepingInv /\ [Next]_vars => BookkeepingInv'
BY TypeStep, BookStep, PlaceStep, QuantityStep, ViewStep DEF BookkeepingInv, CoreInv, PlacesInv

LEMMA BookkeepingHolds == Spec => []BookkeepingInv
BY InitBookkeeping, BookkeepingStep, PTL DEF Spec

\* The mapping, in terms of the queues alone.
InBook(o) == level[o] # None /\ Within(queue[level[o]], o)

LEMMA RestingIsQueued ==
    ASSUME BookkeepingInv, ~FilledCanceled
    PROVE  Resting = {o \in Orders : InBook(o)}
<1>1. ASSUME NEW o \in Resting PROVE o \in Orders /\ InBook(o)
  <2>1. PICK l \in tree["Buy"] \cup tree["Sell"] : o \in {queue[l][i] : i \in DOMAIN queue[l]}
    BY DEF Resting
  <2>2. l \in Orders /\ Within(queue[l], o)
    BY <2>1 DEF Within, BookkeepingInv, CoreInv, PlacesInv, TypeInv, TypeOK, Sides
  <2>3. o \in Orders /\ level[o] = l
    BY <2>2, OnlyInItsQueue DEF BookkeepingInv, CoreInv
  <2> QED
    BY <2>2, <2>3, OrdersAssumption DEF InBook
<1>2. ASSUME NEW o \in Orders, InBook(o) PROVE o \in Resting
  <2> DEFINE l == level[o]
  <2>1. l \in Orders /\ Within(queue[l], o)
    BY <1>2 DEF InBook, BookkeepingInv, CoreInv, PlacesInv, TypeInv, TypeOK
  <2> HIDE DEF l
  <2>2. l \in tree[order[l].side]
    BY <2>1, OnlyInItsQueue DEF BookkeepingInv, CoreInv, ViewInv
  <2>3. order[l].side \in {"Buy", "Sell"}
    BY <2>1 DEF BookkeepingInv, CoreInv, PlacesInv, TypeInv, TypeOK, Order, Blank, Sides
  <2> QED
    BY <2>1, <2>2, <2>3 DEF Resting, Within
<1> QED
  BY <1>1, <1>2

LEMMA AheadIsBefore ==
    ASSUME BookkeepingInv, ~FilledCanceled
    PROVE  Ahead = [o \in Orders |->
                      IF InBook(o) THEN {x \in Orders : Before(queue[level[o]], x, o)} ELSE {}]
<1>1. ASSUME NEW o \in Orders, InBook(o)
      PROVE  LET q == queue[level[o]]
                 n == CHOOSE i \in DOMAIN q : q[i] = o
             IN  {q[i] : i \in 1 .. n - 1} = {x \in Orders : Before(q, x, o)}
  <2> DEFINE q == queue[level[o]]
             n == CHOOSE i \in DOMAIN q : q[i] = o
  <2>1. q \in Seq(Orders) /\ Distinct(q) /\ \E i \in DOMAIN q : q[i] = o
    <3>1. level[o] \in Orders /\ \E i \in DOMAIN q : q[i] = o
      BY <1>1 DEF InBook, Within, BookkeepingInv, CoreInv, PlacesInv, TypeInv, TypeOK
    <3>2. \A l \in Orders : queue[l] \in Seq(Orders) /\ Distinct(queue[l])
      BY DEF BookkeepingInv, CoreInv, PlacesInv, PlaceInv, TypeInv, TypeOK
    <3> QED
      BY <3>1, <3>2
  <2> HIDE DEF q
  <2>2. n \in DOMAIN q /\ q[n] = o
    BY <2>1
  <2> HIDE DEF n
  <2>3. DOMAIN q = 1 .. Len(q) /\ Len(q) \in Nat
    BY <2>1, LenProperties
  <2>4. \A i \in DOMAIN q : q[i] \in Orders
    BY <2>1, <2>3, ElementOfSeq
  <2>5. \A j \in DOMAIN q : q[j] = o => j = n
    BY <2>1, <2>2 DEF Distinct
  <2>6. \A i \in 1 .. n - 1 : i \in DOMAIN q /\ i < n
    BY <2>2, <2>3
  <2>7. \A i \in DOMAIN q : i < n => i \in 1 .. n - 1
    BY <2>2, <2>3
  <2>8. {q[i] : i \in 1 .. n - 1} = {x \in Orders : Before(q, x, o)}
    BY <2>2, <2>4, <2>5, <2>6, <2>7 DEF Before
  <2> QED
    BY <2>8 DEF q, n
<1>2. \A o \in Orders : o \in Resting <=> InBook(o)
  BY RestingIsQueued
<1> QED
  BY <1>1, <1>2 DEF Ahead

QueuesTellAll ==
    /\ Resting = {o \in Orders : InBook(o)}
    /\ Ahead = [o \in Orders |->
                   IF InBook(o) THEN {x \in Orders : Before(queue[level[o]], x, o)} ELSE {}]

LEMMA QueuesTell == BookkeepingInv /\ ~FilledCanceled => QueuesTellAll
BY RestingIsQueued, AheadIsBefore DEF QueuesTellAll

LEMMA QueuesTellNext == (BookkeepingInv /\ ~FilledCanceled)' => QueuesTellAll'
BY QueuesTell, PTL

\* An order that leaves its queue leaves the book, and nothing else changes.
LEMMA OneLeaves ==
    ASSUME BookkeepingInv, BookkeepingInv', ~FilledCanceled, ~FilledCanceled',
           NEW m \in Orders, LeavesQueue(m), level' = level
    PROVE  /\ Resting' = Resting \ {m}
           /\ Ahead' = [x \in Orders |-> IF x = m THEN {} ELSE Ahead[x] \ {m}]
<1>1. \A x \in Orders : level[x] \in Orders \cup {None}
  BY DEF BookkeepingInv, CoreInv, PlacesInv, TypeInv, TypeOK
<1>2. \A x \in Orders : InBook(x)' <=> InBook(x) /\ x # m
  BY <1>1 DEF LeavesQueue, InBook
<1>3. \A x, y \in Orders : InBook(y) =>
          (Before(queue'[level[y]], x, y) <=> Before(queue[level[y]], x, y) /\ x # m /\ y # m)
  BY <1>1 DEF LeavesQueue, InBook
<1>4. Resting = {o \in Orders : InBook(o)} /\ Resting' = {o \in Orders : InBook(o)'}
  BY QueuesTell, QueuesTellNext DEF QueuesTellAll
<1>5. Ahead = [o \in Orders |->
                  IF InBook(o) THEN {x \in Orders : Before(queue[level[o]], x, o)} ELSE {}]
  BY QueuesTell DEF QueuesTellAll
<1>6. Ahead' = [o \in Orders |->
                  IF InBook(o)' THEN {x \in Orders : Before(queue'[level'[o]], x, o)} ELSE {}]
  BY QueuesTellNext DEF QueuesTellAll
<1>7. ASSUME NEW o \in Orders
      PROVE  Ahead'[o] = IF o = m THEN {} ELSE Ahead[o] \ {m}
  BY <1>2, <1>3, <1>5, <1>6
<1> QED
  BY <1>2, <1>4, <1>6, <1>7

\* An order that joins a queue is behind those of its price, in nobody's way.
LEMMA OneJoins ==
    ASSUME BookkeepingInv, BookkeepingInv', ~FilledCanceled, ~FilledCanceled',
           NEW o \in Orders, NEW l \in Orders, JoinsQueue(o, l),
           \A k \in Orders : ~Within(queue[k], o),
           level'[o] = l, \A x \in Orders : x # o => level'[x] = level[x]
    PROVE  /\ Resting' = Resting \cup {o}
           /\ Ahead' = [Ahead EXCEPT ![o] = {x \in Orders : Within(queue[l], x)}]
<1>1. \A x \in Orders : level[x] \in Orders \cup {None}
  BY DEF BookkeepingInv, CoreInv, PlacesInv, TypeInv, TypeOK
<1>2. \A x \in Orders : InBook(x)' <=> InBook(x) \/ x = o
  BY <1>1, OrdersAssumption DEF JoinsQueue, InBook
<1>3. \A x, y \in Orders : y # o /\ InBook(y) =>
          (Before(queue'[level[y]], x, y) <=> Before(queue[level[y]], x, y))
  BY <1>1 DEF JoinsQueue, InBook
<1>4. \A x \in Orders : Before(queue'[l], x, o) <=> Within(queue[l], x)
  <2>1. \A x : ~Before(queue[l], x, o)
    BY DEF Before, Within
  <2> QED
    BY <2>1 DEF JoinsQueue
<1>5. Resting = {x \in Orders : InBook(x)} /\ Resting' = {x \in Orders : InBook(x)'}
  BY QueuesTell, QueuesTellNext DEF QueuesTellAll
<1>6. Ahead = [y \in Orders |->
                  IF InBook(y) THEN {x \in Orders : Before(queue[level[y]], x, y)} ELSE {}]
  BY QueuesTell DEF QueuesTellAll
<1>7. Ahead' = [y \in Orders |->
                  IF InBook(y)' THEN {x \in Orders : Before(queue'[level'[y]], x, y)} ELSE {}]
  BY QueuesTellNext DEF QueuesTellAll
<1>8. Ahead'[o] = {x \in Orders : Within(queue[l], x)}
  BY <1>2, <1>4, <1>7
<1>9. ASSUME NEW y \in Orders, y # o PROVE Ahead'[y] = Ahead[y]
  BY <1>2, <1>3, <1>6, <1>7, <1>9
<1>10. Resting' = Resting \cup {o}
  BY <1>2, <1>5
<1>11. DOMAIN Ahead = Orders /\ Ahead' = [y \in Orders |-> Ahead'[y]]
  BY <1>6, <1>7
<1>12. Ahead = [y \in Orders |-> Ahead[y]]
  BY <1>6
<1>13. Ahead' = [Ahead EXCEPT ![o] = {x \in Orders : Within(queue[l], x)}]
  BY <1>8, <1>9, <1>11, <1>12
<1> QED
  BY <1>10, <1>13

LEMMA NobodyMoves ==
    ASSUME BookkeepingInv, BookkeepingInv', ~FilledCanceled, ~FilledCanceled',
           level' = level, \A k \in Orders : queue'[k] = queue[k]
    PROVE  UNCHANGED <<Resting, Ahead>>
<1>1. \A x \in Orders : level[x] \in Orders \cup {None}
  BY DEF BookkeepingInv, CoreInv, PlacesInv, TypeInv, TypeOK
<1>2. \A x \in Orders : InBook(x)' <=> InBook(x)
  BY <1>1 DEF InBook
<1>3. Resting = {x \in Orders : InBook(x)} /\ Resting' = {x \in Orders : InBook(x)'}
  BY QueuesTell, QueuesTellNext DEF QueuesTellAll
<1>4. Ahead = [y \in Orders |->
                  IF InBook(y) THEN {x \in Orders : Before(queue[level[y]], x, y)} ELSE {}]
  BY QueuesTell DEF QueuesTellAll
<1>5. Ahead' = [y \in Orders |->
                  IF InBook(y)' THEN {x \in Orders : Before(queue'[level'[y]], x, y)} ELSE {}]
  BY QueuesTellNext DEF QueuesTellAll
<1>6. ASSUME NEW y \in Orders PROVE Ahead'[y] = Ahead[y]
  <2>1. InBook(y) => queue'[level[y]] = queue[level[y]]
    BY <1>1 DEF InBook
  <2> QED
    BY <1>2, <1>4, <1>5, <2>1
<1> QED
  BY <1>2, <1>3, <1>4, <1>5, <1>6

\* Placed orders keep their terms, so a request never changes.
LEMMA RequestsStay ==
    ASSUME BookkeepingInv, [Next]_vars, \A x \in Orders : ~Born(x) => order'[x] = order[x]
    PROVE  Request' = Request
<1>1. \A x \in Orders : Born(x)' <=> Born(x)
  BY StepKeepsTerms DEF Born, KeepsTerms, BookkeepingInv, CoreInv, PlacesInv
<1>2. \A x \in Orders : Born(x) => KeepsTerms(x)
  BY StepKeepsTerms DEF BookkeepingInv, CoreInv, PlacesInv
<1> QED
  BY <1>1, <1>2 DEF Request, KeepsTerms

\* what an order at rest and its level have in common
LEMMA RestingLevel ==
    ASSUME BookkeepingInv, ~FilledCanceled, NEW x \in Resting
    PROVE  /\ x \in Orders /\ Born(x) /\ order[x] \in Order
           /\ level[x] \in Orders /\ level[x] \in tree[order[x].side]
           /\ order[level[x]].price = order[x].price
           /\ Within(queue[level[x]], x)
           /\ order[x].quantity > 0 /\ ~Incoming(x)
<1>1. x \in Orders /\ level[x] # None /\ Within(queue[level[x]], x)
  BY RestingIsQueued DEF InBook
<1>2. level[x] \in Orders
  BY <1>1 DEF BookkeepingInv, CoreInv, PlacesInv, TypeInv, TypeOK
<1>3. Born(x) /\ order[x] \in Order /\ queue[level[x]] # <<>>
  BY <1>1, <1>2, OnlyInItsQueue, BornOrder DEF BookkeepingInv, CoreInv, PlacesInv, TypeInv
<1>4. level[x] \in tree[order[x].side]
  <2>1. level[x] \in tree[order[level[x]].side]
    BY <1>2, <1>3 DEF BookkeepingInv, ViewInv
  <2> QED
    BY <1>1, <2>1 DEF BookkeepingInv, CoreInv, PlacesInv, BookInv
<1>5. order[level[x]].price = order[x].price
  BY <1>1 DEF BookkeepingInv, CoreInv, PlacesInv, PlaceInv
<1>6. order[x].quantity > 0
  <2>1. PICK i \in DOMAIN queue[level[x]] : queue[level[x]][i] = x
    BY <1>1 DEF Within
  <2> QED
    BY <1>2, <2>1 DEF BookkeepingInv, CoreInv, PlacesInv, PlaceInv
<1>7. ~Incoming(x)
  BY <1>1 DEF Incoming, BookkeepingInv, CoreInv, PlacesInv, PlaceInv
<1> QED
  BY <1>1, <1>2, <1>3, <1>4, <1>5, <1>6, <1>7

LEMMA RequestOf ==
    ASSUME NEW x \in Orders, Born(x)
    PROVE  /\ Request[x].side = order[x].side
           /\ Request[x].type = order[x].type
           /\ Request[x].price = order[x].price
BY DEF Request

\* One round of MatchQuantity's loop is a trade with the order that has
\* priority: the level is the best one, and its front is the oldest.
LEMMA MatchIsTrade ==
    ASSUME BookkeepingInv, BookkeepingInv', ~FilledCanceled, ~FilledCanceled', [Next]_vars, Match
    PROVE  Book!Trade
<1>1. PICK l \in Orders, m \in Orders, fill \in Nat : MatchEffect(l, m, fill)
  BY MatchHasEffect DEF BookkeepingInv, CoreInv, PlacesInv
<1>2. PICK o \in Orders : o = call.order
  BY <1>1 DEF MatchEffect
<1>3. /\ Born(o) /\ Born(m) /\ order[o] \in Order /\ order[m] \in Order
      /\ call.remaining \in Nat /\ Within(queue[l], m) /\ level[m] = l /\ o # m
  BY <1>1, <1>2, QueueMembers, BornOrder
     DEF MatchEffect, Within, BookkeepingInv, CoreInv, PlacesInv, TypeInv, WellFormed, TypeOK,
         CallType
<1>4. order[m].quantity \in Nat /\ m \in Resting
  BY <1>3, RestingIsQueued, OrdersAssumption DEF Order, InBook
<1>5. Trading = o /\ Trading' = o /\ o # None
  BY <1>1, <1>2, OrdersAssumption DEF MatchEffect, Trading
<1>6. Request' = Request
  BY <1>1, <1>3, RequestsStay DEF MatchEffect
<1>7. IF fill = order[m].quantity
      THEN /\ Resting' = Resting \ {m}
           /\ Ahead' = [x \in Orders |-> IF x = m THEN {} ELSE Ahead[x] \ {m}]
      ELSE UNCHANGED <<Resting, Ahead>>
  <2>1. level' = level
    BY <1>1 DEF MatchEffect
  <2>2. CASE fill = order[m].quantity
    <3>1. LeavesQueue(m)
      BY <1>1, <2>2, MatchQueues DEF BookkeepingInv, CoreInv
    <3> QED
      BY <2>1, <2>2, <3>1, OneLeaves
  <2>3. CASE fill # order[m].quantity
    <3>1. \A k \in Orders : queue'[k] = queue[k]
      BY <1>1, <2>3, MatchQueues DEF BookkeepingInv, CoreInv
    <3> QED
      BY <2>1, <2>3, <3>1, NobodyMoves
  <2> QED
    BY <2>2, <2>3
<1>8. /\ \A x \in Orders : Incoming(x) <=> x = o
      /\ \A x \in Orders : Incoming(x)' <=> x = o
  BY <1>1, <1>2 DEF MatchEffect, Incoming
<1>9. /\ Open[o] = call.remaining /\ Open[m] = order[m].quantity
      /\ Open = [x \in Orders |-> Open[x]]
  BY <1>3, <1>4, <1>8 DEF Open
<1>10. /\ Open'[o] = call.remaining - fill
       /\ Open'[m] = order[m].quantity - fill
       /\ \A x \in Orders : x # o /\ x # m => Open'[x] = Open[x]
       /\ Open' = [x \in Orders |-> Open'[x]]
  <2>1. /\ call'.remaining = call.remaining - fill
        /\ \A x \in Orders : x # m => order'[x] = order[x]
        /\ fill # order[m].quantity => order'[m].quantity = order[m].quantity - fill
    BY <1>1 DEF MatchEffect
  <2>2. Open'[o] = call.remaining - fill
    BY <1>8, <2>1 DEF Open
  <2>3. Open'[m] = order[m].quantity - fill
    <3>1. Open'[m] = IF m \in Resting' THEN order'[m].quantity ELSE 0
      BY <1>3, <1>8 DEF Open
    <3> QED
      BY <1>4, <1>7, <2>1, <3>1
  <2>4. ASSUME NEW x \in Orders, x # o, x # m PROVE Open'[x] = Open[x]
    <3>1. Open'[x] = IF x \in Resting' THEN order'[x].quantity ELSE 0
      BY <1>8, <2>4 DEF Open
    <3>2. Open[x] = IF x \in Resting THEN order[x].quantity ELSE 0
      BY <1>8, <2>4 DEF Open
    <3>3. x \in Resting' <=> x \in Resting
      BY <1>7, <2>4
    <3> QED
      BY <2>1, <2>4, <3>1, <3>2, <3>3
  <2>5. Open' = [x \in Orders |-> Open'[x]]
    BY DEF Open
  <2> QED
    BY <2>2, <2>3, <2>4, <2>5
<1>11. fill = IF Open[m] <= Open[o] THEN Open[m] ELSE Open[o]
  BY <1>1, <1>2, <1>3, <1>4, <1>9 DEF MatchEffect
<1>12. Open' = [Open EXCEPT ![m] = Open[m] - fill, ![o] = Open[o] - fill]
  BY <1>3, <1>9, <1>10
<1>13. Ahead[m] = {}
  <2>1. Ahead[m] = {x \in Orders : Before(queue[l], x, m)}
    BY <1>3, QueuesTell, OrdersAssumption DEF QueuesTellAll, InBook
  <2>2. \A i \in DOMAIN queue[l] : queue[l][i] = m => i = 1
    BY <1>1 DEF MatchEffect, BookkeepingInv, CoreInv, PlacesInv, PlaceInv, Distinct
  <2>3. \A i \in DOMAIN queue[l] : ~(i < 1)
    BY QueueMembers DEF BookkeepingInv, CoreInv, PlacesInv
  <2> QED
    BY <2>1, <2>2, <2>3 DEF Before
<1>14. /\ Request[m].side # Request[o].side
       /\ Request[o].type = "Limit" =>
             IF Request[o].side = "Buy" THEN Request[o].price >= Request[m].price
             ELSE Request[o].price <= Request[m].price
  <2>1. /\ order[m].side = Opposite(order[o].side) /\ order[l].price = order[m].price
        /\ Crosses(o, l)
    BY <1>1, <1>2 DEF MatchEffect, Matchable
  <2> QED
    BY <1>3, <2>1, RequestOf DEF Crosses, NoWorse, PriceOf, Opposite, Order, Sides, Types
<1>15. ASSUME NEW x \in Resting, Request[x].side # Request[o].side
       PROVE  ~(IF Request[x].side = "Buy" THEN Request[x].price > Request[m].price
                ELSE Request[x].price < Request[m].price)
  <2>1. /\ x \in Orders /\ Born(x) /\ order[x] \in Order
        /\ level[x] \in tree[order[x].side] /\ order[level[x]].price = order[x].price
    BY RestingLevel
  <2>2. /\ l \in GetBest(Opposite(order[o].side)) /\ order[l].price = order[m].price
        /\ order[m].side = Opposite(order[o].side)
    BY <1>1, <1>2 DEF MatchEffect, Matchable
  <2>3. order[x].side = Opposite(order[o].side)
    BY <1>3, <1>15, <2>1, RequestOf DEF Opposite, Order, Sides
  <2>4. NoWorse(order[x].side, order[m].price, order[x].price)
    BY <2>1, <2>2, <2>3 DEF GetBest, PriceOf
  <2>5. order[m].price \in Nat /\ order[x].price \in Nat /\ order[x].side \in Sides
    BY <1>3, <2>1, PricesAssumption DEF Order
  <2> QED
    BY <1>3, <2>1, <2>4, <2>5, RequestOf DEF NoWorse, Sides
<1>16. m \in Book!Candidates /\ \A x \in Book!Candidates : ~Book!Better(x, m)
  BY <1>4, <1>5, <1>14, <1>15 DEF Book!Candidates, Book!Acceptable, Book!Better
<1>17. Book!HasPriority(m)
  BY <1>13, <1>16 DEF Book!HasPriority
<1>18. Open[Trading] > 0
  BY <1>1, <1>3, <1>5, <1>9 DEF MatchEffect
<1>19. IF fill = Open[m] THEN Book!Leave(m) ELSE UNCHANGED <<Resting, Ahead>>
  BY <1>7, <1>9 DEF Book!Leave
<1> QED
  BY <1>5, <1>6, <1>11, <1>12, <1>16, <1>17, <1>18, <1>19 DEF Book!Trade

\* An order that is placed takes the book for itself.
LEMMA AddIsPlace ==
    ASSUME BookkeepingInv, BookkeepingInv', ~FilledCanceled, ~FilledCanceled', [Next]_vars,
           NEW o \in Orders, NEW id \in Orders, NEW side \in Sides, NEW type \in Types,
           NEW price \in Prices, NEW q \in Quantities, NEW c \in Callers \cup {None},
           BeginAdd(o, id, side, type, price, q, c)
    PROVE  Book!Next
<1> DEFINE r == [side |-> side, type |-> type, price |-> price]
<1>1. /\ call.pc = "idle" /\ call'.pc = "match" /\ call'.order = o /\ call'.remaining = q
      /\ ~Born(o)
      /\ order'[o].side = side /\ order'[o].type = type /\ order'[o].price = price
      /\ order'[o].status = "New"
      /\ \A x \in Orders : x # o => order'[x] = order[x]
      /\ level' = level /\ queue' = queue
  BY DEF BeginAdd, MutexFree, book, BookkeepingInv, CoreInv, PlacesInv, TypeInv, TypeOK
<1>2. Trading = None /\ Trading' = o
  BY <1>1 DEF Trading
<1>3. Request[o] = None /\ Request' = [Request EXCEPT ![o] = r]
  BY <1>1 DEF Request, Born
<1>4. UNCHANGED <<Resting, Ahead>>
  BY <1>1, NobodyMoves
<1>5. Open' = [Open EXCEPT ![o] = q]
  <2>1. \A x \in Orders : ~Incoming(x) /\ (Incoming(x)' <=> x = o)
    BY <1>1 DEF Incoming
  <2> QED
    BY <1>1, <1>4, <2>1 DEF Open
<1>6. r \in Book!Requests
  BY DEF Book!Requests, Sides, Types
<1>7. Book!Place(o, r, q)
  BY <1>2, <1>3, <1>4, <1>5 DEF Book!Place
<1> QED
  BY <1>6, <1>7 DEF Book!Next

\* An order that has nobody to trade with has no candidate in the book.
LEMMA NoCandidates ==
    ASSUME BookkeepingInv, ~FilledCanceled, call.pc = "match", Matchable = {},
           call.remaining > 0
    PROVE  Book!Candidates = {}
<1>1. PICK o \in Orders : o = call.order /\ Born(o) /\ order[o] \in Order /\ Trading = o
  BY BornOrder DEF BookkeepingInv, CoreInv, PlacesInv, TypeInv, WellFormed, Trading
<1>2. ASSUME NEW x \in Resting, Request[x].side # Request[o].side
      PROVE  /\ Request[o].type = "Limit"
             /\ ~(IF Request[o].side = "Buy" THEN Request[o].price >= Request[x].price
                  ELSE Request[o].price <= Request[x].price)
  <2>1. /\ x \in Orders /\ Born(x) /\ order[x] \in Order
        /\ level[x] \in tree[order[x].side] /\ order[level[x]].price = order[x].price
    BY RestingLevel
  <2>2. order[x].side = Opposite(order[o].side)
    BY <1>1, <1>2, <2>1, RequestOf DEF Opposite, Order, Sides
  <2>3. /\ order[o].type = "Limit"
        /\ IF order[o].side = "Buy" THEN order[o].price < order[x].price
           ELSE order[o].price > order[x].price
    BY <1>1, <2>1, <2>2, NothingToMatch DEF PriceOf, BookkeepingInv, CoreInv, PlacesInv
  <2>4. order[o].price \in Nat /\ order[x].price \in Nat
    BY <1>1, <2>1, PricesAssumption DEF Order
  <2> QED
    BY <1>1, <2>1, <2>3, <2>4, RequestOf
<1> QED
  BY <1>1, <1>2 DEF Book!Candidates, Book!Acceptable

\* What is left of a limit order rests behind the orders of its price.
LEMMA RestIsRest ==
    ASSUME BookkeepingInv, BookkeepingInv', ~FilledCanceled, ~FilledCanceled', [Next]_vars,
           FinishRestingLimit
    PROVE  Book!Rest
<1>1. PICK l \in Orders, o \in Orders, q \in Nat : RestEffect(o, l, q)
  BY RestHasEffect DEF BookkeepingInv, CoreInv, PlacesInv
<1>2. /\ call.pc = "match" /\ call'.pc = "emit" /\ o = call.order /\ q = call.remaining /\ q > 0
      /\ order[o].type = "Limit" /\ level[o] = None /\ Born(o) /\ order[o] \in Order
      /\ \A x \in Orders : x # o => order'[x] = order[x]
      /\ order'[o].quantity = q
  BY <1>1, BornOrder DEF RestEffect, BookkeepingInv, CoreInv, PlacesInv, TypeInv, WellFormed
<1>3. Trading = o /\ Trading' = None /\ o # None
  BY <1>2, OrdersAssumption DEF Trading
<1>4. Request' = Request
  BY <1>2, RequestsStay
<1>5. Resting' = Resting \cup {o} /\ Ahead' = [Ahead EXCEPT ![o] = {x \in Orders : Within(queue[l], x)}]
  <2>1. JoinsQueue(o, l) /\ \A k \in Orders : ~Within(queue[k], o)
    BY <1>1, RestQueues DEF BookkeepingInv, CoreInv
  <2>2. level'[o] = l /\ \A x \in Orders : x # o => level'[x] = level[x]
    BY <1>1 DEF RestEffect
  <2> QED
    BY <2>1, <2>2, OneJoins
<1>6. {x \in Orders : Within(queue[l], x)} =
          {x \in Resting : Request[x].side = Request[o].side /\ Request[x].price = Request[o].price}
  <2>1. ASSUME NEW x \in Orders, Within(queue[l], x)
        PROVE  x \in Resting /\ order[x].side = order[o].side /\ order[x].price = order[o].price
    <3>1. level[x] = l /\ Born(x)
      BY <2>1, OnlyInItsQueue DEF BookkeepingInv, CoreInv
    <3>2. x \in Resting
      BY <2>1, <3>1, RestingIsQueued, OrdersAssumption DEF InBook
    <3>3. order[l].price = order[x].price /\ order[l].side = order[x].side
      BY <3>1, OrdersAssumption DEF BookkeepingInv, CoreInv, PlacesInv, PlaceInv, BookInv
    <3>4. order[l].price = order[o].price /\ order[l].side = order[o].side
      BY <1>1, <1>2
         DEF RestEffect, BookkeepingInv, CoreInv, PlacesInv, BookInv
    <3> QED
      BY <3>2, <3>3, <3>4
  <2>2. ASSUME NEW x \in Resting, order[x].side = order[o].side, order[x].price = order[o].price
        PROVE  Within(queue[l], x)
    <3>1. /\ level[x] \in tree[order[o].side] /\ order[level[x]].price = order[o].price
          /\ Within(queue[level[x]], x)
      BY <2>2, RestingLevel
    <3>2. level[x] \in Search(order[o].side, order[o].price)
      BY <3>1 DEF Search, PriceOf
    <3>3. l \in Search(order[o].side, order[o].price)
      BY <1>1, <3>2 DEF RestEffect, Insert
    <3>4. l \in tree[order[o].side] /\ order[l].price = order[o].price /\ order[o].side \in Sides
      BY <1>2, <3>3 DEF Search, PriceOf, Order
    <3>5. l = level[x]
      BY <3>1, <3>4 DEF BookkeepingInv, ViewInv
    <3> QED
      BY <3>1, <3>5
  <2>3. \A x \in Resting : x \in Orders /\ Born(x)
    BY RestingLevel
  <2>4. \A x \in Orders : Within(queue[l], x) => Born(x)
    BY OnlyInItsQueue DEF BookkeepingInv, CoreInv
  <2> QED
    BY <1>2, <2>1, <2>2, <2>3, <2>4, RequestOf
<1>7. Open' = Open /\ Open[o] = q
  <2>1. \A x \in Orders : (Incoming(x) <=> x = o) /\ ~Incoming(x)'
    BY <1>2 DEF Incoming
  <2> QED
    BY <1>2, <1>5, <2>1 DEF Open
<1>8. Book!Candidates = {}
  BY <1>2, NoCandidates DEF FinishRestingLimit
<1>9. Book!Done /\ Request[o].type = "Limit"
  BY <1>2, <1>3, <1>8, RequestOf DEF Book!Done
<1> QED
  BY <1>2, <1>3, <1>4, <1>5, <1>6, <1>7, <1>9 DEF Book!Rest

\* What is left of a market order is dropped, and a limit order that has
\* traded all it wanted is done.
LEMMA FinishIsDiscard ==
    ASSUME BookkeepingInv, BookkeepingInv', ~FilledCanceled, ~FilledCanceled', [Next]_vars,
           FinishMarket \/ FinishFilledLimit
    PROVE  Book!Discard
<1>1. PICK o \in Orders : o = call.order
  BY DEF FinishMarket, FinishFilledLimit, BookkeepingInv, CoreInv, PlacesInv, TypeInv, WellFormed
<1>2. /\ call.pc = "match" /\ level[o] = None /\ Born(o) /\ order[o] \in Order
      /\ call.remaining \in Nat
      /\ order[o].type = "Market" \/ call.remaining = 0
      /\ Matchable = {} \/ call.remaining = 0
      /\ level' = level /\ queue' = queue
  BY <1>1, BornOrder
     DEF FinishMarket, FinishFilledLimit, book, BookkeepingInv, CoreInv, PlacesInv, PlaceInv,
         TypeInv, WellFormed, TypeOK, CallType
<1>3. call'.pc = "emit"
  BY DEF FinishMarket, FinishFilledLimit, BookkeepingInv, CoreInv, PlacesInv, TypeInv, TypeOK, CallType
<1>4. \A x \in Orders : x # o => order'[x] = order[x]
  BY <1>1 DEF FinishMarket, FinishFilledLimit, Amended, BookkeepingInv, CoreInv, PlacesInv,
              TypeInv, TypeOK
<1>5. Trading = o /\ Trading' = None /\ o # None
  BY <1>1, <1>2, <1>3, OrdersAssumption DEF Trading
<1>6. Request' = Request
  BY <1>2, <1>4, RequestsStay
<1>7. UNCHANGED <<Resting, Ahead>>
  BY <1>2, NobodyMoves
<1>8. o \notin Resting
  BY <1>2, RestingIsQueued DEF InBook
<1>9. Open' = [Open EXCEPT ![o] = 0] /\ Open[o] = call.remaining
  <2>1. \A x \in Orders : (Incoming(x) <=> x = o) /\ ~Incoming(x)'
    BY <1>1, <1>2, <1>3 DEF Incoming
  <2> QED
    BY <1>4, <1>7, <1>8, <2>1 DEF Open
<1>10. call.remaining = 0 \/ Book!Candidates = {}
  BY <1>2, NoCandidates
<1>11. Book!Done /\ (Request[o].type = "Market" \/ Open[o] = 0)
  BY <1>2, <1>5, <1>9, <1>10, RequestOf DEF Book!Done
<1> QED
  BY <1>5, <1>6, <1>7, <1>9, <1>11 DEF Book!Discard

LEMMA CancelIsCancel ==
    ASSUME BookkeepingInv, BookkeepingInv', ~FilledCanceled, ~FilledCanceled', [Next]_vars,
           NEW id \in Orders, NEW c \in Callers \cup {None}, BeginCancel(id, c)
    PROVE  Book!Next
<1>1. PICK l \in Orders, o \in Orders : CancelEffect(id, o, l)
  BY CancelHasEffect DEF BookkeepingInv, CoreInv, PlacesInv
<1>2. /\ call.pc = "idle" /\ call'.pc = "emit" /\ level[o] = l /\ level' = level /\ Born(o)
      /\ \A x \in Orders : x # o => order'[x] = order[x]
  BY <1>1 DEF CancelEffect
<1>3. Trading = None /\ Trading' = None
  BY <1>2 DEF Trading
<1>4. Request' = Request
  BY <1>2, RequestsStay
<1>5. o \in Resting
  <2>1. Within(queue[l], o)
    BY <1>1, CancelInBook DEF BookkeepingInv
  <2> QED
    BY <1>2, <2>1, RestingIsQueued, OrdersAssumption DEF InBook
<1>6. LeavesQueue(o)
  BY <1>1, CancelQueues DEF BookkeepingInv, CoreInv
<1>7. /\ Resting' = Resting \ {o}
      /\ Ahead' = [x \in Orders |-> IF x = o THEN {} ELSE Ahead[x] \ {o}]
  BY <1>2, <1>6, OneLeaves
<1>8. Open' = [Open EXCEPT ![o] = 0]
  <2>1. \A x \in Orders : ~Incoming(x) /\ ~Incoming(x)'
    BY <1>2 DEF Incoming
  <2> QED
    BY <1>2, <1>7, <2>1 DEF Open
<1>9. Book!Cancel(o)
  BY <1>3, <1>4, <1>5, <1>7, <1>8 DEF Book!Cancel, Book!Leave
<1> QED
  BY <1>9 DEF Book!Next

LEMMA BookStutters ==
    ASSUME BookkeepingInv, BookkeepingInv', ~FilledCanceled, ~FilledCanceled',
           UNCHANGED <<order, tree, queue, level>>,
           call' = call \/ (call.pc = "emit" /\ call'.pc # "match")
    PROVE  UNCHANGED Book!vars
<1>1. UNCHANGED <<Resting, Ahead>>
  BY NobodyMoves
<1>2. Trading' = Trading /\ Request' = Request
  BY DEF Trading, Request, Born
<1>3. \A x \in Orders : Incoming(x)' <=> Incoming(x)
  BY DEF Incoming
<1>4. \A x \in Orders : Incoming(x) => call'.remaining = call.remaining
  BY DEF Incoming
<1>5. Open' = Open
  BY <1>1, <1>3, <1>4 DEF Open
<1> QED
  BY <1>1, <1>2, <1>5 DEF Book!vars

LEMMA StepImplements ==
    ASSUME BookkeepingInv, BookkeepingInv', [Next]_vars
    PROVE  [FilledCanceled \/ FilledCanceled' \/ Book!Next]_(Book!vars)
<1> SUFFICES ASSUME ~FilledCanceled, ~FilledCanceled'
             PROVE  Book!Next \/ UNCHANGED Book!vars
  OBVIOUS
<1>1. Match => Book!Next
  BY MatchIsTrade DEF Book!Next
<1>2. FinishMarket \/ FinishFilledLimit => Book!Next
  BY FinishIsDiscard DEF Book!Next
<1>3. FinishRestingLimit => Book!Next
  BY RestIsRest DEF Book!Next
<1> QED
  BY <1>1, <1>2, <1>3, CancelIsCancel, AddIsPlace, BookStutters, StepKinds
     DEF BookkeepingInv, CoreInv, PlacesInv

\* The engine is a book with price-time priority, as long as no filled order
\* is canceled: every match is with the order that has priority, what is left
\* rests behind its price, and no other step moves anybody in the queue.
THEOREM EngineImplementsBook == Spec => ImplementsBook
<1>1. BookkeepingInv /\ BookkeepingInv' /\ [Next]_vars =>
          [FilledCanceled \/ FilledCanceled' \/ Book!Next]_(Book!vars)
  BY StepImplements
<1> QED
  BY <1>1, InitImplements, BookkeepingHolds, PTL DEF Spec, ImplementsBook

-----------------------------------------------------------------------------
(* What the outside sees of the book.                                       *)

\* f adds up what the orders of level l still offer
SumsUp(f, l) ==
    /\ f \in [0 .. Len(queue[l]) -> Int]
    /\ f[0] = 0
    /\ \A k \in 1 .. Len(queue[l]) : f[k] = f[k - 1] + order[queue[l][k]].quantity

\* Total is defined by recursion; all that is used of it is this.
TotalIsSum == \A l \in Orders : \A f : SumsUp(f, l) => Total(l) = f[Len(queue[l])]

LEMMA TotalSums == TypeOK => TotalIsSum
<1> SUFFICES ASSUME TypeOK, NEW l \in Orders, NEW f, SumsUp(f, l)
             PROVE  Total(l) = f[Len(queue[l])]
  BY DEF TotalIsSum
<1> DEFINE n == Len(queue[l])
           a(k) == order[queue[l][k]].quantity
           upTo == CHOOSE g : g = [k \in 0 .. n |-> IF k = 0 THEN 0 ELSE g[k - 1] + a(k)]
<1>1. n \in Nat
  BY LenProperties DEF TypeOK
<1>2. Total(l) = upTo[n]
  BY DEF Total
<1>3. f \in [0 .. n -> Int] /\ f[0] = 0 /\ \A k \in 1 .. n : f[k] = f[k - 1] + a(k)
  BY DEF SumsUp
<1> HIDE DEF n, a
<1>4. f = [k \in 0 .. n |-> IF k = 0 THEN 0 ELSE f[k - 1] + a(k)]
  <2>1. \A k \in 0 .. n : f[k] = IF k = 0 THEN 0 ELSE f[k - 1] + a(k)
    BY <1>1, <1>3
  <2> QED
    BY <1>3, <2>1
<1>5. upTo = [k \in 0 .. n |-> IF k = 0 THEN 0 ELSE upTo[k - 1] + a(k)]
  BY <1>4
<1> HIDE DEF upTo
<1>6. upTo[0] = 0 /\ \A k \in 1 .. n : upTo[k] = upTo[k - 1] + a(k)
  BY <1>1, <1>5
<1> DEFINE T == {k \in 0 .. n : upTo[k] = f[k]}
<1>7. 0 \in T /\ \A k \in 1 .. n : k - 1 \in T => k \in T
  BY <1>1, <1>3, <1>6
<1>8. 0 .. n \subseteq T
  <2> HIDE DEF T
  <2> QED
    BY <1>1, <1>7, UpTo
<1>9. upTo[n] = f[n]
  BY <1>1, <1>8
<1> QED
  BY <1>2, <1>9 DEF n

LEMMA TotalSumsNext == TypeOK' => TotalIsSum'
BY TotalSums, PTL

LEMMA SumExists ==
    ASSUME TypeInv, NEW l \in Orders
    PROVE  \E f : SumsUp(f, l)
<1> DEFINE n == Len(queue[l])
           a(k) == order[queue[l][k]].quantity
           Sums(j) == {f \in [0 .. j -> Int] :
                          f[0] = 0 /\ \A k \in 1 .. j : f[k] = f[k - 1] + a(k)}
           T == {j \in 0 .. n : Sums(j) # {}}
<1>1. n \in Nat /\ \A k \in 1 .. n : a(k) \in Int
  BY QueueMembers, BornOrder DEF TypeInv, Order
<1> HIDE DEF n, a
<1>2. 0 \in T
  <2>1. [k \in 0 .. 0 |-> 0] \in Sums(0)
    OBVIOUS
  <2> QED
    BY <1>1, <2>1
<1>3. ASSUME NEW j \in 1 .. n, j - 1 \in T PROVE j \in T
  <2>1. PICK f \in Sums(j - 1) : TRUE
    BY <1>3
  <2>2. j - 1 \in Nat /\ f \in [0 .. j - 1 -> Int] /\ f[0] = 0 /\ a(j) \in Int
        /\ \A k \in 1 .. j - 1 : f[k] = f[k - 1] + a(k)
    BY <1>1, <2>1
  <2> DEFINE g == [k \in 0 .. j |-> IF k = j THEN f[j - 1] + a(j) ELSE f[k]]
  <2>3. g \in [0 .. j -> Int]
    BY <1>1, <2>2
  <2>4. g[0] = 0 /\ \A k \in 1 .. j : g[k] = g[k - 1] + a(k)
    BY <1>1, <2>2
  <2> HIDE DEF g
  <2>5. g \in Sums(j)
    BY <2>3, <2>4
  <2>6. j \in 0 .. n
    BY <1>1
  <2> HIDE DEF Sums
  <2> QED
    BY <2>5, <2>6
<1> HIDE DEF T
<1>4. n \in T
  BY <1>1, <1>2, <1>3, UpTo
<1>5. PICK f \in Sums(n) : TRUE
  BY <1>4 DEF T
<1>6. SumsUp(f, l)
  BY <1>5 DEF SumsUp, n, a
<1> QED
  BY <1>6

\* A level with other orders in it, or other quantities.
LEMMA SameTotal ==
    ASSUME TypeInv, TypeOK', NEW l \in Orders, queue'[l] = queue[l],
           \A i \in DOMAIN queue[l] : order'[queue[l][i]].quantity = order[queue[l][i]].quantity
    PROVE  Total(l)' = Total(l)
<1>1. PICK f : SumsUp(f, l)
  BY SumExists
<1>2. DOMAIN queue[l] = 1 .. Len(queue[l])
  BY QueueMembers
<1>3. /\ f \in [0 .. Len(queue'[l]) -> Int] /\ f[0] = 0
      /\ \A k \in 1 .. Len(queue'[l]) : f[k] = f[k - 1] + order'[queue'[l][k]].quantity
  BY <1>1, <1>2 DEF SumsUp
<1>4. Total(l)' = f[Len(queue'[l])]
  BY <1>3, TotalSumsNext DEF TotalIsSum, SumsUp
<1>5. Total(l) = f[Len(queue[l])]
  BY <1>1, TotalSums DEF TotalIsSum, TypeInv
<1> QED
  BY <1>4, <1>5

\* ... with one more order at its end,
LEMMA JoinedTotal ==
    ASSUME TypeInv, TypeOK', NEW l \in Orders, NEW o \in Orders, NEW q \in Nat,
           queue'[l] = Append(queue[l], o), order'[o].quantity = q,
           \A i \in DOMAIN queue[l] : order'[queue[l][i]].quantity = order[queue[l][i]].quantity
    PROVE  Total(l)' = Total(l) + q
<1>1. PICK f : SumsUp(f, l)
  BY SumExists
<1>2. PICK n \in Nat : n = Len(queue[l])
  BY QueueMembers
<1>3. DOMAIN queue[l] = 1 .. n
  BY <1>2, QueueMembers
<1>4. /\ Len(queue'[l]) = n + 1 /\ queue'[l][n + 1] = o
      /\ \A k \in 1 .. n : queue'[l][k] = queue[l][k]
  <2> DEFINE s == queue[l]
             t == Append(s, o)
  <2>1. s \in Seq(Orders) /\ queue'[l] = t /\ n = Len(s)
    BY <1>2 DEF TypeInv, TypeOK
  <2> HIDE DEF s
  <2>2. Len(t) = n + 1 /\ t[n + 1] = o /\ \A k \in 1 .. n : t[k] = s[k]
    BY <2>1, AppendProperties
  <2> QED
    BY <2>1, <2>2 DEF s
<1>5. PICK g : g = [k \in 0 .. n + 1 |-> IF k = n + 1 THEN f[n] + q ELSE f[k]]
  OBVIOUS
<1>6. /\ f \in [0 .. n -> Int] /\ f[0] = 0
      /\ \A k \in 1 .. n : f[k] = f[k - 1] + order[queue[l][k]].quantity
  BY <1>1, <1>2 DEF SumsUp
<1>7. /\ g \in [0 .. n + 1 -> Int] /\ g[0] = 0 /\ g[n + 1] = f[n] + q
      /\ \A k \in 0 .. n : g[k] = f[k]
  BY <1>5, <1>6
<1>8. ASSUME NEW k \in 1 .. n + 1 PROVE g[k] = g[k - 1] + order'[queue'[l][k]].quantity
  <2>1. CASE k = n + 1
    <3>1. k - 1 = n /\ n \in 0 .. n
      BY <1>2, <2>1
    <3> QED
      BY <1>4, <1>7, <2>1, <3>1
  <2>2. CASE k # n + 1
    <3>1. k \in 1 .. n /\ k \in 0 .. n /\ k - 1 \in 0 .. n
      BY <2>2
    <3>2. order'[queue'[l][k]].quantity = order[queue[l][k]].quantity
      BY <1>3, <1>4, <3>1
    <3> QED
      BY <1>6, <1>7, <3>1, <3>2
  <2> QED
    BY <2>1, <2>2
<1>9. Total(l)' = g[n + 1]
  <2>1. SumsUp(g, l)'
    BY <1>4, <1>7, <1>8 DEF SumsUp
  <2> QED
    BY <1>4, <2>1, TotalSumsNext DEF TotalIsSum
<1>10. Total(l) = f[n]
  BY <1>1, <1>2, TotalSums DEF TotalIsSum, TypeInv
<1> QED
  BY <1>7, <1>9, <1>10

\* ... without the order at place p,
LEMMA LeftTotal ==
    ASSUME TypeInv, TypeOK', NEW l \in Orders, NEW p \in DOMAIN queue[l],
           Len(queue'[l]) = Len(queue[l]) - 1,
           \A k \in 1 .. Len(queue[l]) - 1 :
               queue'[l][k] = IF k < p THEN queue[l][k] ELSE queue[l][k + 1],
           \A i \in DOMAIN queue[l] : i # p =>
               order'[queue[l][i]].quantity = order[queue[l][i]].quantity
    PROVE  Total(l)' = Total(l) - order[queue[l][p]].quantity
<1>1. PICK f : SumsUp(f, l)
  BY SumExists
<1>2. PICK n \in Nat : n = Len(queue[l])
  BY QueueMembers
<1>3. DOMAIN queue[l] = 1 .. n /\ p \in 1 .. n
  BY <1>2, QueueMembers
<1>4. PICK a \in Nat : a = order[queue[l][p]].quantity
  BY QueueMembers, BornOrder DEF TypeInv, Order
<1>5. /\ f \in [0 .. n -> Int] /\ f[0] = 0
      /\ \A k \in 1 .. n : f[k] = f[k - 1] + order[queue[l][k]].quantity
  BY <1>1, <1>2 DEF SumsUp
<1>6. PICK g : g = [k \in 0 .. n - 1 |-> IF k < p THEN f[k] ELSE f[k + 1] - a]
  OBVIOUS
<1>7. \A k \in 0 .. n - 1 : k \in 0 .. n /\ k + 1 \in 0 .. n
  OBVIOUS
<1>8. /\ g \in [0 .. n - 1 -> Int] /\ g[0] = 0
      /\ \A k \in 0 .. n - 1 : g[k] = IF k < p THEN f[k] ELSE f[k + 1] - a
  BY <1>3, <1>5, <1>6, <1>7
<1>9. f[p] = f[p - 1] + a
  BY <1>3, <1>4, <1>5
<1>10. ASSUME NEW k \in 1 .. n - 1 PROVE g[k] = g[k - 1] + order'[queue'[l][k]].quantity
  <2>1. k \in 1 .. n /\ k + 1 \in 1 .. n /\ k \in 0 .. n - 1 /\ k - 1 \in 0 .. n - 1
    OBVIOUS
  <2>2. CASE k < p
    <3>0. queue'[l][k] = queue[l][k] /\ k # p
      BY <1>2, <1>3, <2>2
    <3>1. order'[queue'[l][k]].quantity = order[queue[l][k]].quantity
      BY <1>3, <2>1, <3>0
    <3> QED
      BY <1>3, <1>5, <1>8, <2>1, <2>2, <3>1
  <2>3. CASE ~(k < p)
    <3>1. k + 1 # p /\ k \in 1 .. Len(queue[l]) - 1
      BY <1>2, <1>3, <2>3
    <3>2. order'[queue'[l][k]].quantity = order[queue[l][k + 1]].quantity
      BY <1>3, <2>1, <2>3, <3>1
    <3>3. f[k + 1] = f[k] + order[queue[l][k + 1]].quantity
      <4>1. (k + 1) - 1 = k
        OBVIOUS
      <4> QED
        BY <1>5, <2>1, <4>1
    <3>4. f[k] \in Int /\ f[k + 1] \in Int /\ f[k - 1] \in Int
      BY <1>5, <1>7, <2>1
    <3>5. g[k] = f[k + 1] - a
      BY <1>8, <2>1, <2>3
    <3>6. g[k - 1] = f[k] - a
      <4>1. CASE k = p
        <5>1. g[k - 1] = f[k - 1]
          BY <1>8, <2>1, <4>1
        <5> QED
          BY <1>9, <3>4, <4>1, <5>1
      <4>2. CASE k # p
        <5>1. ~(k - 1 < p) /\ (k - 1) + 1 = k
          BY <1>3, <2>3, <4>2
        <5> QED
          BY <1>8, <2>1, <5>1
      <4> QED
        BY <4>1, <4>2
    <3>7. order[queue[l][k + 1]].quantity \in Nat
      BY <1>3, <2>1, QueueMembers, BornOrder DEF TypeInv, Order
    <3> QED
      BY <3>2, <3>3, <3>4, <3>5, <3>6, <3>7
  <2> QED
    BY <2>2, <2>3
<1>11. Len(queue'[l]) = n - 1 /\ n - 1 \in Nat
  BY <1>2, <1>3
<1>12. Total(l)' = g[n - 1]
  BY <1>8, <1>10, <1>11, TotalSumsNext DEF TotalIsSum, SumsUp
<1>13. Total(l) = f[n]
  BY <1>1, <1>2, TotalSums DEF TotalIsSum, TypeInv
<1>14. g[n - 1] = f[n] - a
  <2>1. CASE n = p
    <3>1. g[n - 1] = f[n - 1] /\ f[n - 1] \in Int
      BY <1>5, <1>7, <1>8, <1>11, <2>1
    <3> QED
      BY <1>9, <2>1, <3>1
  <2>2. CASE n # p
    <3>1. ~(n - 1 < p) /\ n - 1 \in 0 .. n - 1 /\ (n - 1) + 1 = n
      BY <1>3, <1>11, <2>2
    <3> QED
      BY <1>8, <3>1
  <2> QED
    BY <2>1, <2>2
<1> QED
  BY <1>4, <1>12, <1>13, <1>14

\* ... and with a part of its first order traded.
LEMMA TradedTotal ==
    ASSUME TypeInv, TypeOK', NEW l \in Orders, NEW fill \in Nat, 1 \in DOMAIN queue[l],
           queue'[l] = queue[l],
           order'[queue[l][1]].quantity = order[queue[l][1]].quantity - fill,
           \A i \in DOMAIN queue[l] : i # 1 =>
               order'[queue[l][i]].quantity = order[queue[l][i]].quantity
    PROVE  Total(l)' = Total(l) - fill
<1>1. PICK f : SumsUp(f, l)
  BY SumExists
<1>2. PICK n \in Nat : n = Len(queue[l])
  BY QueueMembers
<1>3. DOMAIN queue[l] = 1 .. n /\ 1 \in 1 .. n /\ n # 0
  BY <1>2, QueueMembers
<1>4. PICK a \in Nat : a = order[queue[l][1]].quantity
  BY QueueMembers, BornOrder DEF TypeInv, Order
<1>5. /\ f \in [0 .. n -> Int] /\ f[0] = 0
      /\ \A k \in 1 .. n : f[k] = f[k - 1] + order[queue[l][k]].quantity
  BY <1>1, <1>2 DEF SumsUp
<1>6. PICK g : g = [k \in 0 .. n |-> IF k = 0 THEN 0 ELSE f[k] - fill]
  OBVIOUS
<1>7. /\ g \in [0 .. n -> Int] /\ g[0] = 0
      /\ \A k \in 1 .. n : g[k] = f[k] - fill
  BY <1>5, <1>6
<1>8. ASSUME NEW k \in 1 .. n PROVE g[k] = g[k - 1] + order'[queue'[l][k]].quantity
  <2>1. CASE k = 1
    <3>1. f[1] = a /\ k - 1 = 0
      <4>1. k - 1 = 0 /\ f[1] = f[k - 1] + a
        BY <1>4, <1>5, <2>1
      <4> QED
        BY <1>4, <1>5, <4>1
    <3>2. order'[queue'[l][1]].quantity = a - fill
      BY <1>4
    <3> QED
      BY <1>3, <1>7, <2>1, <3>1, <3>2
  <2>2. CASE k # 1
    <3>1. k - 1 \in 1 .. n
      BY <2>2
    <3>2. f[k] = f[k - 1] + order[queue[l][k]].quantity
      BY <1>5
    <3>3. order'[queue'[l][k]].quantity = order[queue[l][k]].quantity
      BY <1>3, <2>2
    <3>4. order[queue[l][k]].quantity \in Nat
      BY <1>3, QueueMembers, BornOrder DEF TypeInv, Order
    <3>5. f[k - 1] \in Int
      BY <1>5, <3>1
    <3> QED
      BY <1>7, <3>1, <3>2, <3>3, <3>4, <3>5
  <2> QED
    BY <2>1, <2>2
<1>9. Total(l)' = g[n]
  BY <1>2, <1>7, <1>8, TotalSumsNext DEF TotalIsSum, SumsUp
<1>10. Total(l) = f[n]
  BY <1>1, <1>2, TotalSums DEF TotalIsSum, TypeInv
<1> QED
  BY <1>3, <1>7, <1>9, <1>10

LEMMA WithoutClosesGap ==
    ASSUME NEW S, NEW q \in Seq(S), NEW o, Within(q, o)
    PROVE  \E p \in DOMAIN q :
              /\ q[p] = o
              /\ Len(Without(q, o)) = Len(q) - 1
              /\ \A k \in 1 .. Len(q) - 1 :
                    Without(q, o)[k] = IF k < p THEN q[k] ELSE q[k + 1]
<1> DEFINE w == Without(q, o)
<1>1. \E n \in DOMAIN q : q[n] = o
  BY DEF Within
<1>2. PICK p \in DOMAIN q :
            /\ q[p] = o
            /\ w \in Seq(S)
            /\ DOMAIN w = 1 .. Len(q) - 1
            /\ \A k \in 1 .. Len(q) - 1 : w[k] = IF k < p THEN q[k] ELSE q[k + 1]
  BY <1>1, WithoutPlaces
<1> HIDE DEF w
<1>3. Len(q) \in Nat /\ DOMAIN q = 1 .. Len(q) /\ Len(w) \in Nat /\ DOMAIN w = 1 .. Len(w)
  BY <1>2, LenProperties
<1>4. Len(w) = Len(q) - 1
  <2>1. PICK n \in Nat : n = Len(q) /\ p \in 1 .. n
    BY <1>2, <1>3
  <2>2. PICK a \in Nat : a = Len(w)
    BY <1>3
  <2>3. 1 .. a = 1 .. n - 1
    BY <1>2, <1>3, <2>1, <2>2
  <2>4. n - 1 \in Nat
    BY <2>1
  <2>5. PICK b \in Nat : b = n - 1
    BY <2>4
  <2>6. \A i \in Nat : 1 <= i => (i <= a <=> i <= b)
    BY <2>3, <2>5
  <2>7. a = b
    <3>1. ~(a < b)
      BY <2>6
    <3>2. ~(b < a)
      BY <2>6
    <3> QED
      BY <3>1, <3>2
  <2> QED
    BY <2>1, <2>2, <2>5, <2>7
<1> QED
  BY <1>2, <1>4 DEF w

\* PriceLevel.Volume is the sum of what the orders of the level offer, as long
\* as no filled order was canceled: that takes a quantity out a second time.
VolumeInv == FilledCanceled \/ \A l \in Orders : volume[l] = Total(l)

LEMMA VolumeStep == BookkeepingInv /\ VolumeInv /\ BookkeepingInv' /\ [Next]_vars => VolumeInv'
<1> SUFFICES ASSUME BookkeepingInv, VolumeInv, BookkeepingInv', [Next]_vars, ~FilledCanceled',
                    NEW k \in Orders
             PROVE  volume'[k] = Total(k)'
  BY DEF VolumeInv
<1>1. /\ volume[k] = Total(k) /\ volume \in [Orders -> Int]
      /\ TypeInv /\ TypeOK'
  BY StaysFilledCanceled DEF VolumeInv, BookkeepingInv, CoreInv, PlacesInv, TypeInv, TypeOK
<1>2. \A i \in DOMAIN queue[k] : queue[k][i] \in Orders /\ level[queue[k][i]] = k
  BY QueueMembers DEF BookkeepingInv, CoreInv, PlacesInv, PlaceInv
<1>3. Distinct(queue[k])
  BY DEF BookkeepingInv, CoreInv, PlacesInv, PlaceInv
<1>4. CASE Match
  <2>1. PICK l \in Orders, m \in Orders, fill \in Nat : MatchEffect(l, m, fill)
    BY <1>4, MatchHasEffect DEF BookkeepingInv, CoreInv, PlacesInv
  <2>2. /\ volume' = [volume EXCEPT ![l] = @ - fill] /\ level[m] = l
        /\ \A x \in Orders : x # m => order'[x] = order[x]
        /\ \A j \in Orders : j # l => queue'[j] = queue[j]
        /\ 1 \in DOMAIN queue[l] /\ queue[l][1] = m
    BY <2>1 DEF MatchEffect
  <2>3. CASE k # l
    <3>1. \A i \in DOMAIN queue[k] : order'[queue[k][i]] = order[queue[k][i]]
      BY <1>2, <2>2, <2>3
    <3>2. volume'[k] = volume[k] /\ queue'[k] = queue[k]
      BY <1>1, <2>2, <2>3
    <3> QED
      BY <1>1, <3>1, <3>2, SameTotal
  <2>4. CASE k = l
    <3>1. volume'[k] = Total(k) - fill
      BY <1>1, <2>2, <2>4
    <3>2. \A i \in DOMAIN queue[k] : i # 1 => order'[queue[k][i]] = order[queue[k][i]]
      BY <1>2, <1>3, <2>2, <2>4 DEF Distinct
    <3>3. CASE fill = order[m].quantity
      <4> DEFINE q == queue[k]
      <4>1. queue'[k] = Tail(q) /\ q \in Seq(Orders) /\ q # <<>>
        BY <1>1, <2>1, <2>2, <2>4, <3>3 DEF MatchEffect, TypeInv, TypeOK
      <4> HIDE DEF q
      <4>2. /\ Len(queue'[k]) = Len(q) - 1
            /\ \A j \in 1 .. Len(q) - 1 : queue'[k][j] = q[j + 1]
        BY <4>1, HeadTailProperties
      <4>3. \A j \in 1 .. Len(q) - 1 : queue'[k][j] = IF j < 1 THEN q[j] ELSE q[j + 1]
        BY <4>2
      <4>4. Total(k)' = Total(k) - order[queue[k][1]].quantity
        BY <1>1, <2>2, <2>4, <3>2, <4>2, <4>3, LeftTotal DEF q
      <4> QED
        BY <2>2, <2>4, <3>1, <3>3, <4>4
    <3>4. CASE fill # order[m].quantity
      <4>1. /\ queue'[k] = queue[k]
            /\ order'[queue[k][1]].quantity = order[queue[k][1]].quantity - fill
        BY <2>1, <2>2, <2>4, <3>4 DEF MatchEffect
      <4> QED
        BY <1>1, <2>2, <2>4, <3>1, <3>2, <4>1, TradedTotal
    <3> QED
      BY <3>3, <3>4
  <2> QED
    BY <2>3, <2>4
<1>5. CASE FinishRestingLimit
  <2>1. PICK l \in Orders, o \in Orders, q \in Nat : RestEffect(o, l, q)
    BY <1>5, RestHasEffect DEF BookkeepingInv, CoreInv, PlacesInv
  <2>2. /\ volume' = [volume EXCEPT ![l] = @ + q] /\ level[o] = None
        /\ \A x \in Orders : x # o => order'[x] = order[x]
        /\ queue'[l] = Append(queue[l], o)
        /\ \A j \in Orders : j # l => queue'[j] = queue[j]
        /\ order'[o].quantity = q
    BY <2>1 DEF RestEffect
  <2>3. \A i \in DOMAIN queue[k] : order'[queue[k][i]] = order[queue[k][i]]
    BY <1>2, <2>2, OrdersAssumption
  <2>4. CASE k # l
    <3>1. volume'[k] = volume[k] /\ queue'[k] = queue[k]
      BY <1>1, <2>2, <2>4
    <3> QED
      BY <1>1, <2>3, <3>1, SameTotal
  <2>5. CASE k = l
    <3>1. volume'[k] = Total(k) + q
      BY <1>1, <2>2, <2>5
    <3>2. Total(k)' = Total(k) + q
      BY <1>1, <2>2, <2>3, <2>5, JoinedTotal
    <3> QED
      BY <3>1, <3>2
  <2> QED
    BY <2>4, <2>5
<1>6. ASSUME NEW id \in Orders, NEW c \in Callers \cup {None}, BeginCancel(id, c)
      PROVE  volume'[k] = Total(k)'
  <2>1. PICK l \in Orders, o \in Orders : CancelEffect(id, o, l)
    BY <1>6, CancelHasEffect DEF BookkeepingInv, CoreInv, PlacesInv
  <2>2. /\ volume' = [volume EXCEPT ![l] = @ - order[o].quantity] /\ level[o] = l
        /\ \A x \in Orders : x # o => order'[x] = order[x]
        /\ queue'[l] = Without(queue[l], o)
        /\ \A j \in Orders : j # l => queue'[j] = queue[j]
    BY <2>1 DEF CancelEffect
  <2>3. CASE k # l
    <3>1. \A i \in DOMAIN queue[k] : order'[queue[k][i]] = order[queue[k][i]]
      BY <1>2, <2>2, <2>3
    <3>2. volume'[k] = volume[k] /\ queue'[k] = queue[k]
      BY <1>1, <2>2, <2>3
    <3> QED
      BY <1>1, <3>1, <3>2, SameTotal
  <2>4. CASE k = l
    <3> DEFINE q == queue[k]
    <3>1. Within(q, o) /\ q \in Seq(Orders) /\ queue'[k] = Without(q, o)
      BY <1>1, <2>1, <2>2, <2>4, CancelInBook DEF BookkeepingInv, TypeInv, TypeOK
    <3> HIDE DEF q
    <3>2. PICK p \in DOMAIN q :
              /\ q[p] = o
              /\ Len(Without(q, o)) = Len(q) - 1
              /\ \A j \in 1 .. Len(q) - 1 :
                    Without(q, o)[j] = IF j < p THEN q[j] ELSE q[j + 1]
      BY <3>1, WithoutClosesGap
    <3>3. \A i \in DOMAIN q : i # p => order'[q[i]] = order[q[i]]
      BY <1>2, <1>3, <2>2, <3>2 DEF Distinct, q
    <3>4. Total(k)' = Total(k) - order[o].quantity
      BY <1>1, <3>1, <3>2, <3>3, LeftTotal DEF q
    <3> QED
      BY <1>1, <2>2, <2>4, <3>4
  <2> QED
    BY <2>3, <2>4
<1>7. CASE /\ UNCHANGED <<tree, queue, volume, orderIndex, level>>
           /\ \A x \in Orders : level[x] # None => order'[x] = order[x]
  <2>1. \A i \in DOMAIN queue[k] : order'[queue[k][i]] = order[queue[k][i]]
    BY <1>2, <1>7, OrdersAssumption
  <2> QED
    BY <1>1, <1>7, <2>1, SameTotal
<1> QED
  BY <1>4, <1>5, <1>6, <1>7, OtherSteps DEF BookkeepingInv, CoreInv

\* Without reused OrderIDs every order in the book is filed under its own.
FiledInv == \A o, l \in Orders : InQueue(o, l) => orderIndex[order[o].id] = o

LEMMA FiledStep ==
    ASSUME "reuseID" \notin Environment, BookkeepingInv, ReplaceInv, FiledInv, [Next]_vars
    PROVE  FiledInv'
<1> SUFFICES ASSUME NEW o \in Orders, NEW l \in Orders, Within(queue'[l], o)
             PROVE  orderIndex'[order'[o].id] = o
  BY DEF FiledInv, InQueue, Within
<1>1. Within(queue[l], o) => /\ Born(o) /\ level[o] = l /\ order[o].id = o
                             /\ order'[o].id = o /\ orderIndex[o] = o
  <2>1. Within(queue[l], o) => Born(o) /\ level[o] = l
    BY OnlyInItsQueue DEF BookkeepingInv, CoreInv
  <2>2. Within(queue[l], o) => orderIndex[order[o].id] = o
    BY DEF FiledInv, InQueue, Within
  <2>3. Born(o) => order[o].id = o /\ order'[o].id = order[o].id
    BY StepKeepsTerms DEF KeepsTerms, ReplaceInv, BookkeepingInv, CoreInv, PlacesInv
  <2> QED
    BY <2>1, <2>2, <2>3
<1>2. CASE Match
  <2>1. PICK k \in Orders, m \in Orders, fill \in Nat : MatchEffect(k, m, fill)
    BY <1>2, MatchHasEffect DEF BookkeepingInv, CoreInv, PlacesInv
  <2>2. LeavesQueue(m) \/ \A j \in Orders : queue'[j] = queue[j]
    BY <2>1, MatchQueues DEF BookkeepingInv, CoreInv
  <2>3. Within(queue[l], o)
    BY <2>2 DEF LeavesQueue
  <2> QED
    BY <1>1, <2>1, <2>3 DEF MatchEffect
<1>3. CASE FinishRestingLimit
  <2>1. PICK k \in Orders, x \in Orders, q \in Nat : RestEffect(x, k, q)
    BY <1>3, RestHasEffect DEF BookkeepingInv, CoreInv, PlacesInv
  <2>2. /\ orderIndex' = [orderIndex EXCEPT ![order[x].id] = x]
        /\ Born(x) /\ order[x].id = x /\ order'[x].id = x
    <3>1. orderIndex' = [orderIndex EXCEPT ![order[x].id] = x] /\ Born(x)
      BY <2>1 DEF RestEffect, BookkeepingInv, CoreInv, PlacesInv, TypeInv, WellFormed
    <3> QED
      BY <3>1, StepKeepsTerms DEF KeepsTerms, ReplaceInv, BookkeepingInv, CoreInv, PlacesInv
  <2>3. Within(queue[l], o) \/ o = x
    BY <2>1, RestQueues DEF JoinsQueue, BookkeepingInv, CoreInv
  <2>4. orderIndex'[x] = x /\ \A j \in Orders : j # x => orderIndex'[j] = orderIndex[j]
    BY <2>2 DEF BookkeepingInv, CoreInv, PlacesInv, TypeInv, TypeOK
  <2> QED
    BY <1>1, <2>2, <2>3, <2>4
<1>4. ASSUME NEW id \in Orders, NEW c \in Callers \cup {None}, BeginCancel(id, c)
      PROVE  orderIndex'[order'[o].id] = o
  <2>1. PICK k \in Orders, x \in Orders : CancelEffect(id, x, k)
    BY <1>4, CancelHasEffect DEF BookkeepingInv, CoreInv, PlacesInv
  <2>2. Within(queue[l], o) /\ o # x
    BY <2>1, CancelQueues DEF LeavesQueue, BookkeepingInv, CoreInv
  <2>3. orderIndex' = [orderIndex EXCEPT ![id] = None] /\ x = orderIndex[id]
    BY <2>1 DEF CancelEffect
  <2>4. id # o
    BY <1>1, <2>2, <2>3
  <2>5. orderIndex'[o] = orderIndex[o]
    BY <2>3, <2>4 DEF BookkeepingInv, CoreInv, PlacesInv, TypeInv, TypeOK
  <2> QED
    BY <1>1, <2>2, <2>5
<1>5. CASE UNCHANGED <<tree, queue, volume, orderIndex, level>>
  BY <1>1, <1>5
<1> QED
  BY <1>2, <1>3, <1>4, <1>5, OtherSteps DEF BookkeepingInv, CoreInv

LEMMA InvariantsAgree == BookkeepingInv /\ VolumeInv /\ FiledInv => ViewsAgree
<1> SUFFICES ASSUME BookkeepingInv, VolumeInv, FiledInv, ~FilledCanceled
             PROVE  /\ \A o \in Orders :
                         order[o].status \in {"New", "PartiallyFilled"} /\ level[o] # None =>
                             o \in Resting /\ GetOrder(order[o].id) = o
                    /\ \A s \in Sides : \A row \in GetSnapshot(s) :
                         \E l \in Search(s, row.price) : row.quantity = Total(l)
  BY DEF ViewsAgree
<1>1. ASSUME NEW o \in Orders, order[o].status \in {"New", "PartiallyFilled"}, level[o] # None
      PROVE  o \in Resting /\ GetOrder(order[o].id) = o
  <2>1. InQueue(o, level[o]) /\ level[o] \in Orders
    <3>1. level[o] \in Orders
      BY <1>1 DEF BookkeepingInv, CoreInv, PlacesInv, TypeInv, TypeOK
    <3>2. InQueue(o, level[o]) \/ order[o].status \in {"Filled", "Canceled"}
      BY <1>1 DEF BookkeepingInv, ViewInv
    <3> QED
      BY <1>1, <3>1, <3>2
  <2>2. InBook(o)
    BY <1>1, <2>1 DEF InBook, InQueue, Within
  <2> QED
    BY <2>1, <2>2, RestingIsQueued DEF FiledInv, GetOrder
<1>2. ASSUME NEW s \in Sides, NEW row \in GetSnapshot(s)
      PROVE  \E l \in Search(s, row.price) : row.quantity = Total(l)
  <2>1. PICK l \in tree[s] : row.price = PriceOf(l) /\ row.quantity = volume[l]
    BY <1>2 DEF GetSnapshot
  <2>2. l \in Orders /\ l \in Search(s, row.price)
    BY <2>1 DEF Search, BookkeepingInv, CoreInv, PlacesInv, TypeInv, TypeOK
  <2>3. row.quantity = Total(l)
    BY <2>1, <2>2 DEF VolumeInv
  <2> QED
    BY <2>2, <2>3
<1> QED
  BY <1>1, <1>2

LEMMA InitViews == Init => VolumeInv /\ FiledInv
<1> SUFFICES ASSUME Init PROVE VolumeInv /\ FiledInv
  OBVIOUS
<1>1. TypeOK
  BY InitType DEF TypeInv
<1>2. \A l \in Orders : queue[l] = <<>> /\ volume[l] = 0
  BY DEF Init
<1>3. FiledInv
  BY <1>2 DEF FiledInv, InQueue
<1>4. ASSUME NEW l \in Orders PROVE volume[l] = Total(l)
  <2>1. Len(queue[l]) = 0
    BY <1>2, EmptySeq
  <2>2. PICK f : f = [k \in 0 .. 0 |-> 0]
    OBVIOUS
  <2>3. SumsUp(f, l)
    BY <2>1, <2>2 DEF SumsUp
  <2>4. Total(l) = f[0]
    BY <1>1, <2>1, <2>3, TotalSums DEF TotalIsSum
  <2> QED
    BY <1>2, <2>2, <2>4
<1> QED
  BY <1>3, <1>4 DEF VolumeInv

\* As long as no OrderID is used twice, what the outside sees of the book
\* agrees with it, until a filled order is canceled: open orders can trade and
\* can be canceled, and the volume of a price is the sum of what is on offer.
THEOREM SnapshotsAreTrue ==
    ASSUME "reuseID" \notin Environment
    PROVE  Spec => []ViewsAgree
<1> DEFINE Inv == BookkeepingInv /\ ReplaceInv /\ VolumeInv /\ FiledInv
<1>1. Init => Inv
  <2>1. Init => BookkeepingInv /\ ReplaceInv
    BY InitBookkeeping, InitReplace
  <2> QED
    BY <2>1, InitViews
<1>2. Inv /\ [Next]_vars => Inv'
  <2> SUFFICES ASSUME Inv, [Next]_vars PROVE Inv'
    OBVIOUS
  <2>1. BookkeepingInv'
    BY BookkeepingStep
  <2> QED
    BY <2>1, ReplaceStep, VolumeStep, FiledStep DEF BookkeepingInv, CoreInv
<1>3. Inv => ViewsAgree
  BY InvariantsAgree
<1> HIDE DEF Inv
<1> QED
  BY <1>1, <1>2, <1>3, PTL DEF Spec
=============================================================================
