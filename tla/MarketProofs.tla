----------------------------- MODULE MarketProofs -----------------------------
(***************************************************************************)
(* Theorems about the MarketDataProcessor and the DataManager it uses, for *)
(* every set of symbols, every sequence of updates, any symbols being the  *)
(* ones whose data are too old, and any subscriptions.                     *)
(***************************************************************************)
EXTENDS MarketDataProcessor, SequenceTheorems, FiniteSetTheorems, WellFoundedInduction, TLAPS

\* What the maps hold, and IndexIsExact, which needs nothing else.  NoInfo and
\* NoName index nothing: a list under their name would be nobody's to maintain.
DataTypes ==
    /\ DOMAIN marketData \subseteq Symbols
    /\ \A s \in DOMAIN marketData : marketData[s] \in Symbols \cup {NoInfo, NoName}
    /\ DOMAIN underlyingMap \subseteq Symbols
    /\ \A u \in DOMAIN underlyingMap : underlyingMap[u] \in Seq(Symbols)
    /\ stale \subseteq DOMAIN marketData

DataInv == DataTypes /\ IndexIsExact

-----------------------------------------------------------------------------
(* Maps and lists.                                                          *)

\* a list with one more symbol, if it was not there before
LEMMA AppendKeepsApart ==
    ASSUME NEW S, NEW list \in Seq(S), NEW x \in S, IsInjective(list), x \notin Range(list)
    PROVE  /\ Append(list, x) \in Seq(S) /\ IsInjective(Append(list, x))
           /\ Range(Append(list, x)) = Range(list) \cup {x}
<1> DEFINE long == Append(list, x)
           n == Len(list) + 1
<1>1. /\ long \in Seq(S) /\ Len(long) = n /\ long[n] = x
      /\ \A i \in 1 .. Len(list) : long[i] = list[i]
  BY AppendProperties
<1>2. DOMAIN list = 1 .. Len(list) /\ DOMAIN long = 1 .. Len(long) /\ Len(list) \in Nat
  BY <1>1, LenProperties
<1>3. /\ DOMAIN long = DOMAIN list \cup {n} /\ n \notin DOMAIN list
      /\ \A i \in DOMAIN list : long[i] = list[i]
  BY <1>1, <1>2
<1> HIDE DEF long, n
<1>4. IsInjective(long)
  BY <1>1, <1>3 DEF IsInjective, Range
<1>5. Range(long) = Range(list) \cup {x}
  BY <1>1, <1>3 DEF Range
<1> QED
  BY <1>1, <1>4, <1>5 DEF long

\* a list of one symbol
LEMMA SingletonIsApart ==
    ASSUME NEW S, NEW x \in S
    PROVE  <<x>> \in Seq(S) /\ IsInjective(<<x>>) /\ Range(<<x>>) = {x}
<1>1. <<x>> \in Seq(S) /\ Len(<<x>>) = 1 /\ DOMAIN <<x>> = {1} /\ <<x>>[1] = x
  OBVIOUS
<1> QED
  BY <1>1 DEF IsInjective, Range

\* The last of a list takes the place of one of them.
LEMMA SwapMoves ==
    ASSUME NEW S, NEW list \in Seq(S), NEW i \in DOMAIN list
    PROVE  LET short == Front(ReplaceAt(list, i, Last(list)))
               n == Len(list)
           IN  /\ short \in Seq(S)
               /\ DOMAIN short = 1 .. n - 1 /\ n \in Nat /\ DOMAIN list = 1 .. n /\ n \in DOMAIN list
               /\ \A j \in DOMAIN short : j \in DOMAIN list
               /\ \A j \in DOMAIN short : short[j] = IF j = i THEN list[n] ELSE list[j]
               /\ \A y \in Range(list) : y # list[i] => y \in Range(short)
<1> DEFINE n == Len(list)
           swapped == [list EXCEPT ![i] = list[n]]
           short == SubSeq(swapped, 1, n - 1)
<1>1. Front(ReplaceAt(list, i, Last(list))) = SubSeq(swapped, 1, Len(swapped) - 1)
  BY DEF Front, ReplaceAt, Last
<1>2. n \in Nat /\ DOMAIN list = 1 .. n /\ i \in 1 .. n /\ n \in DOMAIN list /\ n - 1 \in Nat
  BY LenProperties
<1>3. \A j \in 1 .. n : list[j] \in S
  BY ElementOfSeq
<1>4. /\ swapped \in [1 .. n -> S] /\ swapped[i] = list[n]
      /\ \A j \in 1 .. n \ {i} : swapped[j] = list[j]
  BY <1>2, <1>3
<1>5. Len(swapped) = n
  <2>1. swapped \in Seq(S) /\ DOMAIN swapped = 1 .. n
    BY <1>2, <1>4, SeqDef
  <2> HIDE DEF swapped
  <2> QED
    BY <1>2, <2>1, LenProperties
<1> HIDE DEF swapped, n
<1>6. /\ short \in Seq(S) /\ Len(short) = n - 1
      /\ \A j \in 1 .. n - 1 : short[j] = swapped[j]
  <2> DEFINE m == n - 1
  <2>1. \A j \in 1 .. m : swapped[j] \in S
    BY <1>2, <1>4
  <2>2. m \in Nat /\ m \in Int
    BY <1>2
  <2> HIDE DEF m
  <2>3. /\ SubSeq(swapped, 1, m) \in Seq(S)
        /\ Len(SubSeq(swapped, 1, m)) = IF 1 <= m THEN m - 1 + 1 ELSE 0
        /\ \A j \in 1 .. m - 1 + 1 : SubSeq(swapped, 1, m)[j] = swapped[1 + j - 1]
    BY <2>1, <2>2, SubSeqProperties
  <2>4. Len(SubSeq(swapped, 1, m)) = m
    BY <2>2, <2>3
  <2>5. \A j \in 1 .. m : 1 + j - 1 = j /\ j \in 1 .. m - 1 + 1
    BY <2>2
  <2> QED
    BY <2>3, <2>4, <2>5 DEF m
<1>7. DOMAIN short = 1 .. n - 1
  <2> HIDE DEF short
  <2> QED
    BY <1>6, LenProperties
<1> HIDE DEF short
<1>8. \A j \in DOMAIN short : short[j] = IF j = i THEN list[n] ELSE list[j]
  BY <1>2, <1>4, <1>6, <1>7
<1>9. \A j \in DOMAIN short : j \in DOMAIN list
  BY <1>2, <1>7
<1>10. ASSUME NEW j \in DOMAIN list, list[j] # list[i]
       PROVE  \E k \in DOMAIN short : short[k] = list[j]
  <2>1. CASE j = n
    <3>1. i \in DOMAIN short
      BY <1>2, <1>7, <1>10, <2>1
    <3> QED
      BY <1>8, <2>1, <3>1
  <2>2. CASE j # n
    <3>1. j \in DOMAIN short
      BY <1>2, <1>7, <1>10, <2>2
    <3> QED
      BY <1>8, <1>10, <3>1
  <2> QED
    BY <2>1, <2>2
<1>11. \A y \in Range(list) : y # list[i] => y \in Range(short)
  BY <1>10 DEF Range
<1> QED
  BY <1>1, <1>2, <1>5, <1>6, <1>7, <1>8, <1>9, <1>11 DEF short, n

\* A list whose last symbol took the place of one of them has all the others.
LEMMA SwapRemoves ==
    ASSUME NEW S, NEW list \in Seq(S), NEW i \in DOMAIN list, IsInjective(list)
    PROVE  LET short == Front(ReplaceAt(list, i, Last(list)))
           IN  /\ short \in Seq(S) /\ IsInjective(short)
               /\ Range(short) = Range(list) \ {list[i]}
<1> DEFINE short == Front(ReplaceAt(list, i, Last(list)))
           n == Len(list)
<1>1. /\ short \in Seq(S)
      /\ DOMAIN short = 1 .. n - 1 /\ n \in Nat /\ DOMAIN list = 1 .. n /\ n \in DOMAIN list
      /\ \A j \in DOMAIN short : j \in DOMAIN list
      /\ \A j \in DOMAIN short : short[j] = IF j = i THEN list[n] ELSE list[j]
      /\ \A y \in Range(list) : y # list[i] => y \in Range(short)
  BY SwapMoves
<1> HIDE DEF short, n
<1>2. \A j \in DOMAIN short : j # n
  BY <1>1
<1>3. IsInjective(short)
  BY <1>1, <1>2 DEF IsInjective
<1>4. ASSUME NEW j \in DOMAIN short PROVE short[j] \in Range(list) \ {list[i]}
  BY <1>1, <1>2 DEF IsInjective, Range
<1>5. Range(short) = Range(list) \ {list[i]}
  BY <1>1, <1>4 DEF Range
<1> QED
  BY <1>1, <1>3, <1>5 DEF short

-----------------------------------------------------------------------------
(* The index.                                                               *)

\* An entry for a new derivative of u is one more in u's list.
LEMMA AddIndexes ==
    ASSUME DataTypes, NEW u \in Symbols, NEW x \in Symbols, IsInjective(GetDerivatives(u))
    PROVE  LET map == addToUnderlyingMap(underlyingMap, u, x)
           IN  /\ DOMAIN map = DOMAIN underlyingMap \cup {u}
               /\ map[u] \in Seq(Symbols) /\ IsInjective(map[u])
               /\ Range(map[u]) = Range(GetDerivatives(u)) \cup {x}
               /\ \A v \in DOMAIN underlyingMap \ {u} : map[v] = underlyingMap[v]
<1> DEFINE map == addToUnderlyingMap(underlyingMap, u, x)
<1>1. CASE u \notin DOMAIN underlyingMap
  <2>1. map = Put(underlyingMap, u, <<x>>) /\ GetDerivatives(u) = <<>>
    BY <1>1 DEF addToUnderlyingMap, GetDerivatives
  <2>2. Range(<<>>) = {}
    BY DEF Range
  <2>3. /\ DOMAIN map = DOMAIN underlyingMap \cup {u} /\ map[u] = <<x>>
        /\ \A v \in DOMAIN underlyingMap \ {u} : map[v] = underlyingMap[v]
    BY <2>1 DEF Put
  <2> HIDE DEF map
  <2> QED
    BY <2>1, <2>2, <2>3, SingletonIsApart DEF map
<1>2. CASE u \in DOMAIN underlyingMap /\ x \in Range(underlyingMap[u])
  <2>1. map = underlyingMap /\ GetDerivatives(u) = underlyingMap[u]
    BY <1>2 DEF addToUnderlyingMap, GetDerivatives
  <2> QED
    BY <1>2, <2>1 DEF DataTypes
<1>3. CASE u \in DOMAIN underlyingMap /\ x \notin Range(underlyingMap[u])
  <2> DEFINE list == underlyingMap[u]
  <2>1. map = Put(underlyingMap, u, Append(list, x)) /\ GetDerivatives(u) = list
    BY <1>3 DEF addToUnderlyingMap, GetDerivatives
  <2>2. /\ DOMAIN map = DOMAIN underlyingMap \cup {u} /\ map[u] = Append(list, x)
        /\ \A v \in DOMAIN underlyingMap \ {u} : map[v] = underlyingMap[v]
    BY <2>1 DEF Put
  <2>3. list \in Seq(Symbols)
    BY <1>3 DEF DataTypes
  <2>4. /\ Append(list, x) \in Seq(Symbols) /\ IsInjective(Append(list, x))
        /\ Range(Append(list, x)) = Range(list) \cup {x}
    <3>1. IsInjective(list) /\ x \notin Range(list)
      BY <1>3, <2>1
    <3> HIDE DEF list
    <3> QED
      BY <2>3, <3>1, AppendKeepsApart
  <2> HIDE DEF map
  <2> QED
    BY <2>1, <2>2, <2>4 DEF map
<1> QED
  BY <1>1, <1>2, <1>3

\* An entry that is removed is one less in u's list.
LEMMA RemoveUnindexes ==
    ASSUME DataTypes, NEW u \in DOMAIN underlyingMap, NEW x \in Range(underlyingMap[u]),
           IsInjective(underlyingMap[u])
    PROVE  LET map == removeFromUnderlyingMap(underlyingMap, u, x)
           IN  /\ DOMAIN map = DOMAIN underlyingMap
               /\ map[u] \in Seq(Symbols) /\ IsInjective(map[u])
               /\ Range(map[u]) = Range(underlyingMap[u]) \ {x}
               /\ \A v \in DOMAIN underlyingMap \ {u} : map[v] = underlyingMap[v]
<1> DEFINE list == underlyingMap[u]
           i == CHOOSE j \in DOMAIN list : list[j] = x
           short == Front(ReplaceAt(list, i, Last(list)))
           map == removeFromUnderlyingMap(underlyingMap, u, x)
<1>1. i \in DOMAIN list /\ list[i] = x
  BY DEF Range
<1>2. map = Put(underlyingMap, u, short)
  BY DEF removeFromUnderlyingMap
<1>3. list \in Seq(Symbols)
  BY DEF DataTypes
<1> HIDE DEF i
<1>4. short \in Seq(Symbols) /\ IsInjective(short) /\ Range(short) = Range(list) \ {x}
  <2> HIDE DEF list
  <2>1. IsInjective(list)
    BY DEF list
  <2> QED
    BY <1>1, <1>3, <2>1, SwapRemoves
<1> HIDE DEF short
<1>5. /\ DOMAIN map = DOMAIN underlyingMap \cup {u} /\ map[u] = short
      /\ \A v \in DOMAIN underlyingMap \ {u} : map[v] = underlyingMap[v]
  BY <1>2 DEF Put
<1> HIDE DEF map
<1> QED
  BY <1>4, <1>5 DEF map

\* data that came or changed are in the list of what they are on, and no other
LEMMA UpdateKeepsIndex ==
    ASSUME DataInv, NEW data \in Messages, UpdateMarketData(data)
    PROVE  DataInv'
<1> DEFINE s == data.symbol
           u == data.underlying
           known == s \in DOMAIN marketData /\ marketData[s] # NoInfo
<1>1. s \in Symbols /\ u \in Symbols \cup {NoInfo, NoName}
  BY MessagesAssumption
<1>2. CASE known
  <2>1. UNCHANGED <<marketData, underlyingMap, stale>>
    BY <1>2 DEF UpdateMarketData
  <2> QED
    BY <2>1 DEF DataInv, DataTypes, IndexIsExact, GetDerivatives
<1>3. CASE ~known
  <2>1. marketData' = Put(marketData, s, u) /\ stale' = stale
    BY <1>3 DEF UpdateMarketData
  <2>2. /\ DOMAIN marketData' = DOMAIN marketData \cup {s} /\ marketData'[s] = u
        /\ \A t \in DOMAIN marketData \ {s} : marketData'[t] = marketData[t]
    BY <2>1 DEF Put
  <2>3. s \notin DOMAIN marketData \/ marketData[s] = NoInfo
    BY <1>3
  <2>4. NoInfo \notin Symbols /\ NoName \notin Symbols
    BY NamesAreApart
  <2>5. ASSUME NEW v \in Symbols
        PROVE  {t \in DOMAIN marketData' : marketData'[t] = v}
                 = {t \in DOMAIN marketData : marketData[t] = v} \cup (IF v = u THEN {s} ELSE {})
    BY <2>2, <2>3, <2>4
  <2>6. CASE u \in Symbols
    <3> DEFINE map == addToUnderlyingMap(underlyingMap, u, s)
    <3>1. underlyingMap' = map
      BY <1>3, <2>4, <2>6 DEF UpdateMarketData, Indexed
    <3>2. IsInjective(GetDerivatives(u)) /\ Range(GetDerivatives(u)) = {t \in DOMAIN marketData : marketData[t] = u}
      BY <2>6 DEF DataInv, IndexIsExact
    <3>3. /\ DOMAIN map = DOMAIN underlyingMap \cup {u}
          /\ map[u] \in Seq(Symbols) /\ IsInjective(map[u])
          /\ Range(map[u]) = Range(GetDerivatives(u)) \cup {s}
          /\ \A v \in DOMAIN underlyingMap \ {u} : map[v] = underlyingMap[v]
      BY <1>1, <2>6, <3>2, AddIndexes DEF DataInv
    <3> HIDE DEF map, s, u
    <3>4. DataTypes'
      BY <1>1, <2>1, <2>2, <2>6, <3>1, <3>3 DEF DataInv, DataTypes
    <3>5. ASSUME NEW v \in Symbols
          PROVE  /\ IsInjective(GetDerivatives(v)')
                 /\ Range(GetDerivatives(v)') = {t \in DOMAIN marketData' : marketData'[t] = v}
      <4>1. CASE v = u
        <5>1. GetDerivatives(v)' = map[u]
          BY <3>1, <3>3, <4>1 DEF GetDerivatives
        <5> QED
          BY <2>5, <3>2, <3>3, <4>1, <5>1
      <4>2. CASE v # u
        <5>1. GetDerivatives(v)' = GetDerivatives(v)
          BY <3>1, <3>3, <4>2 DEF GetDerivatives
        <5> QED
          BY <2>5, <4>2, <5>1 DEF DataInv, IndexIsExact
      <4> QED
        BY <4>1, <4>2
    <3> QED
      BY <3>4, <3>5 DEF DataInv, IndexIsExact
  <2>7. CASE u \notin Symbols
    <3>1. underlyingMap' = underlyingMap
      BY <1>1, <1>3, <2>7 DEF UpdateMarketData, Indexed
    <3>2. DataTypes'
      BY <1>1, <2>1, <2>2, <3>1 DEF DataInv, DataTypes
    <3> HIDE DEF s, u
    <3> QED
      BY <2>5, <2>7, <3>1, <3>2 DEF DataInv, IndexIsExact, GetDerivatives
  <2> QED
    BY <2>6, <2>7
<1> QED
  BY <1>2, <1>3

\* data that go leave the list of what they are on
LEMMA RemoveKeepsIndex ==
    ASSUME DataInv, RemoveNext
    PROVE  DataInv'
<1>1. PICK s \in stale :
        /\ stale' = stale \ {s}
        /\ marketData' = [t \in DOMAIN marketData \ {s} |-> marketData[t]]
        /\ underlyingMap' = IF Indexed(marketData[s])
                            THEN removeFromUnderlyingMap(underlyingMap, marketData[s], s)
                            ELSE underlyingMap
  BY DEF RemoveNext
<1> DEFINE u == marketData[s]
<1>2. /\ DOMAIN marketData' = DOMAIN marketData \ {s}
      /\ \A t \in DOMAIN marketData' : marketData'[t] = marketData[t]
      /\ s \in DOMAIN marketData /\ u \in Symbols \cup {NoInfo, NoName}
  BY <1>1 DEF DataInv, DataTypes
<1>3. ASSUME NEW v
      PROVE  {t \in DOMAIN marketData' : marketData'[t] = v}
               = {t \in DOMAIN marketData : marketData[t] = v} \ (IF v = u THEN {s} ELSE {})
  BY <1>2
<1>4. CASE u \in Symbols
  <2> DEFINE map == removeFromUnderlyingMap(underlyingMap, u, s)
  <2>1. underlyingMap' = map
    BY <1>1, <1>4, NamesAreApart DEF Indexed
  <2>2. IsInjective(GetDerivatives(u)) /\ Range(GetDerivatives(u)) = {t \in DOMAIN marketData : marketData[t] = u}
    BY <1>4 DEF DataInv, IndexIsExact
  <2>3. s \in Range(GetDerivatives(u))
    BY <1>2, <2>2
  <2>4. u \in DOMAIN underlyingMap /\ GetDerivatives(u) = underlyingMap[u]
    <3>1. Range(<<>>) = {}
      BY DEF Range
    <3> QED
      BY <2>3, <3>1 DEF GetDerivatives
  <2>5. /\ DOMAIN map = DOMAIN underlyingMap
        /\ map[u] \in Seq(Symbols) /\ IsInjective(map[u])
        /\ Range(map[u]) = Range(underlyingMap[u]) \ {s}
        /\ \A v \in DOMAIN underlyingMap \ {u} : map[v] = underlyingMap[v]
    BY <2>2, <2>3, <2>4, RemoveUnindexes DEF DataInv
  <2> HIDE DEF map, u
  <2>6. DataTypes'
    BY <1>1, <1>2, <2>1, <2>5 DEF DataInv, DataTypes
  <2>7. ASSUME NEW v \in Symbols
        PROVE  /\ IsInjective(GetDerivatives(v)')
               /\ Range(GetDerivatives(v)') = {t \in DOMAIN marketData' : marketData'[t] = v}
    <3>1. CASE v = u
      <4>1. GetDerivatives(v)' = map[u]
        BY <2>1, <2>4, <2>5, <3>1 DEF GetDerivatives
      <4> QED
        BY <1>3, <2>2, <2>4, <2>5, <3>1, <4>1
    <3>2. CASE v # u
      <4>1. GetDerivatives(v)' = GetDerivatives(v)
        BY <2>1, <2>5, <3>2 DEF GetDerivatives
      <4> QED
        BY <1>3, <3>2, <4>1 DEF DataInv, IndexIsExact
    <3> QED
      BY <3>1, <3>2
  <2> QED
    BY <2>6, <2>7 DEF DataInv, IndexIsExact
<1>5. CASE u \notin Symbols
  <2>1. underlyingMap' = underlyingMap
    BY <1>1, <1>2, <1>5 DEF Indexed
  <2>2. DataTypes'
    BY <1>1, <1>2, <2>1 DEF DataInv, DataTypes
  <2> HIDE DEF u
  <2> QED
    BY <1>3, <1>5, <2>1, <2>2 DEF DataInv, IndexIsExact, GetDerivatives
<1> QED
  BY <1>4, <1>5

\* every step of the processor keeps the index
LEMMA IndexStep == DataInv /\ [Next]_vars => DataInv'
<1> SUFFICES ASSUME DataInv, [Next]_vars PROVE DataInv'
  OBVIOUS
<1>1. CASE UNCHANGED dataVars
  BY <1>1 DEF dataVars, DataInv, DataTypes, IndexIsExact, GetDerivatives
<1>2. CASE CleanUp
  <2>1. CASE RemoveOldData
    BY <2>1 DEF RemoveOldData, DataInv, DataTypes, IndexIsExact, GetDerivatives
  <2> QED
    BY <1>2, <2>1, RemoveKeepsIndex DEF CleanUp
<1>3. CASE Receive
  <2>1. \E data \in Messages : UpdateMarketData(data)
    BY <1>3 DEF Receive
  <2> QED
    BY <2>1, UpdateKeepsIndex
<1>4. CASE Stop \/ StopReturns \/ CancelStart \/ Wait \/ PollFails \/ PollPanics \/ Look \/ Consider \/ Send
  BY <1>1, <1>4 DEF Stop, StopReturns, CancelStart, Wait, PollFails, PollPanics, Look, Consider, Send
<1>5. CASE \E s \in Subs : Take(s)
  BY <1>1, <1>5 DEF Take
<1>6. ASSUME NEW c \in Callers,
             \/ \E s \in Subs : SubscribeUnlocked(c, s) \/ \E id \in Ids : Subscribe(c, s, id)
             \/ \E id \in Ids \cup Subs, locked \in BOOLEAN : Unsubscribe(c, id, locked)
             \/ CallStep(c)
      PROVE  DataInv'
  BY <1>1, <1>6 DEF Subscribe, SubscribeUnlocked, Unsubscribe, CallStep, Register, Close, Delete,
                    Check, MakeEmpty, ReadList, AppendTo, Search, TakeOut, WriteBack
<1>7. CASE StopDataProcessor \/ DataProcessorEnds \/ TakeFromFeed \/ Book \/ Recycle
  BY <1>1, <1>7 DEF StopDataProcessor, DataProcessorEnds, TakeFromFeed, Book, Recycle
<1>8. CASE UNCHANGED vars
  BY <1>1, <1>8 DEF vars
<1> QED
  BY <1>2, <1>3, <1>4, <1>5, <1>6, <1>7, <1>8 DEF Next, ConsumerStep, DataProcessorStep

-----------------------------------------------------------------------------
\* The index by underlying is exact in every state, between two turns of the loop
\* of RemoveOldData too, whatever DerivativeInfo the updates bring
\* (data.go:291-365, 399-467).
THEOREM IndexStaysExact == Spec => []IndexIsExact
<1>1. Init => DataInv
  <2> SUFFICES ASSUME Init PROVE DataInv
    OBVIOUS
  <2>1. /\ DOMAIN marketData = {} /\ DOMAIN underlyingMap = {} /\ stale = {}
    BY DEF Init, DataInit
  <2>2. \A u : GetDerivatives(u) = <<>>
    BY <2>1 DEF GetDerivatives
  <2>3. Range(<<>>) = {} /\ IsInjective(<<>>)
    BY DEF Range, IsInjective
  <2> QED
    BY <2>1, <2>2, <2>3 DEF DataInv, DataTypes, IndexIsExact
<1>2. DataInv => IndexIsExact
  BY DEF DataInv
<1> QED
  BY <1>1, <1>2, IndexStep, PTL DEF Spec

-----------------------------------------------------------------------------
(* Who is subscribed, and the calls.                                        *)

\* a subscription that was canceled, or is taken for one that was
Gone(s) == ~subs[s].active \/ Mistaken(s)

\* the channel of an active subscription is open
Formed == \A s \in DOMAIN subs :
    DOMAIN subs[s] = {"id", "active", "open", "queued"} /\ (subs[s].active => subs[s].open)

Slices == [array : Nat, len : Nat]
Arrays == Seq(Subs \cup {None})

AtList == {"checking", "emptying", "reading", "appending", "searching", "removing", "writing"}
Holding == {"appending", "searching", "removing", "writing"}
Phases == AtList \cup {"idle", "registering", "closing", "deleting"}

Calls == [op : {"none", "subscribe", "unsubscribe"}, locked : BOOLEAN, at : Phases, sub : Subs \cup {None},
          id : Ids \cup Subs \cup {None}, left : Seq(Symbols), slice : Slices, found : Nat]

\* What a call may be doing ...
Shaped(call) ==
    /\ call.at = "idle" <=> call.op = "none"
    /\ call.at \in {"registering", "checking", "emptying", "appending"} => call.op = "subscribe"
    /\ call.at \in {"closing", "deleting", "searching", "removing"} => call.op = "unsubscribe"
    /\ call.at \in AtList => call.left # <<>>
    /\ call.at = "registering" /\ ~call.locked => call.left = <<>>
    /\ call.at = "removing" => call.found \in 1 .. call.slice.len

\* ... and to whom; one that holds the mutex keeps the distribution out.
Sound(call) ==
    /\ call.op # "none" => call.sub \in DOMAIN subs /\ subs[call.sub].id = call.id /\ call.id \in Ids \cup Subs
    /\ call.op = "unsubscribe" /\ call.at # "closing" => ~subs[call.sub].active
    /\ call.locked => ~Distributing

\* a slice of an array there is, whose elements are subscriptions
Proper(x, slice) ==
    /\ slice.array = 0 => slice.len = 0
    /\ slice.array # 0 => slice.array \in DOMAIN arrays[x] /\ slice.len <= Len(arrays[x][slice.array])
    /\ \A i \in 1 .. slice.len : Cell(x, slice, i) \in DOMAIN subs

\* What the maps of subscriptions hold.
MapTypes ==
    /\ DOMAIN subs \subseteq Subs /\ Formed
    /\ \A id \in DOMAIN byID : id \in Ids \cup Subs /\ byID[id] \in DOMAIN subs /\ subs[byID[id]].id = id

ListTypes ==
    /\ arrays \in [Symbols -> Seq(Arrays)]
    /\ DOMAIN listed \subseteq Symbols
    /\ \A x \in DOMAIN listed : listed[x] \in Slices /\ Proper(x, listed[x])

CallTypes ==
    /\ calls \in [Callers -> Calls]
    /\ \A c \in Callers :
          /\ Shaped(calls[c]) /\ Sound(calls[c])
          /\ calls[c].at \in Holding => Proper(Symbol(c), calls[c].slice)

SubTypes == MapTypes /\ ListTypes /\ CallTypes

\* a subscription keeps its id, and is never active again
SubsKept ==
    \A s \in DOMAIN subs :
        /\ s \in DOMAIN subs' /\ subs'[s].id = subs[s].id
        /\ subs'[s].active => subs[s].active

LEMMA GoneForEver ==
    ASSUME SubsKept, NEW s \in DOMAIN subs, Gone(s)
    PROVE  Gone(s)'
<1>1. CASE ~subs[s].active
  BY <1>1 DEF Gone, SubsKept
<1>2. CASE Mistaken(s)
  <2>1. PICK t \in DOMAIN subs : subs[t].id = subs[s].id /\ ~subs[t].active
    BY <1>2 DEF Mistaken
  <2>2. t \in DOMAIN subs' /\ subs'[t].id = subs'[s].id /\ ~subs'[t].active
    BY <2>1 DEF SubsKept
  <2> QED
    BY <2>2 DEF Gone, Mistaken
<1> QED
  BY <1>1, <1>2 DEF Gone

\* subscriptions are left alone, but for what waits in a channel
SameSubs ==
    /\ DOMAIN subs' = DOMAIN subs
    /\ \A s \in DOMAIN subs : /\ DOMAIN subs'[s] = DOMAIN subs[s] /\ subs'[s].id = subs[s].id
                              /\ subs'[s].active = subs[s].active /\ subs'[s].open = subs[s].open

LEMMA SameSubsKept ==
    ASSUME MapTypes, SameSubs
    PROVE  SubsKept /\ DOMAIN subs' \subseteq Subs /\ Formed'
BY DEF SameSubs, SubsKept, MapTypes, Formed

\* a channel gains or loses a message
LEMMA QueuedSame ==
    ASSUME MapTypes, NEW s, NEW v, subs' = [subs EXCEPT ![s].queued = v]
    PROVE  SameSubs
<1>1. DOMAIN subs' = DOMAIN subs /\ \A t \in DOMAIN subs : t # s => subs'[t] = subs[t]
  OBVIOUS
<1>2. \A t \in DOMAIN subs : t = s => subs'[t] = [subs[t] EXCEPT !.queued = v]
  OBVIOUS
<1>3. \A t \in DOMAIN subs : DOMAIN subs[t] = {"id", "active", "open", "queued"}
  BY DEF MapTypes, Formed
<1> DEFINE Same(t) == /\ DOMAIN subs'[t] = DOMAIN subs[t] /\ subs'[t].id = subs[t].id
                      /\ subs'[t].active = subs[t].active /\ subs'[t].open = subs[t].open
<1>4. \A t \in DOMAIN subs : Same(t)
  <2>1. ASSUME NEW t \in DOMAIN subs, t = s
        PROVE  Same(t)
    BY <1>2, <1>3, <2>1
  <2>2. ASSUME NEW t \in DOMAIN subs, t # s
        PROVE  Same(t)
    BY <1>1, <2>2
  <2> QED
    BY <2>1, <2>2
<1> QED
  BY <1>1, <1>4 DEF SameSubs

\* a call goes on to the next symbol, to SubscriptionsByID, or ends
LEMMA TurnShaped ==
    ASSUME NEW call \in Calls, call.op \in {"subscribe", "unsubscribe"}
    PROVE  LET next == Turn(call)
           IN  /\ next \in Calls /\ Shaped(next) /\ next.at \notin Holding \cup {"emptying", "closing", "removing"}
               /\ \/ next = Idle /\ call.left = <<>>
                  \/ /\ next.op = call.op /\ next.locked = call.locked /\ next.sub = call.sub
                     /\ next.id = call.id /\ next.left = call.left
<1>1. CASE call.left # <<>>
  <2>1. CASE call.op = "subscribe"
    BY <1>1, <2>1 DEF Turn, Calls, Phases, AtList, Holding, Shaped
  <2>2. CASE call.op = "unsubscribe"
    BY <1>1, <2>2 DEF Turn, Calls, Phases, AtList, Holding, Shaped
  <2> QED
    BY <2>1, <2>2
<1>2. CASE call.left = <<>> /\ call.op = "subscribe" /\ ~call.locked
  BY <1>2 DEF Turn, Calls, Phases, AtList, Holding, Shaped
<1>3. CASE call.left = <<>> /\ ~(call.op = "subscribe" /\ ~call.locked)
  <2>1. Turn(call) = Idle
    BY <1>3 DEF Turn
  <2>2. Idle \in Calls /\ Shaped(Idle) /\ Idle.at = "idle"
    BY DEF Idle, Empty, Slices, Calls, Phases, AtList, Shaped
  <2> QED
    BY <1>3, <2>1, <2>2 DEF Holding
<1> QED
  BY <1>1, <1>2, <1>3

\* which is done with the first of its symbols
LEMMA ThroughShaped ==
    ASSUME NEW call \in Calls, call.op \in {"subscribe", "unsubscribe"}, call.left # <<>>
    PROVE  LET next == Through(call)
           IN  /\ next \in Calls /\ Shaped(next) /\ next.at \notin Holding \cup {"emptying", "closing", "removing"}
               /\ \/ next = Idle /\ Tail(call.left) = <<>>
                  \/ /\ next.op = call.op /\ next.locked = call.locked /\ next.sub = call.sub
                     /\ next.id = call.id /\ next.left = Tail(call.left)
<1> DEFINE rest == [call EXCEPT !.left = Tail(call.left), !.slice = Empty, !.found = 0]
<1>1. Tail(call.left) \in Seq(Symbols)
  <2>1. call.left \in Seq(Symbols)
    BY DEF Calls
  <2> QED
    BY <2>1, HeadTailProperties
<1>2. /\ rest \in Calls /\ rest.op = call.op /\ rest.locked = call.locked /\ rest.sub = call.sub
      /\ rest.id = call.id /\ rest.left = Tail(call.left)
  BY <1>1 DEF Calls, Empty, Slices
<1>3. Through(call) = Turn(rest)
  BY DEF Through
<1> HIDE DEF rest
<1> QED
  BY <1>2, <1>3, TurnShaped

\* no array goes, none changes its length, and what is written into one is a subscription
Grown(x) ==
    \A a \in DOMAIN arrays[x] :
        /\ a \in DOMAIN arrays'[x] /\ Len(arrays'[x][a]) = Len(arrays[x][a])
        /\ \A i \in 1 .. Len(arrays[x][a]) : arrays'[x][a][i] = arrays[x][a][i] \/ arrays'[x][a][i] \in DOMAIN subs'

LEMMA StaysProper ==
    ASSUME ListTypes, SubsKept, NEW x \in Symbols, NEW slice \in Slices, Proper(x, slice), Grown(x)
    PROVE  Proper(x, slice)'
<1>1. CASE slice.array = 0
  BY <1>1 DEF Proper, Slices
<1>2. CASE slice.array # 0
  <2>1. slice.array \in DOMAIN arrays[x] /\ slice.len <= Len(arrays[x][slice.array])
    BY <1>2 DEF Proper
  <2>2. slice.array \in DOMAIN arrays'[x] /\ Len(arrays'[x][slice.array]) = Len(arrays[x][slice.array])
    BY <2>1 DEF Grown
  <2>3. ASSUME NEW i \in 1 .. slice.len
        PROVE  Cell(x, slice, i)' \in DOMAIN subs'
    <3>1. Cell(x, slice, i)' = Cell(x, slice, i) \/ Cell(x, slice, i)' \in DOMAIN subs'
      <4>1. i \in 1 .. Len(arrays[x][slice.array])
        <5> DEFINE l == Len(arrays[x][slice.array])
        <5>1. slice.len \in Nat /\ slice.len <= l /\ l \in Nat
          <6>1. arrays[x] \in Seq(Arrays)
            BY DEF ListTypes
          <6>2. arrays[x][slice.array] \in Arrays
            BY <2>1, <6>1, ElementOfSeq, LenProperties
          <6> QED
            BY <2>1, <6>2, LenProperties DEF Slices, Arrays
        <5> HIDE DEF l
        <5>2. i \in 1 .. l
          BY <5>1
        <5> QED
          BY <5>2 DEF l
      <4> QED
        BY <2>1, <4>1 DEF Grown, Cell
    <3>2. Cell(x, slice, i) \in DOMAIN subs
      BY DEF Proper
    <3> QED
      BY <3>1, <3>2 DEF SubsKept
  <2> QED
    BY <1>2, <2>1, <2>2, <2>3 DEF Proper
<1> QED
  BY <1>1, <1>2

\* a step of call c that makes it new
LEMMA CallMoves ==
    ASSUME ListTypes, CallTypes, SubsKept, NEW c \in Callers, NEW new \in Calls, calls' = [calls EXCEPT ![c] = new],
           Shaped(new), Sound(new)', Distributing' => Distributing,
           new.at \in Holding => Proper(Head(new.left), new.slice)',
           \A x \in Symbols : Grown(x)
    PROVE  CallTypes'
<1>1. calls' \in [Callers -> Calls] /\ calls'[c] = new /\ \A d \in Callers \ {c} : calls'[d] = calls[d]
  BY DEF CallTypes
<1>2. Symbol(c)' = Head(new.left)
  BY <1>1 DEF Symbol
<1>3. ASSUME NEW d \in Callers \ {c}
      PROVE  /\ Shaped(calls[d])' /\ Sound(calls[d])'
             /\ calls'[d].at \in Holding => Proper(Symbol(d), calls[d].slice)'
  <2>1. PICK call \in Calls : call = calls[d]
    BY DEF CallTypes
  <2>2. calls'[d] = call /\ Shaped(call) /\ Sound(call)
    BY <1>1, <2>1 DEF CallTypes
  <2>3. Sound(call)'
    BY <2>2 DEF Sound, SubsKept
  <2>4. ASSUME call.at \in Holding
        PROVE  Proper(Head(call.left), call.slice)'
    <3>1. call.left \in Seq(Symbols) /\ call.left # <<>>
      BY <2>2, <2>4 DEF Calls, Shaped, Holding, AtList
    <3>2. Head(call.left) \in Symbols
      BY <3>1, HeadTailProperties
    <3>3. call.slice \in Slices /\ Proper(Head(call.left), call.slice)
      BY <2>1, <2>4 DEF Calls, CallTypes, Symbol
    <3> QED
      BY <3>2, <3>3, StaysProper
  <2> QED
    BY <2>2, <2>3, <2>4 DEF Symbol
<1>4. Shaped(calls[c])' /\ Sound(calls[c])' /\ (calls'[c].at \in Holding => Proper(Symbol(c), calls[c].slice)')
  BY <1>1, <1>2
<1> QED
  BY <1>1, <1>3, <1>4 DEF CallTypes

-----------------------------------------------------------------------------
(* What the two steps that write into arrays write.                         *)

\* all arrays but one stay, and that keeps its length
LEMMA OneArray ==
    ASSUME arrays \in [Symbols -> Seq(Arrays)], NEW x \in Symbols, NEW a \in DOMAIN arrays[x],
           NEW array \in Arrays, Len(array) = Len(arrays[x][a]), arrays' = [arrays EXCEPT ![x][a] = array]
    PROVE  /\ arrays' \in [Symbols -> Seq(Arrays)]
           /\ \A y \in Symbols : DOMAIN arrays'[y] = DOMAIN arrays[y]
           /\ \A y \in Symbols : \A b : y # x \/ b # a => arrays'[y][b] = arrays[y][b]
           /\ arrays'[x][a] = array
<1>1. arrays[x] \in Seq(Arrays)
  OBVIOUS
<1>2. [arrays[x] EXCEPT ![a] = array] \in Seq(Arrays)
  BY <1>1, ExceptSeq
<1>3. arrays' = [arrays EXCEPT ![x] = [arrays[x] EXCEPT ![a] = array]]
  OBVIOUS
<1> DEFINE new == [arrays[x] EXCEPT ![a] = array]
<1>4. new \in Seq(Arrays) /\ DOMAIN new = DOMAIN arrays[x] /\ new[a] = array /\ \A b : b # a => new[b] = arrays[x][b]
  <2>1. \A b : b # a => new[b] = arrays[x][b]
    OBVIOUS
  <2> QED
    BY <1>2, <2>1
<1> HIDE DEF new
<1>5. arrays' \in [Symbols -> Seq(Arrays)] /\ arrays'[x] = new /\ \A y \in Symbols : y # x => arrays'[y] = arrays[y]
  BY <1>3, <1>4 DEF new
<1> QED
  BY <1>4, <1>5

\* append: old is the slice before, new the one after
Appends(c, x, old, new) ==
    /\ x = Symbol(c) /\ old = calls[c].slice /\ new.len = old.len + 1
    /\ calls[c].sub \in DOMAIN subs /\ UNCHANGED subs
    /\ calls' = [calls EXCEPT ![c] = [calls[c] EXCEPT !.at = "writing", !.slice = new]]
    /\ arrays' \in [Symbols -> Seq(Arrays)]
    /\ \A y \in Symbols : Grown(y) /\ (y # x => arrays'[y] = arrays[y])
    /\ \A a \in DOMAIN arrays[x] : \A i : a # new.array \/ i # new.len => arrays'[x][a][i] = arrays[x][a][i]
    /\ new.array \in DOMAIN arrays'[x] /\ new.len <= Len(arrays'[x][new.array]) /\ new.array # 0
    /\ new.array = old.array \/ new.array \notin DOMAIN arrays[x]
    /\ \A i \in 1 .. old.len : arrays'[x][new.array][i] = Cell(x, old, i)
    /\ arrays'[x][new.array][new.len] = calls[c].sub

LEMMA AppendWrites ==
    ASSUME SubTypes, NEW c \in Callers, AppendTo(c)
    PROVE  \E x \in Symbols, old \in Slices, new \in Slices : Appends(c, x, old, new)
<1> DEFINE call == calls[c]
<1>1. call \in Calls /\ Shaped(call) /\ Sound(call) /\ call.at = "appending" /\ Proper(Symbol(c), call.slice)
  BY DEF SubTypes, CallTypes, AppendTo, Holding
<1>2. PICK x \in Symbols : x = Symbol(c)
  <2>1. call.left \in Seq(Symbols) /\ call.left # <<>>
    BY <1>1 DEF Calls, Shaped, AtList
  <2> QED
    BY <2>1, HeadTailProperties DEF Symbol
<1>3. PICK old \in Slices : old = call.slice
  BY <1>1 DEF Calls
<1>4. PICK s \in DOMAIN subs : s = call.sub
  BY <1>1 DEF Shaped, Sound
<1>5. s \in Subs
  BY DEF SubTypes, MapTypes
<1>6. Proper(x, old) /\ old.len \in Nat /\ old.array \in Nat
  BY <1>1, <1>2, <1>3 DEF Slices
<1> DEFINE n == old.len + 1
           room == old.array # 0 /\ old.len < Len(arrays[x][old.array])
           new == [array |-> IF room THEN old.array ELSE Len(arrays[x]) + 1, len |-> n]
           larger == [i \in 1 .. IF old.len = 0 THEN 1 ELSE 2 * old.len |->
                         IF i < n THEN Cell(x, old, i) ELSE IF i = n THEN s ELSE None]
<1>7. /\ arrays' = IF room THEN [arrays EXCEPT ![x][old.array][n] = s]
                   ELSE [arrays EXCEPT ![x] = Append(arrays[x], larger)]
      /\ calls' = [calls EXCEPT ![c] = [calls[c] EXCEPT !.at = "writing", !.slice = new]]
  <2>1. /\ arrays' = IF room THEN [arrays EXCEPT ![x][old.array][n] = s]
                   ELSE [arrays EXCEPT ![x] = Append(@, larger)]
        /\ calls' = [calls EXCEPT ![c].at = "writing", ![c].slice = new]
    BY <1>2, <1>3, <1>4 DEF AppendTo
  <2> HIDE DEF new, larger, room
  <2>2. calls' = [calls EXCEPT ![c] = [calls[c] EXCEPT !.at = "writing", !.slice = new]]
    BY <2>1
  <2> QED
    BY <2>1, <2>2
<1>8. UNCHANGED subs
  BY DEF AppendTo
<1>9. arrays \in [Symbols -> Seq(Arrays)] /\ arrays[x] \in Seq(Arrays) /\ DOMAIN arrays[x] = 1 .. Len(arrays[x]) /\ Len(arrays[x]) \in Nat
  <2>1. arrays \in [Symbols -> Seq(Arrays)]
    BY DEF SubTypes, ListTypes
  <2> QED
    BY <2>1, LenProperties
<1>10. CASE room
  <2>1. new.array = old.array /\ new.len = n /\ new \in Slices
    BY <1>6, <1>10 DEF Slices
  <2>2. PICK a \in DOMAIN arrays[x] : a = old.array
    BY <1>6, <1>10 DEF Proper
  <2>3. arrays[x][a] \in Seq(Subs \cup {None}) /\ n \in 1 .. Len(arrays[x][a]) /\ DOMAIN arrays[x][a] = 1 .. Len(arrays[x][a])
    <3>1. arrays[x][a] \in Arrays
      BY <1>9, ElementOfSeq
    <3> QED
      BY <1>6, <1>10, <2>2, <3>1, LenProperties DEF Arrays
  <2> DEFINE array == [arrays[x][a] EXCEPT ![n] = s]
  <2>4. /\ array \in Arrays /\ Len(array) = Len(arrays[x][a]) /\ array[n] = s /\ \A i : i # n => array[i] = arrays[x][a][i]
    <3>1. array \in Seq(Subs \cup {None}) /\ Len(array) = Len(arrays[x][a])
      BY <1>5, <2>3, ExceptSeq
    <3>2. \A i : i # n => array[i] = arrays[x][a][i]
      OBVIOUS
    <3>3. array[n] = s
      BY <2>3
    <3> QED
      BY <3>1, <3>2, <3>3 DEF Arrays
  <2>5. arrays' = [arrays EXCEPT ![x][a] = array]
    BY <1>7, <1>10, <2>2
  <2> HIDE DEF array, new, room
  <2>6. /\ arrays' \in [Symbols -> Seq(Arrays)]
        /\ \A y \in Symbols : DOMAIN arrays'[y] = DOMAIN arrays[y]
        /\ \A y \in Symbols : \A b : y # x \/ b # a => arrays'[y][b] = arrays[y][b]
        /\ arrays'[x][a] = array
    BY <1>9, <2>4, <2>5, OneArray
  <2>7. \A y \in Symbols : y # x => arrays'[y] = arrays[y]
    BY <1>9, <2>5
  <2>8. \A y \in Symbols : Grown(y)
    BY <1>8, <2>4, <2>6 DEF Grown
  <2>9. \A i \in 1 .. old.len : i # n /\ array[i] = Cell(x, old, i)
    BY <1>6, <2>2, <2>4 DEF Cell
  <2>10. new.len <= Len(arrays'[x][new.array]) /\ new.array \in DOMAIN arrays'[x] /\ new.array # 0
    BY <1>10, <2>1, <2>2, <2>3, <2>4, <2>6 DEF room
  <2> QED
    <3>1. /\ x = Symbol(c) /\ old = calls[c].slice /\ new.len = old.len + 1
          /\ calls[c].sub \in DOMAIN subs /\ UNCHANGED subs
          /\ calls' = [calls EXCEPT ![c] = [calls[c] EXCEPT !.at = "writing", !.slice = new]]
      BY <1>2, <1>3, <1>4, <1>7, <1>8, <2>1
    <3>2. \A b \in DOMAIN arrays[x] : \A i : b # new.array \/ i # new.len => arrays'[x][b][i] = arrays[x][b][i]
      BY <2>1, <2>2, <2>4, <2>6
    <3>3. \A i \in 1 .. old.len : arrays'[x][new.array][i] = Cell(x, old, i)
      BY <2>1, <2>2, <2>6, <2>9
    <3>4. arrays'[x][new.array][new.len] = calls[c].sub
      BY <1>4, <2>1, <2>2, <2>4, <2>6
    <3>5. Appends(c, x, old, new)
      BY <2>1, <2>6, <2>7, <2>8, <2>10, <3>1, <3>2, <3>3, <3>4 DEF Appends
    <3> QED
      BY <2>1, <3>5
<1>11. CASE ~room
  <2>1. new.array = Len(arrays[x]) + 1 /\ new.len = n /\ new \in Slices /\ new.array \notin DOMAIN arrays[x] /\ new.array # 0
    BY <1>6, <1>9, <1>11 DEF Slices
  <2> DEFINE m == IF old.len = 0 THEN 1 ELSE 2 * old.len
  <2>2. m \in Nat /\ n \in 1 .. m /\ \A i \in 1 .. old.len : i \in 1 .. m /\ i < n
    BY <1>6
  <2>3. \A i \in 1 .. m : i < n => Cell(x, old, i) \in Subs
    BY <1>6 DEF Proper, SubTypes, MapTypes
  <2>4. larger \in [1 .. m -> Subs \cup {None}]
    BY <1>5, <2>3
  <2>5. larger \in Arrays /\ Len(larger) = m
    <3> HIDE DEF larger, m
    <3>1. larger \in Seq(Subs \cup {None}) /\ DOMAIN larger = 1 .. m
      BY <2>2, <2>4, SeqDef
    <3> QED
      BY <2>2, <3>1, LenProperties DEF Arrays
  <2>6. larger[n] = s /\ \A i \in 1 .. old.len : larger[i] = Cell(x, old, i)
    BY <2>2
  <2>7. arrays' = [arrays EXCEPT ![x] = Append(arrays[x], larger)]
    BY <1>7, <1>11
  <2> HIDE DEF larger, new, room, m
  <2> DEFINE more == Append(arrays[x], larger)
  <2>8. /\ more \in Seq(Arrays) /\ Len(more) = Len(arrays[x]) + 1 /\ more[new.array] = larger
        /\ \A a \in DOMAIN arrays[x] : more[a] = arrays[x][a]
    BY <1>9, <2>1, <2>5, AppendProperties
  <2>9. DOMAIN more = 1 .. Len(arrays[x]) + 1
    <3> HIDE DEF more
    <3> QED
      BY <2>8, LenProperties
  <2>10. new.array \in DOMAIN more /\ \A a \in DOMAIN arrays[x] : a \in DOMAIN more
    BY <1>9, <2>1, <2>9
  <2> HIDE DEF more
  <2>11. arrays' \in [Symbols -> Seq(Arrays)] /\ arrays'[x] = more /\ \A y \in Symbols : y # x => arrays'[y] = arrays[y]
    BY <1>9, <2>7, <2>8 DEF more
  <2>12. \A y \in Symbols : Grown(y)
    BY <2>8, <2>10, <2>11 DEF Grown
  <2>13. \A a \in DOMAIN arrays[x] : \A i : arrays'[x][a][i] = arrays[x][a][i]
    BY <2>8, <2>11
  <2>14. new.len <= Len(arrays'[x][new.array])
    BY <2>1, <2>2, <2>5, <2>8, <2>11
  <2> QED
    <3>1. /\ x = Symbol(c) /\ old = calls[c].slice /\ new.len = old.len + 1
          /\ calls[c].sub \in DOMAIN subs /\ UNCHANGED subs
          /\ calls' = [calls EXCEPT ![c] = [calls[c] EXCEPT !.at = "writing", !.slice = new]]
      BY <1>2, <1>3, <1>4, <1>7, <1>8, <2>1
    <3>2. /\ \A i \in 1 .. old.len : arrays'[x][new.array][i] = Cell(x, old, i)
          /\ arrays'[x][new.array][new.len] = calls[c].sub /\ new.array \in DOMAIN arrays'[x]
      BY <1>4, <2>1, <2>6, <2>8, <2>10, <2>11
    <3>3. Appends(c, x, old, new)
      BY <2>1, <2>11, <2>12, <2>13, <2>14, <3>1, <3>2 DEF Appends
    <3> QED
      BY <2>1, <3>3
<1> HIDE DEF room
<1> QED
  BY <1>10, <1>11

\* What goes out of a list leaves the others in it.
TakesOut(c, x, old, new) ==
    /\ x = Symbol(c) /\ old = calls[c].slice /\ new.len = old.len - 1 /\ new.array = old.array
    /\ UNCHANGED subs /\ calls[c].found \in 1 .. old.len /\ old.array \in DOMAIN arrays[x]
    /\ calls' = [calls EXCEPT ![c] = [calls[c] EXCEPT !.at = "writing", !.slice = new]]
    /\ arrays' \in [Symbols -> Seq(Arrays)]
    /\ \A y \in Symbols : Grown(y) /\ (y # x => arrays'[y] = arrays[y])
    /\ \A a \in DOMAIN arrays[x] : a # old.array => arrays'[x][a] = arrays[x][a]
    /\ \A i \in 1 .. old.len : i # calls[c].found => \E j \in 1 .. new.len : Cell(x, new, j)' = Cell(x, old, i)

LEMMA TakeOutWrites ==
    ASSUME SubTypes, NEW c \in Callers, TakeOut(c)
    PROVE  \E x \in Symbols, old \in Slices, new \in Slices : TakesOut(c, x, old, new)
<1> DEFINE call == calls[c]
<1>1. call \in Calls /\ Shaped(call) /\ Sound(call) /\ call.at = "removing" /\ Proper(Symbol(c), call.slice)
  BY DEF SubTypes, CallTypes, TakeOut, Holding
<1>2. PICK x \in Symbols : x = Symbol(c)
  <2>1. call.left \in Seq(Symbols) /\ call.left # <<>>
    BY <1>1 DEF Calls, Shaped, AtList
  <2> QED
    BY <2>1, HeadTailProperties DEF Symbol
<1>3. PICK old \in Slices : old = call.slice
  BY <1>1 DEF Calls
<1>4. PICK f \in 1 .. old.len : f = call.found
  BY <1>1, <1>3 DEF Shaped
<1>5. Proper(x, old) /\ old.len \in Nat /\ old.array \in Nat
  BY <1>1, <1>2, <1>3 DEF Slices
<1>6. PICK a \in DOMAIN arrays[x] : a = old.array
  BY <1>4, <1>5 DEF Proper
<1>7. old.len <= Len(arrays[x][a]) /\ \A i \in 1 .. old.len : arrays[x][a][i] \in DOMAIN subs
  BY <1>4, <1>5, <1>6 DEF Proper, Cell
<1>8. arrays \in [Symbols -> Seq(Arrays)]
  BY DEF SubTypes, ListTypes
<1>9. arrays[x][a] \in Seq(Subs \cup {None}) /\ DOMAIN arrays[x][a] = 1 .. Len(arrays[x][a]) /\ Len(arrays[x][a]) \in Nat
  <2>1. arrays[x][a] \in Arrays
    BY <1>8, ElementOfSeq
  <2> QED
    BY <2>1, LenProperties DEF Arrays
<1> DEFINE n == old.len
           new == [old EXCEPT !.len = n - 1]
           shifted == [i \in DOMAIN arrays[x][a] |-> arrays[x][a][IF i \in f .. n - 1 THEN i + 1 ELSE i]]
           swapped == [arrays[x][a] EXCEPT ![f] = arrays[x][a][n]]
           array == IF call.locked THEN swapped ELSE shifted
<1>10. arrays' = [arrays EXCEPT ![x][a] = array]
  <2>1. arrays' = [arrays EXCEPT ![x][a] = IF call.locked THEN [@ EXCEPT ![f] = Cell(x, old, n)]
              ELSE [i \in DOMAIN arrays[x][a] |-> Cell(x, old, IF i \in f .. n - 1 THEN i + 1 ELSE i)]]
    BY <1>2, <1>3, <1>4, <1>6 DEF TakeOut
  <2>2. \A i : Cell(x, old, i) = arrays[x][a][i]
    BY <1>6 DEF Cell
  <2> QED
    BY <2>1, <2>2
<1>11. calls' = [calls EXCEPT ![c] = [calls[c] EXCEPT !.at = "writing", !.slice = new]] /\ UNCHANGED subs
  <2>1. calls' = [calls EXCEPT ![c].at = "writing", ![c].slice.len = @ - 1] /\ UNCHANGED subs
    BY DEF TakeOut
  <2> QED
    BY <1>3, <2>1
<1>12. new \in Slices /\ new.len = n - 1 /\ new.array = a
  BY <1>4, <1>5, <1>6 DEF Slices
<1>13. \A i \in 1 .. n : arrays[x][a][i] \in DOMAIN subs /\ i \in DOMAIN arrays[x][a]
  <2>1. \A m, l \in Nat : m <= l => \A i \in 1 .. m : i \in 1 .. l
    OBVIOUS
  <2> QED
    BY <1>5, <1>7, <1>9, <2>1
<1>14. swapped \in Arrays /\ Len(swapped) = Len(arrays[x][a])
  <2>1. arrays[x][a][n] \in Subs \cup {None} /\ f \in DOMAIN arrays[x][a]
    BY <1>4, <1>5, <1>9, <1>13, ElementOfSeq
  <2> QED
    BY <1>9, <2>1, ExceptSeq DEF Arrays
<1>15. shifted \in Arrays /\ Len(shifted) = Len(arrays[x][a])
  <2>1. \A i \in DOMAIN arrays[x][a] : (IF i \in f .. n - 1 THEN i + 1 ELSE i) \in DOMAIN arrays[x][a]
    BY <1>5, <1>7, <1>9
  <2>2. \A i \in DOMAIN arrays[x][a] : arrays[x][a][i] \in Subs \cup {None}
    BY <1>9, ElementOfSeq
  <2>3. shifted \in [1 .. Len(arrays[x][a]) -> Subs \cup {None}]
    BY <1>9, <2>1, <2>2
  <2> HIDE DEF shifted
  <2>4. shifted \in Seq(Subs \cup {None}) /\ DOMAIN shifted = 1 .. Len(arrays[x][a])
    BY <1>9, <2>3, SeqDef
  <2> QED
    BY <1>9, <2>4, LenProperties DEF Arrays
<1>16. \A i \in 1 .. n : i # f => \E j \in 1 .. n - 1 : array[j] = arrays[x][a][i]
  <2> SUFFICES ASSUME NEW i \in 1 .. n, i # f
               PROVE  \E j \in 1 .. n - 1 : array[j] = arrays[x][a][i]
    OBVIOUS
  <2>1. CASE call.locked /\ i = n
    <3>1. f \in 1 .. n - 1 /\ swapped[f] = arrays[x][a][n]
      BY <1>4, <1>5, <1>13, <2>1
    <3> QED
      BY <2>1, <3>1
  <2>2. CASE call.locked /\ i # n
    <3>1. i \in 1 .. n - 1 /\ swapped[i] = arrays[x][a][i]
      BY <1>5, <2>2
    <3> QED
      BY <2>2, <3>1
  <2>3. CASE ~call.locked /\ i < f
    <3>1. i \in 1 .. n - 1 /\ shifted[i] = arrays[x][a][i]
      BY <1>4, <1>5, <1>13, <2>3
    <3> QED
      BY <2>3, <3>1
  <2>4. CASE ~call.locked /\ i > f
    <3>1. i - 1 \in 1 .. n - 1 /\ i - 1 \in f .. n - 1 /\ i - 1 \in 1 .. n
      BY <1>4, <1>5, <2>4
    <3>2. i - 1 \in DOMAIN arrays[x][a] /\ i - 1 + 1 = i
      BY <1>5, <1>13, <3>1
    <3>3. shifted[i - 1] = arrays[x][a][i - 1 + 1]
      BY <3>1, <3>2
    <3> QED
      BY <2>4, <3>1, <3>2, <3>3
  <2> QED
    BY <1>4, <1>5, <2>1, <2>2, <2>3, <2>4
<1>17. \A i \in 1 .. Len(arrays[x][a]) : array[i] = arrays[x][a][i] \/ array[i] \in DOMAIN subs
  <2>1. \A i : swapped[i] = arrays[x][a][i] \/ swapped[i] \in DOMAIN subs
    <3>1. arrays[x][a][n] \in DOMAIN subs
      BY <1>4, <1>5, <1>13
    <3> QED
      BY <1>4, <1>13, <3>1
  <2>2. \A i \in 1 .. Len(arrays[x][a]) : shifted[i] = arrays[x][a][i] \/ shifted[i] \in DOMAIN subs
    <3>1. \A i \in f .. n - 1 : i + 1 \in 1 .. n
      BY <1>4, <1>5
    <3> QED
      BY <1>9, <1>13, <3>1
  <2> HIDE DEF swapped, shifted
  <2> QED
    BY <2>1, <2>2
<1>18. array \in Arrays /\ Len(array) = Len(arrays[x][a])
  <2> HIDE DEF swapped, shifted
  <2> QED
    BY <1>14, <1>15
<1> HIDE DEF array, new
<1>19. /\ arrays' \in [Symbols -> Seq(Arrays)]
       /\ \A y \in Symbols : DOMAIN arrays'[y] = DOMAIN arrays[y]
       /\ \A y \in Symbols : \A b : y # x \/ b # a => arrays'[y][b] = arrays[y][b]
       /\ arrays'[x][a] = array
  BY <1>8, <1>10, <1>18, OneArray
<1>20. \A y \in Symbols : y # x => arrays'[y] = arrays[y]
  BY <1>8, <1>10
<1>21. \A y \in Symbols : Grown(y)
  BY <1>11, <1>17, <1>18, <1>19 DEF Grown
<1>22. \A i \in 1 .. n : i # f => \E j \in 1 .. n - 1 : Cell(x, new, j)' = Cell(x, old, i)
  BY <1>6, <1>12, <1>16, <1>19 DEF Cell
<1> QED
  <2>1. TakesOut(c, x, old, new)
    BY <1>2, <1>3, <1>4, <1>6, <1>11, <1>12, <1>19, <1>20, <1>21, <1>22 DEF TakesOut
  <2> QED
    BY <1>12, <2>1

-----------------------------------------------------------------------------
(* The updates.                                                             *)

Updates == [data : Messages \cup {BlankData}, phase : {"intact", "resetting", "blank"}]

\* What is on its way to the DataProcessor was received; what it recycles it has
\* begun to blank.
UpdateInv ==
    /\ updates \in Seq(Updates)
    /\ feed \in Seq(DOMAIN updates)
    /\ DOMAIN dataProc = {"at", "update", "stop"}
    /\ dataProc.at \in {"booking", "recycling"} => dataProc.update \in DOMAIN updates
    /\ dataProc.at = "recycling" => updates[dataProc.update].phase # "intact"
    /\ DOMAIN consumer = {"at", "update", "symbol", "slice", "next", "sub", "due", "raced"}

LEMMA UpdateStep == UpdateInv /\ [Next]_vars => UpdateInv'
<1> SUFFICES ASSUME UpdateInv, [Next]_vars
             PROVE  UpdateInv'
  OBVIOUS
<1> USE DEF procVars, dpVars
<1>0. ASSUME UNCHANGED <<updates, feed, dataProc>>, DOMAIN consumer' = DOMAIN consumer
      PROVE  UpdateInv'
  BY <1>0 DEF UpdateInv
<1>w. DOMAIN Waiting = DOMAIN consumer
  BY DEF Waiting, UpdateInv
<1>g. ASSUME NEW at, Goes(at)
      PROVE  DOMAIN consumer' = DOMAIN consumer
  BY <1>g DEF Goes
<1>n. ASSUME NextSubscriber
      PROVE  DOMAIN consumer' = DOMAIN consumer
  BY <1>n, <1>w DEF NextSubscriber
<1>1. CASE UNCHANGED vars
  BY <1>0, <1>1 DEF vars
<1>2. CASE Stop
  BY <1>0, <1>2 DEF Stop
<1>3. CASE StopReturns
  BY <1>0, <1>3 DEF StopReturns
<1>4. CASE CleanUp
  BY <1>0, <1>4 DEF CleanUp
<1>5. CASE CancelStart
  BY <1>0, <1>5 DEF CancelStart
<1>6. CASE Wait
  BY <1>0, <1>g, <1>6 DEF Wait
<1>7. CASE PollFails \/ PollPanics
  BY <1>0, <1>g, <1>7 DEF PollFails, PollPanics
<1>8. CASE Receive
  <2>1. PICK data \in Messages :
              /\ updates' = Append(updates, [data |-> data, phase |-> "intact"])
              /\ consumer' = [Waiting EXCEPT !.at = "looking", !.update = Len(updates'),
                          !.due = {s \in DOMAIN subs : subs[s].active /\ Settled(s) /\ Matches(s, data)}]
    BY <1>8 DEF Receive
  <2>2. feed' = (IF Len(feed) < FeedCapacity THEN Append(feed, Len(updates')) ELSE feed) /\ UNCHANGED dataProc
    BY <1>8 DEF Receive
  <2>3. [data |-> data, phase |-> "intact"] \in Updates
    BY DEF Updates
  <2>4. /\ updates' \in Seq(Updates) /\ DOMAIN updates' = DOMAIN updates \cup {Len(updates')}
        /\ \A k \in DOMAIN updates : updates'[k] = updates[k]
    <3> DEFINE new == [data |-> data, phase |-> "intact"]
    <3>1. updates \in Seq(Updates) /\ new \in Updates
      BY <2>3 DEF UpdateInv
    <3>2. updates' = Append(updates, new)
      BY <2>1
    <3> HIDE DEF new
    <3>3. /\ updates' \in Seq(Updates) /\ Len(updates') = Len(updates) + 1
          /\ \A i \in 1 .. Len(updates) : updates'[i] = updates[i]
      BY <3>1, <3>2, AppendProperties
    <3>4. /\ DOMAIN updates = 1 .. Len(updates) /\ DOMAIN updates' = 1 .. Len(updates')
          /\ Len(updates) \in Nat
      BY <3>1, <3>3, LenProperties
    <3> QED
      BY <3>3, <3>4
  <2>5. feed' \in Seq(DOMAIN updates')
    <3>1. feed \in Seq(DOMAIN updates') /\ Len(updates') \in DOMAIN updates'
      BY <2>4 DEF UpdateInv
    <3> QED
      BY <2>2, <3>1, AppendProperties
  <2>6. DOMAIN consumer' = DOMAIN consumer
    BY <1>w, <2>1
  <2> QED
    BY <2>2, <2>4, <2>5, <2>6 DEF UpdateInv
<1>9. CASE Look
  <2>1. DOMAIN consumer' = DOMAIN consumer
    BY <1>w, <1>9 DEF Look
  <2> QED
    BY <1>0, <1>9, <2>1 DEF Look
<1>10. CASE Consider
  <2>1. DOMAIN consumer' = DOMAIN consumer
    BY <1>g, <1>n, <1>10 DEF Consider
  <2> QED
    BY <1>0, <1>10, <2>1 DEF Consider
<1>11. CASE Send
  <2>1. DOMAIN consumer' = DOMAIN consumer
    BY <1>n, <1>11 DEF Send
  <2> QED
    BY <1>0, <1>11, <2>1 DEF Send
<1>12. ASSUME NEW s \in Subs, Take(s)
       PROVE  UpdateInv'
  BY <1>0, <1>12 DEF Take
<1>13. ASSUME NEW c \in Callers,
              \/ \E s \in Subs : SubscribeUnlocked(c, s) \/ \E id \in Ids : Subscribe(c, s, id)
              \/ \E id \in Ids \cup Subs, locked \in BOOLEAN : Unsubscribe(c, id, locked)
              \/ CallStep(c)
       PROVE  UpdateInv'
  <2>1. UNCHANGED <<updates, feed, dataProc>>
    BY <1>13 DEF Subscribe, SubscribeUnlocked, Unsubscribe, CallStep, Register, Close, Delete,
                 Check, MakeEmpty, ReadList, AppendTo, Search, TakeOut, WriteBack
  <2>2. DOMAIN consumer' = DOMAIN consumer
    BY <1>13 DEF Subscribe, SubscribeUnlocked, Unsubscribe, CallStep, Register, Close, Delete,
                 Check, MakeEmpty, ReadList, AppendTo, Search, TakeOut, WriteBack
  <2> QED
    BY <1>0, <2>1, <2>2
<1>18. CASE StopDataProcessor
  BY <1>18 DEF StopDataProcessor, UpdateInv
<1>19. CASE DataProcessorEnds
  BY <1>19 DEF DataProcessorEnds, UpdateInv
<1>20. CASE TakeFromFeed
  <2>1. feed \in Seq(DOMAIN updates) /\ feed # <<>>
    BY <1>20 DEF TakeFromFeed, UpdateInv
  <2>2. Head(feed) \in DOMAIN updates /\ Tail(feed) \in Seq(DOMAIN updates)
    BY <2>1, HeadTailProperties
  <2> QED
    BY <1>20, <2>2 DEF TakeFromFeed, UpdateInv
<1>21. CASE Book
  <2>1. /\ dataProc.update \in DOMAIN updates /\ DOMAIN consumer' = DOMAIN consumer
        /\ DOMAIN dataProc' = DOMAIN dataProc /\ dataProc'.update = dataProc.update
    BY <1>21 DEF Book, UpdateInv
  <2>2. PICK k \in DOMAIN updates : k = dataProc.update
    BY <2>1
  <2>3. updates' = [updates EXCEPT ![k].phase = "resetting"] /\ UNCHANGED feed
    BY <1>21, <2>2 DEF Book
  <2>4. updates[k] \in Updates /\ [updates[k] EXCEPT !.phase = "resetting"] \in Updates
    <3>1. updates[k] \in Updates
      <4>1. updates \in Seq(Updates)
        BY DEF UpdateInv
      <4> QED
        BY <4>1, ElementOfSeq, LenProperties
    <3> QED
      BY <3>1 DEF Updates
  <2>5. /\ updates' \in Seq(Updates) /\ DOMAIN updates' = DOMAIN updates
        /\ updates'[k].phase = "resetting"
    <3> DEFINE new == [updates[k] EXCEPT !.phase = "resetting"]
    <3>1. new.phase = "resetting" /\ new \in Updates
      BY <2>4 DEF Updates
    <3>2. updates' = [updates EXCEPT ![k] = new]
      BY <2>3
    <3> HIDE DEF new
    <3>3. updates \in Seq(Updates)
      BY DEF UpdateInv
    <3>4. updates' \in Seq(Updates)
      BY <3>1, <3>2, <3>3, ExceptSeq
    <3> QED
      BY <3>1, <3>2, <3>4
  <2> QED
    BY <2>1, <2>2, <2>3, <2>5 DEF UpdateInv
<1>22. CASE Recycle
  <2>1. PICK k \in DOMAIN updates : k = dataProc.update
    BY <1>22 DEF Recycle, UpdateInv
  <2>2. PICK new \in Updates : updates' = [updates EXCEPT ![k] = new]
    BY <1>22, <2>1 DEF Recycle, Updates
  <2>3. updates \in Seq(Updates)
    BY DEF UpdateInv
  <2>4. updates' \in Seq(Updates) /\ DOMAIN updates' = DOMAIN updates
    BY <2>2, <2>3, ExceptSeq
  <2>5. DOMAIN dataProc' = DOMAIN dataProc /\ dataProc'.at = "waiting" /\ UNCHANGED <<feed, consumer>>
    BY <1>22 DEF Recycle, UpdateInv
  <2> QED
    BY <2>4, <2>5 DEF UpdateInv
<1> QED
  BY <1>1, <1>2, <1>3, <1>4, <1>5, <1>6, <1>7, <1>8, <1>9, <1>10, <1>11, <1>12, <1>13,
     <1>18, <1>19, <1>20, <1>21, <1>22
     DEF Next, ConsumerStep, DataProcessorStep

-----------------------------------------------------------------------------
(* What the maps hold is kept.                                              *)

LEMMA NoWrites ==
    ASSUME UNCHANGED arrays
    PROVE  \A x : Grown(x)
BY DEF Grown

LEMMA ListsStay ==
    ASSUME ListTypes, SubsKept, UNCHANGED listed, arrays' \in [Symbols -> Seq(Arrays)], \A x \in Symbols : Grown(x)
    PROVE  ListTypes'
<1>1. ASSUME NEW x \in DOMAIN listed
      PROVE  listed[x] \in Slices /\ Proper(x, listed[x])'
  <2>1. x \in Symbols /\ Proper(x, listed[x])
    BY DEF ListTypes
  <2>2. PICK slice \in Slices : slice = listed[x]
    BY DEF ListTypes
  <2>3. Proper(x, slice)'
    BY <2>1, <2>2, StaysProper
  <2>4. listed'[x] = slice
    BY <2>2
  <2> QED
    BY <2>2, <2>3, <2>4
<1> QED
  BY <1>1 DEF ListTypes

\* a slice is put into SymbolSubscriptions
LEMMA ListsPut ==
    ASSUME ListTypes, SubsKept, UNCHANGED arrays, NEW x \in Symbols, NEW slice \in Slices, Proper(x, slice)',
           listed' = Put(listed, x, slice)
    PROVE  ListTypes'
<1>1. /\ DOMAIN listed' = DOMAIN listed \cup {x} /\ listed'[x] = slice
      /\ \A y \in DOMAIN listed \ {x} : listed'[y] = listed[y]
  BY DEF Put
<1>2. ASSUME NEW y \in DOMAIN listed \ {x}
      PROVE  listed'[y] \in Slices /\ Proper(y, listed[y])'
  <2>1. y \in Symbols /\ Proper(y, listed[y])
    BY DEF ListTypes
  <2>2. PICK old \in Slices : old = listed[y]
    BY DEF ListTypes
  <2>3. Proper(y, old)'
    BY <2>1, <2>2, NoWrites, StaysProper
  <2>4. listed'[y] = old
    BY <1>1, <2>2
  <2> QED
    BY <2>2, <2>3, <2>4
<1>3. Proper(x, listed[x])' /\ listed'[x] \in Slices
  BY <1>1
<1>4. arrays' \in [Symbols -> Seq(Arrays)] /\ DOMAIN listed' \subseteq Symbols
  BY <1>1 DEF ListTypes
<1> QED
  BY <1>1, <1>2, <1>3, <1>4 DEF ListTypes

\* a step of no call
LEMMA ElseSame ==
    ASSUME SubTypes, SameSubs, UNCHANGED <<byID, listed, arrays, calls>>,
           Distributing' => Distributing \/ \A c \in Callers : ~calls[c].locked
    PROVE  SubTypes' /\ SubsKept
<1>1. SubsKept /\ DOMAIN subs' \subseteq Subs /\ Formed'
  BY SameSubsKept DEF SubTypes
<1>2. MapTypes'
  BY <1>1 DEF SubTypes, MapTypes, SameSubs
<1>3. ListTypes'
  BY <1>1, NoWrites, ListsStay DEF SubTypes, ListTypes
<1>4. CallTypes'
  <2>1. ASSUME NEW c \in Callers
        PROVE  /\ Shaped(calls[c])' /\ Sound(calls[c])'
               /\ calls'[c].at \in Holding => Proper(Symbol(c), calls[c].slice)'
    <3>1. PICK call \in Calls : call = calls[c]
      BY DEF SubTypes, CallTypes
    <3>2. calls'[c] = call /\ Shaped(call) /\ Sound(call)
      BY <3>1 DEF SubTypes, CallTypes
    <3>3. Sound(call)'
      BY <1>1, <3>1, <3>2 DEF Sound, SubsKept
    <3>4. ASSUME call.at \in Holding
          PROVE  Proper(Head(call.left), call.slice)'
      <4>1. call.left \in Seq(Symbols) /\ call.left # <<>>
        BY <3>2, <3>4 DEF Calls, Shaped, Holding, AtList
      <4>2. Head(call.left) \in Symbols
        BY <4>1, HeadTailProperties
      <4>3. call.slice \in Slices /\ Proper(Head(call.left), call.slice)
        BY <3>1, <3>4 DEF Calls, SubTypes, CallTypes, Symbol
      <4> QED
        BY <1>1, <4>2, <4>3, NoWrites, StaysProper DEF SubTypes
    <3> QED
      BY <3>2, <3>3, <3>4 DEF Symbol
  <2>2. calls' \in [Callers -> Calls]
    BY DEF SubTypes, CallTypes
  <2> QED
    BY <2>1, <2>2 DEF CallTypes
<1> QED
  BY <1>1, <1>2, <1>3, <1>4 DEF SubTypes

\* a step of a call that writes into no list
LEMMA CallAlone ==
    ASSUME SubTypes, SubsKept, MapTypes', UNCHANGED <<listed, arrays, consumer>>, NEW c \in Callers, NEW new \in Calls,
           calls' = [calls EXCEPT ![c] = new], Shaped(new), Sound(new)',
           new.at \in Holding => Proper(Head(new.left), new.slice)
    PROVE  SubTypes'
<1>1. ListTypes'
  BY NoWrites, ListsStay DEF SubTypes, ListTypes
<1>2. Distributing' => Distributing
  BY DEF Distributing
<1>3. ASSUME new.at \in Holding
      PROVE  Proper(Head(new.left), new.slice)'
  <2>1. new.left # <<>> /\ new.left \in Seq(Symbols)
    BY <1>3 DEF Shaped, Holding, AtList, Calls
  <2>2. Head(new.left) \in Symbols /\ new.slice \in Slices
    BY <2>1, HeadTailProperties DEF Calls
  <2> QED
    BY <1>3, <2>2, NoWrites, StaysProper DEF SubTypes
<1>4. CallTypes'
  BY <1>2, <1>3, NoWrites, CallMoves DEF SubTypes
<1> QED
  BY <1>1, <1>4 DEF SubTypes

\* Subscribe begins
LEMMA SubscribeTypes ==
    ASSUME SubTypes, NEW c \in Callers, NEW s \in Subs, NEW id \in Ids \cup Subs, NEW new \in Calls,
           s \notin DOMAIN subs, subs' = Put(subs, s, Subscription(id)), calls' = [calls EXCEPT ![c] = new],
           UNCHANGED <<byID, listed, arrays, consumer>>, Shaped(new), new.at \notin Holding,
           new = Idle \/ (new.op = "subscribe" /\ new.sub = s /\ new.id = id /\ (new.locked => ~Distributing))
    PROVE  SubTypes' /\ SubsKept
<1>1. /\ DOMAIN subs' = DOMAIN subs \cup {s} /\ \A t \in DOMAIN subs : subs'[t] = subs[t]
      /\ subs'[s] = Subscription(id)
  BY DEF Put
<1>2. /\ DOMAIN Subscription(id) = {"id", "active", "open", "queued"}
      /\ Subscription(id).id = id /\ Subscription(id).active /\ Subscription(id).open
  BY DEF Subscription
<1>3. SubsKept
  BY <1>1 DEF SubsKept
<1>4. MapTypes'
  BY <1>1, <1>2 DEF SubTypes, MapTypes, Formed
<1>5. Sound(new)'
  BY <1>1, <1>2 DEF Sound, Idle, Distributing
<1> QED
  BY <1>3, <1>4, <1>5, CallAlone

LEMMA CloseTypes ==
    ASSUME SubTypes, NEW c \in Callers, Close(c)
    PROVE  SubTypes' /\ SubsKept
<1>1. PICK call \in Calls : call = calls[c]
  BY DEF SubTypes, CallTypes
<1>2. Shaped(call) /\ Sound(call) /\ call.at = "closing"
  BY <1>1 DEF SubTypes, CallTypes, Close
<1>3. PICK s \in DOMAIN subs : s = call.sub
  BY <1>2 DEF Shaped, Sound
<1>4. UNCHANGED <<byID, listed, arrays, consumer>>
  BY DEF Close, procVars
<1>5. CASE subs[s].open
  <2> DEFINE new == [call EXCEPT !.at = "deleting"]
  <2>1. /\ subs' = [subs EXCEPT ![s] = [subs[s] EXCEPT !.active = FALSE, !.open = FALSE, !.queued = 0]]
        /\ calls' = [calls EXCEPT ![c] = new]
    BY <1>1, <1>3, <1>5 DEF Close
  <2>2. DOMAIN subs[s] = {"id", "active", "open", "queued"}
    BY DEF SubTypes, MapTypes, Formed
  <2>3. /\ DOMAIN subs' = DOMAIN subs /\ \A t \in DOMAIN subs \ {s} : subs'[t] = subs[t]
        /\ DOMAIN subs'[s] = {"id", "active", "open", "queued"} /\ subs'[s].id = subs[s].id /\ ~subs'[s].active
    BY <2>1, <2>2
  <2>4. SubsKept
    BY <2>3 DEF SubsKept
  <2>5. MapTypes'
    BY <1>4, <2>3 DEF SubTypes, MapTypes, Formed
  <2>6. /\ new \in Calls /\ Shaped(new) /\ new.at \notin Holding /\ new.sub = s /\ new.id = call.id
        /\ new.locked = call.locked
    BY <1>2, <1>3 DEF Calls, Shaped, Phases, AtList, Holding
  <2>7. Sound(new)'
    BY <1>2, <1>3, <1>4, <2>3, <2>6 DEF Sound, Shaped, Distributing
  <2> HIDE DEF new
  <2> QED
    BY <1>4, <2>1, <2>4, <2>5, <2>6, <2>7, CallAlone
<1>6. CASE ~subs[s].open
  <2>1. UNCHANGED <<subs, calls>>
    BY <1>1, <1>3, <1>6 DEF Close
  <2>2. SameSubs
    BY <2>1 DEF SameSubs
  <2> QED
    BY <1>4, <2>1, <2>2, ElseSame DEF Distributing
<1> QED
  BY <1>5, <1>6

\* what a step that goes on to another phase does, if it leaves subscriptions alone
LEMMA OnwardTypes ==
    ASSUME SubTypes, NEW c \in Callers, NEW call \in Calls, NEW new \in Calls, call = calls[c],
           UNCHANGED <<subs, listed, arrays, consumer>>, calls' = [calls EXCEPT ![c] = new], Shaped(new),
           \A id \in DOMAIN byID' : id \in Ids \cup Subs /\ byID'[id] \in DOMAIN subs /\ subs[byID'[id]].id = id,
           \/ new = Idle
           \/ /\ new.op = call.op /\ new.sub = call.sub /\ new.id = call.id /\ new.locked = call.locked
              /\ call.op # "none" /\ call.at # "closing",
           new.at \in Holding => Proper(Head(new.left), new.slice)
    PROVE  SubTypes' /\ SubsKept
<1>1. SameSubs
  BY DEF SameSubs
<1>2. SubsKept /\ DOMAIN subs' \subseteq Subs /\ Formed'
  BY <1>1, SameSubsKept DEF SubTypes
<1>3. MapTypes'
  BY <1>2 DEF MapTypes
<1>4. Sound(call)
  BY DEF SubTypes, CallTypes
<1>5. Sound(new)'
  BY <1>4 DEF Sound, Distributing, Idle
<1> QED
  BY <1>2, <1>3, <1>5, CallAlone

\* a call that has a list in hand works on one of its symbols
LEMMA HeldSymbol ==
    ASSUME NEW call \in Calls, Shaped(call), call.at \in AtList
    PROVE  call.left \in Seq(Symbols) /\ call.left # <<>> /\ Head(call.left) \in Symbols
<1>1. call.left \in Seq(Symbols) /\ call.left # <<>>
  BY DEF Calls, Shaped
<1> QED
  BY <1>1, HeadTailProperties

\* A finite set of numbers has a least one.
LEMMA LeastOne ==
    ASSUME NEW S \in SUBSET Nat, IsFiniteSet(S), S # {}
    PROVE  \E m \in S : \A x \in S : m <= x
<1> DEFINE Below(x) == {y \in S : y < x}
           R == StrictSubsetOrdering(S)
<1>1. IsWellFoundedOn(R, SUBSET S)
  BY FS_StrictSubsetOrderingWellFounded, FS_FiniteSubsetsOfFinite
<1>2. PICK U \in {Below(x) : x \in S} : \A V \in {Below(x) : x \in S} : ~(<<V, U>> \in R)
  <2>1. {Below(x) : x \in S} \subseteq SUBSET S /\ {Below(x) : x \in S} # {}
    OBVIOUS
  <2> HIDE DEF R, Below
  <2> QED
    BY <1>1, <2>1, WFMin
<1>3. PICK m \in S : U = Below(m)
  BY <1>2
<1>4. ASSUME NEW x \in S, x < m
      PROVE  FALSE
  <2>1. \A y \in S : (y < x => y < m) /\ ~(x < x)
    BY <1>4
  <2>2. Below(x) \subseteq Below(m) /\ x \in Below(m) /\ x \notin Below(x)
    BY <1>4, <2>1
  <2>3. <<Below(x), Below(m)>> \in R
    BY <2>2 DEF StrictSubsetOrdering
  <2> QED
    BY <1>2, <1>3, <2>3
<1> QED
  BY <1>4

\* The first element that has the id is one of them.
LEMMA SearchFinds ==
    ASSUME NEW n \in Nat, NEW P \in SUBSET (1 .. n), P # {}
    PROVE  Min(P) \in P
<1>1. P \in SUBSET Nat /\ IsFiniteSet(P)
  <2>1. IsFiniteSet(1 .. n) /\ P \in SUBSET (1 .. n)
    BY FS_Interval
  <2>2. IsFiniteSet(P)
    BY <2>1, FS_Subset
  <2> QED
    BY <2>2
<1>2. \E m \in P : \A x \in P : m <= x
  BY <1>1, LeastOne
<1> QED
  BY <1>2 DEF Min

LEMMA UnsubscribeTypes ==
    ASSUME SubTypes, NEW c \in Callers, NEW id \in Ids \cup Subs, NEW locked \in BOOLEAN, Unsubscribe(c, id, locked)
    PROVE  SubTypes' /\ SubsKept
<1>1. byID[id] \in DOMAIN subs /\ subs[byID[id]].id = id /\ id \in DOMAIN byID
  BY DEF Unsubscribe, SubTypes, MapTypes
<1>2. PICK s \in Subs : s = byID[id] /\ s \in DOMAIN subs /\ subs[s].id = id
  BY <1>1 DEF SubTypes, MapTypes
<1> DEFINE new == Call("unsubscribe", locked, "closing", s, id)
<1>3. calls' = [calls EXCEPT ![c] = new] /\ UNCHANGED <<subs, byID, listed, arrays, consumer>>
  BY <1>2 DEF Unsubscribe, procVars
<1>4. /\ new \in Calls /\ Shaped(new) /\ new.at \notin Holding /\ new.op = "unsubscribe" /\ new.at = "closing"
      /\ new.sub = s /\ new.id = id /\ new.locked = locked
  <2>1. Requests[s].symbols \in Seq(Symbols)
    BY RequestsAssumption
  <2> QED
    BY <2>1 DEF Call, Idle, Empty, Slices, Calls, Shaped, Phases, AtList, Holding
<1>5. locked => ~Distributing
  BY DEF Unsubscribe, MutexFree
<1> HIDE DEF new
<1>6. Sound(new)'
  BY <1>2, <1>3, <1>4, <1>5 DEF Sound, Distributing
<1>7. SubsKept
  BY <1>3 DEF SubsKept
<1>8. MapTypes'
  BY <1>3 DEF SubTypes, MapTypes, Formed
<1> QED
  BY <1>3, <1>4, <1>6, <1>7, <1>8, CallAlone

LEMMA RegisterTypes ==
    ASSUME SubTypes, NEW c \in Callers, Register(c)
    PROVE  SubTypes' /\ SubsKept
<1>1. PICK call \in Calls : call = calls[c]
  BY DEF SubTypes, CallTypes
<1>2. Shaped(call) /\ Sound(call) /\ call.at = "registering"
  BY <1>1 DEF SubTypes, CallTypes, Register
<1>3. call.op = "subscribe" /\ call.sub \in DOMAIN subs /\ subs[call.sub].id = call.id /\ call.id \in Ids \cup Subs
  BY <1>2 DEF Shaped, Sound
<1> DEFINE new == IF call.locked THEN Turn(call) ELSE Idle
<1>4. byID' = Put(byID, call.id, call.sub) /\ calls' = [calls EXCEPT ![c] = new] /\ UNCHANGED <<subs, listed, arrays, consumer>>
  BY <1>1 DEF Register, procVars
<1>5. \A id \in DOMAIN byID' : id \in Ids \cup Subs /\ byID'[id] \in DOMAIN subs /\ subs[byID'[id]].id = id
  BY <1>3, <1>4 DEF Put, SubTypes, MapTypes
<1>6. /\ new \in Calls /\ Shaped(new) /\ new.at \notin Holding
      /\ new = Idle \/ (new.op = call.op /\ new.sub = call.sub /\ new.id = call.id /\ new.locked = call.locked)
  <2>1. CASE call.locked
    BY <1>3, <2>1, TurnShaped
  <2>2. CASE ~call.locked
    <3>1. new = Idle
      BY <2>2
    <3>2. Idle \in Calls /\ Shaped(Idle) /\ Idle.at = "idle"
      BY DEF Idle, Empty, Slices, Calls, Phases, AtList, Shaped
    <3> QED
      BY <3>1, <3>2 DEF Holding
  <2> QED
    BY <2>1, <2>2
<1> HIDE DEF new
<1> QED
  BY <1>1, <1>2, <1>3, <1>4, <1>5, <1>6, OnwardTypes

LEMMA DeleteTypes ==
    ASSUME SubTypes, NEW c \in Callers, Delete(c)
    PROVE  SubTypes' /\ SubsKept
<1>1. PICK call \in Calls : call = calls[c]
  BY DEF SubTypes, CallTypes
<1>2. Shaped(call) /\ Sound(call) /\ call.at = "deleting"
  BY <1>1 DEF SubTypes, CallTypes, Delete
<1>3. call.op = "unsubscribe"
  BY <1>2 DEF Shaped
<1> DEFINE new == Turn(call)
<1>4. /\ byID' = [id \in DOMAIN byID \ {call.id} |-> byID[id]]
      /\ calls' = [calls EXCEPT ![c] = new] /\ UNCHANGED <<subs, listed, arrays, consumer>>
  BY <1>1 DEF Delete, procVars
<1>5. \A id \in DOMAIN byID' : id \in Ids \cup Subs /\ byID'[id] \in DOMAIN subs /\ subs[byID'[id]].id = id
  BY <1>4 DEF SubTypes, MapTypes
<1>6. /\ new \in Calls /\ Shaped(new) /\ new.at \notin Holding
      /\ new = Idle \/ (new.op = call.op /\ new.sub = call.sub /\ new.id = call.id /\ new.locked = call.locked)
  BY <1>3, TurnShaped
<1> HIDE DEF new
<1> QED
  BY <1>1, <1>2, <1>3, <1>4, <1>5, <1>6, OnwardTypes

\* Check and MakeEmpty, when they but go on, ReadList and Search
LEMMA LookupTypes ==
    ASSUME SubTypes, NEW c \in Callers,
           \/ Check(c)
           \/ ReadList(c)
           \/ Search(c)
    PROVE  SubTypes' /\ SubsKept
<1>1. PICK call \in Calls : call = calls[c]
  BY DEF SubTypes, CallTypes
<1>2. Shaped(call) /\ Sound(call) /\ call.at \in {"checking", "reading", "searching"}
  BY <1>1 DEF SubTypes, CallTypes, Check, ReadList, Search
<1>3. call.op \in {"subscribe", "unsubscribe"} /\ call.at \in AtList
  BY <1>2 DEF Shaped, Calls, AtList
<1>4. call.left \in Seq(Symbols) /\ call.left # <<>> /\ Head(call.left) \in Symbols
  BY <1>2, <1>3, HeldSymbol
<1>5. UNCHANGED <<subs, byID, listed, arrays, consumer>>
  BY DEF Check, ReadList, Search, procVars
<1>6. \A id \in DOMAIN byID' : id \in Ids \cup Subs /\ byID'[id] \in DOMAIN subs /\ subs[byID'[id]].id = id
  BY <1>5 DEF SubTypes, MapTypes
<1> DEFINE Fine(new) ==
       /\ new \in Calls /\ Shaped(new) /\ calls' = [calls EXCEPT ![c] = new]
       /\ new = Idle \/ (new.op = call.op /\ new.sub = call.sub /\ new.id = call.id /\ new.locked = call.locked)
       /\ new.at \in Holding => Proper(Head(new.left), new.slice)
<1>7. CASE Check(c)
  <2>1. call.at = "checking" /\ call.op = "subscribe"
    BY <1>1, <1>2, <1>7 DEF Check, Shaped
  <2>2. PICK at \in {"reading", "emptying"} : calls' = [calls EXCEPT ![c] = [call EXCEPT !.at = at]]
    <3>1. CASE Symbol(c) \in DOMAIN listed
      BY <1>1, <1>7, <3>1 DEF Check
    <3>2. CASE Symbol(c) \notin DOMAIN listed
      BY <1>1, <1>7, <3>2 DEF Check, Takes
    <3> QED
      BY <3>1, <3>2
  <2> DEFINE new == [call EXCEPT !.at = at]
  <2>3. Fine(new)
    BY <1>2, <2>1, <2>2 DEF Calls, Shaped, Phases, AtList, Holding
  <2> HIDE DEF new
  <2> QED
    BY <1>1, <1>2, <1>3, <1>5, <1>6, <2>3, OnwardTypes
<1>8. CASE ReadList(c)
  <2>1. call.at = "reading"
    BY <1>1, <1>8 DEF ReadList
  <2>2. PICK slice : slice = IF Head(call.left) \in DOMAIN listed THEN listed[Head(call.left)] ELSE Empty
    OBVIOUS
  <2>3. slice \in Slices /\ Proper(Head(call.left), slice)
    <3>1. Empty \in Slices /\ Proper(Head(call.left), Empty)
      BY DEF Empty, Slices, Proper
    <3> QED
      BY <2>2, <3>1 DEF SubTypes, ListTypes
  <2> DEFINE new == [call EXCEPT !.at = IF call.op = "subscribe" THEN "appending" ELSE "searching", !.slice = slice]
  <2>4. calls' = [calls EXCEPT ![c] = new]
    BY <1>1, <1>8, <2>2 DEF ReadList, Takes, Symbol
  <2>5. Fine(new)
    <3>1. new \in Calls /\ new.left = call.left /\ new.slice = slice /\ new.op = call.op /\ new.sub = call.sub
          /\ new.id = call.id /\ new.locked = call.locked
      BY <2>3 DEF Calls, Phases, AtList
    <3>2. Shaped(new)
      BY <1>2, <1>3, <1>4 DEF Shaped, AtList, Calls
    <3> HIDE DEF new
    <3> QED
      BY <2>3, <2>4, <3>1, <3>2
  <2> HIDE DEF new
  <2> QED
    BY <1>1, <1>2, <1>3, <1>5, <1>6, <2>5, OnwardTypes
<1>9. CASE Search(c)
  <2>1. call.at = "searching" /\ call.op = "unsubscribe"
    BY <1>1, <1>2, <1>9 DEF Search, Shaped
  <2> DEFINE has == {i \in 1 .. call.slice.len : subs[Cell(Symbol(c), call.slice, i)].id = call.id}
  <2>2. CASE has = {}
    <3> DEFINE new == Through(call)
    <3>1. calls' = [calls EXCEPT ![c] = new]
      BY <1>1, <1>9, <2>2 DEF Search
    <3>2. Fine(new)
      <4>1. /\ new \in Calls /\ Shaped(new) /\ new.at \notin Holding
            /\ new = Idle \/ (new.op = call.op /\ new.sub = call.sub /\ new.id = call.id /\ new.locked = call.locked)
        BY <1>3, <1>4, ThroughShaped
      <4> HIDE DEF new
      <4> QED
        BY <3>1, <4>1
    <3> HIDE DEF new
    <3> QED
      BY <1>1, <1>2, <1>3, <1>5, <1>6, <3>2, OnwardTypes
  <2>3. CASE has # {}
    <3>1. PICK m \in has : m = Min(has)
      <4>1. call.slice.len \in Nat /\ has \in SUBSET (1 .. call.slice.len)
        BY DEF Calls, Slices
      <4> HIDE DEF has
      <4> QED
        BY <2>3, <4>1, SearchFinds
    <3> DEFINE new == [call EXCEPT !.at = "removing", !.found = m]
    <3>2. calls' = [calls EXCEPT ![c] = new]
      BY <1>1, <1>9, <2>3, <3>1 DEF Search
    <3>3. m \in 1 .. call.slice.len /\ m \in Nat
      BY <3>1
    <3>4. /\ new \in Calls /\ new.left = call.left /\ new.slice = call.slice /\ new.op = call.op /\ new.sub = call.sub
          /\ new.id = call.id /\ new.locked = call.locked
      BY <3>3 DEF Calls, Phases, AtList
    <3>5. Shaped(new)
      BY <1>4, <2>1, <3>3 DEF Shaped, AtList, Calls
    <3>6. Proper(Head(call.left), call.slice)
      BY <1>1, <2>1 DEF SubTypes, CallTypes, Holding, Symbol
    <3>7. Fine(new)
      <4> HIDE DEF new
      <4> QED
        BY <3>2, <3>4, <3>5, <3>6
    <3> HIDE DEF new
    <3> QED
      BY <1>1, <1>2, <1>3, <1>5, <1>6, <3>7, OnwardTypes
  <2> QED
    BY <2>2, <2>3
<1> QED
  BY <1>7, <1>8, <1>9

LEMMA MakeEmptyTypes ==
    ASSUME SubTypes, NEW c \in Callers, MakeEmpty(c)
    PROVE  SubTypes' /\ SubsKept
<1>1. PICK call \in Calls : call = calls[c]
  BY DEF SubTypes, CallTypes
<1>2. Shaped(call) /\ Sound(call) /\ call.at = "emptying"
  BY <1>1 DEF SubTypes, CallTypes, MakeEmpty
<1>3. call.op = "subscribe" /\ call.left # <<>>
  BY <1>2 DEF Shaped, AtList
<1>4. PICK x \in Symbols : x = Symbol(c)
  BY <1>1, <1>2, HeldSymbol DEF AtList, Symbol
<1> DEFINE new == [call EXCEPT !.at = "reading"]
<1>5. listed' = Put(listed, x, Empty) /\ calls' = [calls EXCEPT ![c] = new] /\ UNCHANGED <<subs, byID, arrays, consumer>>
  BY <1>1, <1>4 DEF MakeEmpty, procVars
<1>6. SubsKept /\ MapTypes' /\ (Distributing' => Distributing)
  BY <1>5 DEF SubsKept, SubTypes, MapTypes, Formed, Distributing
<1>7. Empty \in Slices /\ Proper(x, Empty)'
  BY DEF Empty, Slices, Proper
<1>8. ListTypes'
  BY <1>5, <1>6, <1>7, ListsPut DEF SubTypes
<1>9. /\ new \in Calls /\ Shaped(new) /\ new.at \notin Holding /\ new.op = call.op /\ new.sub = call.sub
      /\ new.id = call.id /\ new.locked = call.locked
  BY <1>2, <1>3 DEF Calls, Shaped, Phases, AtList, Holding
<1> HIDE DEF new
<1>10. Sound(new)'
  BY <1>2, <1>3, <1>5, <1>6, <1>9 DEF Sound
<1>11. CallTypes'
  BY <1>5, <1>6, <1>9, <1>10, NoWrites, CallMoves DEF SubTypes
<1> QED
  BY <1>6, <1>8, <1>11 DEF SubTypes

LEMMA WriteBackTypes ==
    ASSUME SubTypes, NEW c \in Callers, WriteBack(c)
    PROVE  SubTypes' /\ SubsKept
<1>1. PICK call \in Calls : call = calls[c]
  BY DEF SubTypes, CallTypes
<1>2. Shaped(call) /\ Sound(call) /\ call.at = "writing"
  BY <1>1 DEF SubTypes, CallTypes, WriteBack
<1>3. call.op \in {"subscribe", "unsubscribe"} /\ call.left # <<>>
  BY <1>2 DEF Shaped, AtList, Calls
<1>4. PICK x \in Symbols : x = Symbol(c)
  BY <1>1, <1>2, HeldSymbol DEF AtList, Symbol
<1>5. PICK slice \in Slices : slice = call.slice
  BY DEF Calls
<1> DEFINE new == Through(call)
<1>6. listed' = Put(listed, x, slice) /\ calls' = [calls EXCEPT ![c] = new] /\ UNCHANGED <<subs, byID, arrays, consumer>>
  BY <1>1, <1>4, <1>5 DEF WriteBack, procVars
<1>7. SubsKept /\ MapTypes' /\ (Distributing' => Distributing)
  BY <1>6 DEF SubsKept, SubTypes, MapTypes, Formed, Distributing
<1>8. Proper(x, slice)
  BY <1>1, <1>2, <1>4, <1>5 DEF SubTypes, CallTypes, Holding
<1>9. Proper(x, slice)'
  BY <1>6, <1>7, <1>8, NoWrites, StaysProper DEF SubTypes
<1>10. ListTypes'
  BY <1>6, <1>7, <1>9, ListsPut DEF SubTypes
<1>11. /\ new \in Calls /\ Shaped(new) /\ new.at \notin Holding \cup {"closing"}
       /\ new = Idle \/ (new.op = call.op /\ new.sub = call.sub /\ new.id = call.id /\ new.locked = call.locked)
  BY <1>3, ThroughShaped
<1> HIDE DEF new
<1>12. Sound(new)'
  BY <1>2, <1>3, <1>6, <1>7, <1>11 DEF Sound, Idle
<1>13. CallTypes'
  BY <1>6, <1>7, <1>11, <1>12, NoWrites, CallMoves DEF SubTypes
<1> QED
  BY <1>7, <1>10, <1>13 DEF SubTypes

LEMMA AppendTypes ==
    ASSUME SubTypes, NEW c \in Callers, AppendTo(c)
    PROVE  SubTypes' /\ SubsKept
<1>1. PICK call \in Calls : call = calls[c]
  BY DEF SubTypes, CallTypes
<1>2. Shaped(call) /\ Sound(call) /\ call.at = "appending"
  BY <1>1 DEF SubTypes, CallTypes, AppendTo
<1>3. PICK x \in Symbols, old \in Slices, slice \in Slices : Appends(c, x, old, slice)
  BY AppendWrites
<1> DEFINE new == [call EXCEPT !.at = "writing", !.slice = slice]
<1>4. calls' = [calls EXCEPT ![c] = new] /\ UNCHANGED <<subs, byID, listed, consumer>>
  BY <1>1, <1>3 DEF AppendTo, Appends, procVars
<1>5. SubsKept /\ MapTypes' /\ (Distributing' => Distributing)
  BY <1>4 DEF SubsKept, SubTypes, MapTypes, Formed, Distributing
<1>6. arrays' \in [Symbols -> Seq(Arrays)] /\ \A y \in Symbols : Grown(y)
  BY <1>3 DEF Appends
<1>7. ListTypes'
  BY <1>4, <1>5, <1>6, ListsStay DEF SubTypes
<1>8. Proper(x, old)
  BY <1>1, <1>2, <1>3 DEF Appends, SubTypes, CallTypes, Holding
<1>9. Proper(x, slice)'
  <2>1. \A i \in 1 .. old.len : arrays'[x][slice.array][i] \in DOMAIN subs'
    BY <1>3, <1>4, <1>8 DEF Appends, Proper
  <2>2. arrays'[x][slice.array][slice.len] \in DOMAIN subs'
    BY <1>3, <1>4 DEF Appends
  <2>3. slice.len = old.len + 1 /\ old.len \in Nat
    BY <1>3 DEF Appends, Slices
  <2>4. \A i \in 1 .. slice.len : arrays'[x][slice.array][i] \in DOMAIN subs'
    <3>1. \A i \in 1 .. slice.len : i \in 1 .. old.len \/ i = slice.len
      BY <2>3
    <3> QED
      BY <2>1, <2>2, <3>1
  <2>5. slice.array \in DOMAIN arrays'[x] /\ slice.len <= Len(arrays'[x][slice.array]) /\ slice.array # 0
    BY <1>3 DEF Appends
  <2> QED
    BY <2>4, <2>5 DEF Proper, Cell
<1>10. Head(call.left) = x
  BY <1>1, <1>3 DEF Appends, Symbol
<1>11. /\ new \in Calls /\ Shaped(new) /\ new.op = call.op /\ new.sub = call.sub
       /\ new.id = call.id /\ new.locked = call.locked /\ new.left = call.left /\ new.slice = slice
  BY <1>2 DEF Calls, Shaped, Phases, AtList
<1> HIDE DEF new
<1>12. Sound(new)'
  BY <1>2, <1>4, <1>5, <1>11 DEF Sound, Shaped
<1>13. CallTypes'
  BY <1>4, <1>5, <1>6, <1>9, <1>10, <1>11, <1>12, CallMoves DEF SubTypes
<1> QED
  BY <1>5, <1>7, <1>13 DEF SubTypes

LEMMA TakeOutTypes ==
    ASSUME SubTypes, UpdateInv, NEW c \in Callers, TakeOut(c)
    PROVE  SubTypes' /\ SubsKept
<1>1. PICK call \in Calls : call = calls[c]
  BY DEF SubTypes, CallTypes
<1>2. Shaped(call) /\ Sound(call) /\ call.at = "removing"
  BY <1>1 DEF SubTypes, CallTypes, TakeOut
<1>3. PICK x \in Symbols, old \in Slices, slice \in Slices : TakesOut(c, x, old, slice)
  BY TakeOutWrites
<1> DEFINE new == [call EXCEPT !.at = "writing", !.slice = slice]
<1>4. calls' = [calls EXCEPT ![c] = new] /\ UNCHANGED <<subs, byID, listed>> /\ consumer'.at = consumer.at
  BY <1>1, <1>3 DEF TakeOut, TakesOut, UpdateInv
<1>5. SubsKept /\ MapTypes' /\ (Distributing' => Distributing)
  BY <1>4 DEF SubsKept, SubTypes, MapTypes, Formed, Distributing
<1>6. arrays' \in [Symbols -> Seq(Arrays)] /\ \A y \in Symbols : Grown(y)
  BY <1>3 DEF TakesOut
<1>7. ListTypes'
  BY <1>4, <1>5, <1>6, ListsStay DEF SubTypes
<1>8. Proper(x, old)
  BY <1>1, <1>2, <1>3 DEF TakesOut, SubTypes, CallTypes, Holding
<1>9. Proper(x, old)'
  BY <1>5, <1>6, <1>8, StaysProper DEF SubTypes
<1>10. Proper(x, slice)'
  <2>1. slice.len = old.len - 1 /\ old.len \in Nat /\ slice.len \in Nat /\ slice.array = old.array
    BY <1>3 DEF TakesOut, Slices
  <2>2. old.array # 0
    BY <1>3, <1>8, <2>1 DEF TakesOut, Proper
  <2>3. \A i \in 1 .. slice.len : i \in 1 .. old.len /\ Cell(x, slice, i)' = Cell(x, old, i)'
    BY <2>1 DEF Cell
  <2>4. slice.array \in DOMAIN arrays'[x] /\ old.len <= Len(arrays'[x][slice.array])
    BY <1>9, <2>1, <2>2 DEF Proper
  <2>5. Len(arrays'[x][slice.array]) \in Nat
    BY <1>6, <2>4, ElementOfSeq, LenProperties DEF Arrays
  <2> QED
    BY <1>9, <2>1, <2>2, <2>3, <2>4, <2>5 DEF Proper
<1>11. Head(call.left) = x
  BY <1>1, <1>3 DEF TakesOut, Symbol
<1>12. /\ new \in Calls /\ Shaped(new) /\ new.op = call.op /\ new.sub = call.sub
       /\ new.id = call.id /\ new.locked = call.locked /\ new.left = call.left /\ new.slice = slice
       /\ new.at = "writing"
  BY <1>2 DEF Calls, Shaped, Phases, AtList
<1> HIDE DEF new
<1>13. Sound(new)'
  BY <1>2, <1>4, <1>5, <1>12 DEF Sound, Shaped
<1>14. CallTypes'
  BY <1>4, <1>5, <1>6, <1>10, <1>11, <1>12, <1>13, CallMoves DEF SubTypes
<1> QED
  BY <1>5, <1>7, <1>14 DEF SubTypes

LEMMA SubStep == UpdateInv /\ SubTypes /\ [Next]_vars => SubTypes' /\ SubsKept
<1> SUFFICES ASSUME UpdateInv, SubTypes, [Next]_vars
             PROVE  SubTypes' /\ SubsKept
  OBVIOUS
<1> USE DEF subVars, procVars
<1>s. ASSUME UNCHANGED <<subs, byID, listed, arrays, calls>>,
             Distributing' => Distributing \/ \A c \in Callers : ~calls[c].locked
      PROVE  SubTypes' /\ SubsKept
  <2>1. SameSubs
    BY <1>s DEF SameSubs
  <2> QED
    BY <1>s, <2>1, ElseSame
<1>q. ASSUME NEW s, NEW v, subs' = [subs EXCEPT ![s].queued = v], UNCHANGED <<byID, listed, arrays, calls>>,
             Distributing' => Distributing
      PROVE  SubTypes' /\ SubsKept
  BY <1>q, QueuedSame, ElseSame DEF SubTypes
<1>w. Waiting.at = "waiting" /\ DOMAIN consumer = {"at", "update", "symbol", "slice", "next", "sub", "due", "raced"}
  BY DEF Waiting, UpdateInv
<1>1. CASE UNCHANGED vars
  BY <1>s, <1>1 DEF vars, Distributing
<1>2. CASE Stop \/ StopReturns \/ CleanUp \/ CancelStart \/ PollPanics
  BY <1>s, <1>2 DEF Stop, StopReturns, CleanUp, CancelStart, PollPanics, Distributing
<1>3. CASE Wait \/ PollFails
  BY <1>s, <1>w, <1>3 DEF Wait, PollFails, Goes, Distributing
<1>4. CASE Receive
  <2>1. consumer'.at = "looking"
    BY <1>4 DEF Receive, Waiting
  <2> QED
    BY <1>s, <1>4, <2>1 DEF Receive, Distributing
<1>5. CASE Look
  BY <1>s, <1>5 DEF Look
<1>6. CASE Consider
  <2>1. Distributing
    BY <1>6 DEF Consider, Distributing
  <2> QED
    BY <1>s, <1>6, <2>1 DEF Consider
<1>7. CASE Send
  <2>1. Distributing /\ UNCHANGED <<byID, listed, arrays, calls>>
    BY <1>7 DEF Send, Distributing
  <2>2. CASE UNCHANGED subs
    BY <1>s, <2>1, <2>2
  <2>3. CASE ~UNCHANGED subs
    <3> DEFINE s == consumer.sub
               v == IF subs[s].queued < Requests[s].buffer THEN subs[s].queued + 1 ELSE subs[s].queued
    <3>1. subs' = [subs EXCEPT ![s].queued = IF @ < Requests[s].buffer THEN @ + 1 ELSE @]
      BY <1>7, <2>3 DEF Send
    <3>2. subs' = [subs EXCEPT ![s].queued = v]
      BY <3>1
    <3> HIDE DEF v, s
    <3> QED
      BY <1>q, <2>1, <3>2
  <2> QED
    BY <2>2, <2>3
<1>8. ASSUME NEW s \in Subs, Take(s)
      PROVE  SubTypes' /\ SubsKept
  <2> DEFINE v == subs[s].queued - 1
  <2>1. subs' = [subs EXCEPT ![s].queued = v] /\ UNCHANGED <<byID, listed, arrays, calls, consumer>>
    BY <1>8 DEF Take
  <2> HIDE DEF v
  <2> QED
    BY <1>q, <2>1 DEF Distributing
<1>9. ASSUME NEW c \in Callers, NEW s \in Subs, NEW id \in Ids, Subscribe(c, s, id)
      PROVE  SubTypes' /\ SubsKept
  <2> DEFINE new == Call("subscribe", TRUE, "registering", s, id)
  <2>1. /\ s \notin DOMAIN subs /\ subs' = Put(subs, s, Subscription(id)) /\ calls' = [calls EXCEPT ![c] = new]
        /\ UNCHANGED <<byID, listed, arrays, consumer>> /\ ~Distributing
    BY <1>9 DEF Subscribe, MutexFree
  <2>2. /\ new \in Calls /\ Shaped(new) /\ new.at \notin Holding /\ new.op = "subscribe" /\ new.sub = s /\ new.id = id
    BY RequestsAssumption DEF Call, Idle, Empty, Slices, Calls, Shaped, Phases, AtList, Holding
  <2> HIDE DEF new
  <2> QED
    BY <2>1, <2>2, SubscribeTypes
<1>10. ASSUME NEW c \in Callers, NEW s \in Subs, SubscribeUnlocked(c, s)
       PROVE  SubTypes' /\ SubsKept
  <2> DEFINE call == Call("subscribe", FALSE, "checking", s, s)
             new == Turn(call)
  <2>1. /\ s \notin DOMAIN subs /\ subs' = Put(subs, s, Subscription(s)) /\ calls' = [calls EXCEPT ![c] = new]
        /\ UNCHANGED <<byID, listed, arrays, consumer>>
    BY <1>10 DEF SubscribeUnlocked
  <2>2. call \in Calls /\ call.op = "subscribe" /\ call.sub = s /\ call.id = s /\ ~call.locked
    BY RequestsAssumption DEF Call, Idle, Empty, Slices, Calls, Phases, AtList
  <2> HIDE DEF call
  <2>3. /\ new \in Calls /\ Shaped(new) /\ new.at \notin Holding
        /\ new = Idle \/ (new.op = "subscribe" /\ new.sub = s /\ new.id = s /\ ~new.locked)
    BY <2>2, TurnShaped
  <2> HIDE DEF new
  <2> QED
    BY <2>1, <2>3, SubscribeTypes
<1>11. ASSUME NEW c \in Callers, NEW id \in Ids \cup Subs, NEW locked \in BOOLEAN, Unsubscribe(c, id, locked)
       PROVE  SubTypes' /\ SubsKept
  BY <1>11, UnsubscribeTypes
<1>12. ASSUME NEW c \in Callers, CallStep(c)
       PROVE  SubTypes' /\ SubsKept
  BY <1>12, RegisterTypes, CloseTypes, DeleteTypes, LookupTypes, MakeEmptyTypes, AppendTypes, TakeOutTypes, WriteBackTypes
     DEF CallStep
<1>13. CASE StopDataProcessor \/ DataProcessorEnds \/ TakeFromFeed \/ Recycle
  BY <1>s, <1>13 DEF StopDataProcessor, DataProcessorEnds, TakeFromFeed, Recycle, Distributing
<1>14. CASE Book
  <2>1. consumer'.at = consumer.at
    BY <1>w, <1>14 DEF Book
  <2> QED
    BY <1>s, <1>14, <2>1 DEF Book, Distributing
<1> QED
  BY <1>1, <1>2, <1>3, <1>4, <1>5, <1>6, <1>7, <1>8, <1>9, <1>10, <1>11, <1>12, <1>13, <1>14
     DEF Next, ConsumerStep, DataProcessorStep

-----------------------------------------------------------------------------
(* Nobody who is subscribed is missing from a list that one call at a time   *)
(* has in hand.                                                              *)

Listed(x) == IF x \in DOMAIN listed THEN listed[x] ELSE Empty
Has(x, slice, s) == \E i \in 1 .. slice.len : Cell(x, slice, i) = s

\* a call has yet to list s under x
ToCome(s, x) == \E c \in Callers : calls[c].op = "subscribe" /\ calls[c].sub = s /\ x \in Range(calls[c].left)
Subscribed(s, x) == s \in DOMAIN subs /\ ~Gone(s) /\ x \in Range(Requests[s].symbols) /\ ~ToCome(s, x)

\* what a call has in hand of x
Handled(c, x) ==
    LET call == calls[c]
    IN  /\ call.at = "emptying" => x \notin DOMAIN listed
        /\ call.at \in {"appending", "searching", "removing"} => call.slice = Listed(x)
        /\ call.at = "removing" => subs[Cell(x, call.slice, call.found)].id = call.id
        /\ call.at = "writing" =>
              /\ \A s \in Subs : Subscribed(s, x) => Has(x, call.slice, s)
              /\ call.op = "subscribe" => Has(x, call.slice, call.sub)

Kept(x) ==
    /\ \A c, d \in Callers : InHand(c, x) /\ InHand(d, x) => c = d
    /\ \A c \in Callers : InHand(c, x) => Handled(c, x)
    /\ \A s \in Subs : Subscribed(s, x) => Has(x, Listed(x), s)

AllKept == \A x \in Symbols \ contended : Kept(x)

\* who is subscribed now was before, or was to come
LEMMA SubscribedBefore ==
    ASSUME SubsKept, NEW s, NEW x, Subscribed(s, x)', s \in DOMAIN subs
    PROVE  Subscribed(s, x) \/ ToCome(s, x)
BY GoneForEver DEF Subscribed

\* a list that nobody writes into
LEMMA KeptAlone ==
    ASSUME SubTypes, SubsKept, NEW x \in Symbols, Kept(x),
           \A s \in Subs : Subscribed(s, x)' => Subscribed(s, x),
           Listed(x)' = Listed(x), arrays'[x] = arrays[x],
           \A c, d \in Callers : InHand(c, x)' /\ InHand(d, x)' => c = d,
           \A c \in Callers : InHand(c, x)' =>
               \/ calls'[c] = calls[c] /\ (x \in DOMAIN listed' <=> x \in DOMAIN listed)
               \/ Handled(c, x)'
    PROVE  Kept(x)'
<1>1. \A slice, i : Cell(x, slice, i)' = Cell(x, slice, i)
  BY DEF Cell
<1>2. \A slice, s : Has(x, slice, s)' <=> Has(x, slice, s)
  BY <1>1 DEF Has
<1>3. \A s \in Subs : Subscribed(s, x)' => Has(x, Listed(x), s)'
  <2>1. PICK slice : slice = Listed(x)
    OBVIOUS
  <2>2. \A s \in Subs : Subscribed(s, x)' => Has(x, slice, s)'
    BY <1>2, <2>1 DEF Kept
  <2> QED
    BY <2>1, <2>2 DEF Has
<1>4. ASSUME NEW c \in Callers, InHand(c, x)', ~Handled(c, x)'
      PROVE  FALSE
  <2>1. PICK call \in Calls : call = calls[c]
    BY DEF SubTypes, CallTypes
  <2>2. calls'[c] = call /\ (x \in DOMAIN listed' <=> x \in DOMAIN listed)
    BY <1>4, <2>1
  <2>3. InHand(c, x) /\ Handled(c, x)
    BY <1>4, <2>1, <2>2 DEF InHand, Symbol, Kept
  <2>4. call.at = "emptying" => x \notin DOMAIN listed'
    BY <2>1, <2>2, <2>3 DEF Handled
  <2>5. call.at \in {"appending", "searching", "removing"} => call.slice = Listed(x)'
    BY <2>1, <2>2, <2>3 DEF Handled
  <2>6. call.at = "removing" => subs'[Cell(x, call.slice, call.found)'].id = call.id
    <3>1. ASSUME call.at = "removing"
          PROVE  subs[Cell(x, call.slice, call.found)].id = call.id /\ Cell(x, call.slice, call.found) \in DOMAIN subs
      <4>1. Proper(x, call.slice) /\ call.found \in 1 .. call.slice.len
        BY <2>1, <2>3, <3>1 DEF SubTypes, CallTypes, Holding, InHand, Shaped
      <4> QED
        BY <2>1, <2>3, <3>1, <4>1 DEF Handled, Proper
    <3> QED
      BY <1>1, <3>1 DEF SubsKept
  <2>7. ASSUME call.at = "writing"
        PROVE  /\ \A s \in Subs : Subscribed(s, x)' => Has(x, call.slice, s)'
               /\ call.op = "subscribe" => Has(x, call.slice, call.sub)'
    <3>1. /\ \A s \in Subs : Subscribed(s, x) => Has(x, call.slice, s)
          /\ call.op = "subscribe" => Has(x, call.slice, call.sub)
      BY <2>1, <2>3, <2>7 DEF Handled
    <3> QED
      BY <1>2, <3>1
  <2>8. Handled(c, x)'
    <3>1. \A s : Has(x, calls[c].slice, s)' <=> Has(x, call.slice, s)'
      BY <2>2 DEF Has, Cell
    <3>2. Cell(x, calls[c].slice, calls[c].found)' = Cell(x, call.slice, call.found)'
      BY <2>2 DEF Cell
    <3>3. call.op = "subscribe" /\ call.at = "writing" => Has(x, calls[c].slice, calls[c].sub)'
      BY <2>2, <2>7 DEF Has, Cell
    <3> QED
      BY <2>2, <2>4, <2>5, <2>6, <2>7, <3>1, <3>2, <3>3 DEF Handled
  <2> QED
    BY <1>4, <2>8
<1> QED
  BY <1>3, <1>4 DEF Kept

\* so does a step that touches neither lists nor calls
LEMMA KeptElse ==
    ASSUME SubTypes, AllKept, SubsKept, DOMAIN subs' = DOMAIN subs, UNCHANGED <<listed, arrays, calls, contended>>
    PROVE  AllKept'
<1> SUFFICES ASSUME NEW x \in Symbols \ contended
             PROVE  Kept(x)'
  BY DEF AllKept
<1>1. ASSUME NEW s \in Subs, Subscribed(s, x)'
      PROVE  Subscribed(s, x)
  BY <1>1, SubscribedBefore DEF Subscribed, ToCome
<1>2. \A c \in Callers : InHand(c, x)' => InHand(c, x)
  BY DEF InHand, Symbol
<1>3. Listed(x)' = Listed(x)
  BY DEF Listed
<1> QED
  BY <1>1, <1>2, <1>3, KeptAlone DEF AllKept, Kept

\* A call goes on, with the list of x only if no other has it.
LEMMA KeptOnward ==
    ASSUME SubTypes, SubsKept, NEW x \in Symbols, Kept(x), NEW c \in Callers, NEW call, NEW new, call = calls[c],
           calls' = [calls EXCEPT ![c] = new], Listed(x)' = Listed(x), arrays'[x] = arrays[x],
           \A s \in DOMAIN subs' \ DOMAIN subs : x \in Range(Requests[s].symbols) => ToCome(s, x)',
           call.op = "subscribe" /\ x \in Range(call.left) =>
               new.op = "subscribe" /\ new.sub = call.sub /\ x \in Range(new.left),
           InHand(c, x)' => Handled(c, x)' /\ \A d \in Callers \ {c} : ~InHand(d, x),
           \/ x \in DOMAIN listed' <=> x \in DOMAIN listed
           \/ \A d \in Callers \ {c} : ~InHand(d, x)
    PROVE  Kept(x)'
<1>1. calls'[c] = new /\ \A d \in Callers \ {c} : calls'[d] = calls[d]
  BY DEF SubTypes, CallTypes
<1>2. \A d \in Callers \ {c} : InHand(d, x)' <=> InHand(d, x)
  BY <1>1 DEF InHand, Symbol
<1>3. ASSUME NEW s \in Subs, Subscribed(s, x)'
      PROVE  Subscribed(s, x)
  <2>1. s \in DOMAIN subs
    BY <1>3 DEF Subscribed
  <2>2. ToCome(s, x) => ToCome(s, x)'
    BY <1>1 DEF ToCome
  <2> QED
    BY <1>3, <2>1, <2>2, SubscribedBefore DEF Subscribed
<1>4. \A d, e \in Callers : InHand(d, x)' /\ InHand(e, x)' => d = e
  BY <1>2 DEF Kept
<1>5. \A d \in Callers : InHand(d, x)' =>
               \/ calls'[d] = calls[d] /\ (x \in DOMAIN listed' <=> x \in DOMAIN listed)
               \/ Handled(d, x)'
  BY <1>1, <1>2
<1> QED
  BY <1>3, <1>4, <1>5, KeptAlone

\* the range of an empty list
LEMMA NothingIn == \A x : x \notin Range(<<>>)
BY DEF Range

\* who is in a list is its first, or in the rest of it
LEMMA FirstOrRest ==
    ASSUME NEW S, NEW list \in Seq(S), list # <<>>, NEW y \in Range(list), y # Head(list)
    PROVE  Tail(list) # <<>> /\ y \in Range(Tail(list))
<1>1. PICK i \in DOMAIN list : list[i] = y
  BY DEF Range
<1>2. DOMAIN list = 1 .. Len(list) /\ Len(list) \in Nat
  BY LenProperties
<1>3. Head(list) = list[1]
  OBVIOUS
<1>4. /\ Tail(list) \in Seq(S) /\ Len(Tail(list)) = Len(list) - 1
      /\ \A j \in 1 .. Len(Tail(list)) : Tail(list)[j] = list[j + 1]
  BY HeadTailProperties
<1>5. i - 1 \in 1 .. Len(Tail(list))
  BY <1>1, <1>2, <1>3, <1>4
<1>6. Tail(list)[i - 1] = y
  BY <1>1, <1>2, <1>4, <1>5
<1>7. DOMAIN Tail(list) = 1 .. Len(Tail(list))
  BY <1>4, LenProperties
<1>8. y \in Range(Tail(list))
  BY <1>5, <1>6, <1>7 DEF Range
<1>9. Len(Tail(list)) # 0
  BY <1>2, <1>4, <1>5
<1>10. Tail(list) # <<>>
  BY <1>4, <1>9, EmptySeq
<1> QED
  BY <1>8, <1>10

\* a call that has nothing in hand afterwards, and writes nothing
LEMMA KeptFree ==
    ASSUME SubTypes, AllKept, SubsKept, UNCHANGED <<listed, arrays, contended>>, NEW c \in Callers, NEW call \in Calls,
           NEW new, call = calls[c], calls' = [calls EXCEPT ![c] = new], new.at \notin Holding \cup {"emptying"},
           \A s \in DOMAIN subs' \ DOMAIN subs : \A x : x \in Range(Requests[s].symbols) => ToCome(s, x)',
           call.op = "subscribe" => \A x \in Range(call.left) :
               new.op = "subscribe" /\ new.sub = call.sub /\ x \in Range(new.left)
    PROVE  AllKept'
<1> SUFFICES ASSUME NEW x \in Symbols \ contended
             PROVE  Kept(x)'
  BY DEF AllKept
<1>1. calls'[c] = new
  BY DEF SubTypes, CallTypes
<1>2. ~InHand(c, x)'
  BY <1>1 DEF InHand, Holding
<1>3. Listed(x)' = Listed(x) /\ Kept(x) /\ (x \in DOMAIN listed' <=> x \in DOMAIN listed)
  BY DEF Listed, AllKept
<1> QED
  BY <1>2, <1>3, KeptOnward

\* Subscribe begins
LEMMA SubscribeKept ==
    ASSUME SubTypes, AllKept, SubsKept, NEW c \in Callers, NEW s \in Subs, NEW id, NEW new, calls[c] = Idle,
           subs' = Put(subs, s, Subscription(id)), calls' = [calls EXCEPT ![c] = new],
           UNCHANGED <<listed, arrays, contended>>, new.at \notin Holding \cup {"emptying"},
           \A x \in Range(Requests[s].symbols) : new.op = "subscribe" /\ new.sub = s /\ x \in Range(new.left)
    PROVE  AllKept'
<1>1. calls'[c] = new
  BY DEF SubTypes, CallTypes
<1>2. DOMAIN subs' = DOMAIN subs \cup {s}
  BY DEF Put
<1>3. \A t \in DOMAIN subs' \ DOMAIN subs : \A x : x \in Range(Requests[t].symbols) => ToCome(t, x)'
  BY <1>1, <1>2 DEF ToCome
<1>4. PICK call \in Calls : call = calls[c] /\ call.op = "none"
  BY DEF SubTypes, CallTypes, Idle
<1> QED
  BY <1>3, <1>4, KeptFree

\* a call that has no list in hand before or after
LEMMA ElsewhereKept ==
    ASSUME SubTypes, AllKept, SubsKept, DOMAIN subs' = DOMAIN subs, NEW c \in Callers,
           \/ \E id \in Ids \cup Subs, locked \in BOOLEAN : Unsubscribe(c, id, locked)
           \/ Register(c)
           \/ Close(c)
           \/ Delete(c)
    PROVE  AllKept'
<1>1. PICK call \in Calls : call = calls[c] /\ Shaped(call)
  BY DEF SubTypes, CallTypes
<1>2. UNCHANGED <<listed, arrays, contended>>
  BY DEF Unsubscribe, Register, Close, Delete
<1>3. \A s \in DOMAIN subs' \ DOMAIN subs : \A x : x \in Range(Requests[s].symbols) => ToCome(s, x)'
  OBVIOUS
<1>4. CASE \E id \in Ids \cup Subs, locked \in BOOLEAN : Unsubscribe(c, id, locked)
  <2>1. PICK id, locked : calls' = [calls EXCEPT ![c] = Call("unsubscribe", locked, "closing", byID[id], id)]
    BY <1>4 DEF Unsubscribe
  <2>2. call.op = "none"
    BY <1>1, <1>4 DEF Unsubscribe, Idle
  <2>3. PICK new : new = Call("unsubscribe", locked, "closing", byID[id], id)
    OBVIOUS
  <2>4. new.at = "closing"
    BY <2>3 DEF Call, Idle
  <2> QED
    BY <1>1, <1>2, <1>3, <2>1, <2>2, <2>3, <2>4, KeptFree DEF Holding
<1>5. CASE Register(c)
  <2>1. PICK new : new = IF call.locked THEN Turn(call) ELSE Idle
    OBVIOUS
  <2>2. calls' = [calls EXCEPT ![c] = new] /\ call.op = "subscribe" /\ (~call.locked => call.left = <<>>)
    BY <1>1, <1>5, <2>1 DEF Register, Shaped
  <2>3. new.at \notin Holding \cup {"emptying"}
    BY <2>1, <2>2, TurnShaped DEF Idle, Holding
  <2>4. \A x \in Range(call.left) : new.op = "subscribe" /\ new.sub = call.sub /\ x \in Range(new.left)
    BY <2>1, <2>2, TurnShaped, NothingIn
  <2> QED
    BY <1>1, <1>2, <1>3, <2>2, <2>3, <2>4, KeptFree
<1>6. CASE Close(c)
  <2>1. call.op = "unsubscribe" /\ call.at = "closing"
    BY <1>1, <1>6 DEF Close, Shaped
  <2>2. CASE UNCHANGED calls
    BY <1>2, <2>2, KeptElse
  <2>3. CASE ~UNCHANGED calls
    <3>1. PICK new : new = [call EXCEPT !.at = "deleting"]
      OBVIOUS
    <3>2. calls' = [calls EXCEPT ![c] = new] /\ new.at = "deleting"
      BY <1>1, <1>6, <2>3, <3>1 DEF Close, Calls
    <3> QED
      BY <1>1, <1>2, <1>3, <2>1, <3>2, KeptFree DEF Holding
  <2> QED
    BY <2>2, <2>3
<1>7. CASE Delete(c)
  <2>1. call.op = "unsubscribe"
    BY <1>1, <1>7 DEF Delete, Shaped
  <2>2. PICK new : new = Turn(call)
    OBVIOUS
  <2>3. calls' = [calls EXCEPT ![c] = new] /\ new.at \notin Holding \cup {"emptying"}
    BY <1>1, <1>7, <2>1, <2>2, TurnShaped DEF Delete
  <2> QED
    BY <1>1, <1>2, <1>3, <2>1, <2>3, KeptFree
<1> QED
  BY <1>4, <1>5, <1>6, <1>7

\* a look at the map
LEMMA CheckKept ==
    ASSUME SubTypes, AllKept, SubsKept, NEW c \in Callers, Check(c)
    PROVE  AllKept'
<1>1. PICK call \in Calls : call = calls[c] /\ Shaped(call)
  BY DEF SubTypes, CallTypes
<1>2. UNCHANGED <<subs, listed, arrays>>
  BY DEF Check
<1>3. \A s \in DOMAIN subs' \ DOMAIN subs : \A x : x \in Range(Requests[s].symbols) => ToCome(s, x)'
  BY <1>2
<1>4. CASE Symbol(c) \in DOMAIN listed
  <2>1. PICK new : new = [call EXCEPT !.at = "reading"]
    OBVIOUS
  <2>2. calls' = [calls EXCEPT ![c] = new] /\ UNCHANGED contended
    BY <1>1, <1>4, <2>1 DEF Check
  <2>3. new.at = "reading" /\ new.op = call.op /\ new.sub = call.sub /\ new.left = call.left
    BY <2>1 DEF Calls
  <2> QED
    BY <1>1, <1>2, <1>3, <2>2, <2>3, KeptFree DEF Holding
<1>5. CASE Symbol(c) \notin DOMAIN listed
  <2>1. PICK new : new = [call EXCEPT !.at = "emptying"]
    OBVIOUS
  <2>2. /\ calls' = [calls EXCEPT ![c] = new]
        /\ contended' = contended \cup {symbol \in {Symbol(c)} : \E d \in Callers \ {c} : InHand(d, symbol)}
    BY <1>1, <1>5, <2>1 DEF Check, Takes
  <2>3. new.at = "emptying" /\ new.op = call.op /\ new.sub = call.sub /\ new.left = call.left
    BY <2>1 DEF Calls
  <2>4. calls'[c] = new
    BY <2>2 DEF SubTypes, CallTypes
  <2> SUFFICES ASSUME NEW x \in Symbols \ contended'
               PROVE  Kept(x)'
    BY DEF AllKept
  <2>5. Kept(x) /\ Listed(x)' = Listed(x) /\ (x \in DOMAIN listed' <=> x \in DOMAIN listed)
    BY <1>2, <2>2 DEF AllKept, Listed
  <2>6. ASSUME InHand(c, x)'
        PROVE  Handled(c, x)' /\ \A d \in Callers \ {c} : ~InHand(d, x)
    <3>1. x = Symbol(c)
      BY <1>1, <2>3, <2>4, <2>6 DEF InHand, Symbol
    <3>2. Handled(c, x)'
      BY <1>2, <1>5, <2>3, <2>4, <3>1 DEF Handled
    <3> QED
      BY <2>2, <3>1, <3>2
  <2> QED
    BY <1>1, <1>2, <1>3, <2>2, <2>3, <2>5, <2>6, KeptOnward
<1> QED
  BY <1>4, <1>5

\* a list is read
LEMMA ReadKept ==
    ASSUME SubTypes, AllKept, SubsKept, NEW c \in Callers, ReadList(c)
    PROVE  AllKept'
<1>1. PICK call \in Calls : call = calls[c] /\ Shaped(call)
  BY DEF SubTypes, CallTypes
<1>2. UNCHANGED <<subs, listed, arrays>>
  BY DEF ReadList
<1>3. \A s \in DOMAIN subs' \ DOMAIN subs : \A x : x \in Range(Requests[s].symbols) => ToCome(s, x)'
  BY <1>2
<1>4. PICK new : new = [call EXCEPT !.at = IF call.op = "subscribe" THEN "appending" ELSE "searching",
                                    !.slice = Listed(Symbol(c))]
  OBVIOUS
<1>5. /\ calls' = [calls EXCEPT ![c] = new]
      /\ contended' = contended \cup {symbol \in {Symbol(c)} : \E d \in Callers \ {c} : InHand(d, symbol)}
  BY <1>1, <1>4 DEF ReadList, Takes, Listed
<1>6. /\ new.at \in {"appending", "searching"} /\ new.op = call.op /\ new.sub = call.sub /\ new.left = call.left
      /\ new.slice = Listed(Symbol(c))
  BY <1>4 DEF Calls
<1>7. calls'[c] = new
  BY <1>5 DEF SubTypes, CallTypes
<1> SUFFICES ASSUME NEW x \in Symbols \ contended'
             PROVE  Kept(x)'
  BY DEF AllKept
<1>8. Kept(x) /\ Listed(x)' = Listed(x) /\ (x \in DOMAIN listed' <=> x \in DOMAIN listed)
  BY <1>2, <1>5 DEF AllKept, Listed
<1>9. ASSUME InHand(c, x)'
      PROVE  Handled(c, x)' /\ \A d \in Callers \ {c} : ~InHand(d, x)
  <2>1. x = Symbol(c)
    BY <1>1, <1>6, <1>7, <1>9 DEF InHand, Symbol
  <2>2. Handled(c, x)'
    BY <1>6, <1>7, <1>8, <2>1 DEF Handled
  <2> QED
    BY <1>5, <2>1, <2>2
<1> QED
  BY <1>1, <1>2, <1>3, <1>5, <1>6, <1>8, <1>9, KeptOnward

\* and searched
LEMMA SearchKept ==
    ASSUME SubTypes, AllKept, SubsKept, NEW c \in Callers, Search(c)
    PROVE  AllKept'
<1>1. PICK call \in Calls : call = calls[c] /\ Shaped(call) /\ call.at = "searching"
  BY DEF SubTypes, CallTypes, Search
<1>2. UNCHANGED <<subs, listed, arrays, contended>>
  BY DEF Search
<1>3. \A s \in DOMAIN subs' \ DOMAIN subs : \A x : x \in Range(Requests[s].symbols) => ToCome(s, x)'
  BY <1>2
<1>4. call.op = "unsubscribe" /\ call.left # <<>> /\ call.slice.len \in Nat
  BY <1>1 DEF Shaped, AtList, Calls, Slices
<1>5. PICK has : has = {i \in 1 .. call.slice.len : subs[Cell(Symbol(c), call.slice, i)].id = call.id}
  OBVIOUS
<1>6. CASE has = {}
  <2>1. PICK new : new = Through(call)
    OBVIOUS
  <2>2. calls' = [calls EXCEPT ![c] = new]
    BY <1>1, <1>5, <1>6, <2>1 DEF Search
  <2>3. new.at \notin Holding \cup {"emptying"}
    BY <1>4, <2>1, ThroughShaped
  <2> QED
    BY <1>1, <1>2, <1>3, <1>4, <2>2, <2>3, KeptFree
<1>7. CASE has # {}
  <2>1. PICK m \in has : m = Min(has)
    BY <1>4, <1>5, <1>7, SearchFinds
  <2>2. PICK new : new = [call EXCEPT !.at = "removing", !.found = m]
    OBVIOUS
  <2>3. calls' = [calls EXCEPT ![c] = new]
    BY <1>1, <1>5, <1>7, <2>1, <2>2 DEF Search
  <2>4. new.at = "removing" /\ new.found = m /\ new.left = call.left /\ new.slice = call.slice /\ new.id = call.id
    BY <2>2 DEF Calls
  <2>5. calls'[c] = new
    BY <2>3 DEF SubTypes, CallTypes
  <2> SUFFICES ASSUME NEW x \in Symbols \ contended
               PROVE  Kept(x)'
    BY <1>2 DEF AllKept
  <2>6. Kept(x) /\ Listed(x)' = Listed(x) /\ (x \in DOMAIN listed' <=> x \in DOMAIN listed)
    BY <1>2 DEF AllKept, Listed
  <2>7. ASSUME InHand(c, x)'
        PROVE  Handled(c, x)' /\ \A d \in Callers \ {c} : ~InHand(d, x)
    <3>1. x = Symbol(c) /\ InHand(c, x)
      BY <1>1, <2>4, <2>5, <2>7 DEF InHand, Symbol
    <3>2. call.slice = Listed(x) /\ \A d \in Callers \ {c} : ~InHand(d, x)
      BY <1>1, <2>6, <3>1 DEF Kept, Handled
    <3>3. subs[Cell(x, call.slice, m)].id = call.id
      BY <1>5, <2>1, <3>1
    <3>4. Handled(c, x)'
      BY <1>2, <2>4, <2>5, <2>6, <3>2, <3>3 DEF Handled, Cell
    <3> QED
      BY <3>2, <3>4
  <2> QED
    BY <1>1, <1>2, <1>3, <1>4, <2>3, <2>6, <2>7, KeptOnward
<1> QED
  BY <1>6, <1>7

\* a symbol is given an empty list
LEMMA MakeEmptyKept ==
    ASSUME SubTypes, AllKept, SubsKept, NEW c \in Callers, MakeEmpty(c)
    PROVE  AllKept'
<1>1. PICK call \in Calls : call = calls[c] /\ Shaped(call) /\ call.at = "emptying"
  BY DEF SubTypes, CallTypes, MakeEmpty
<1>2. UNCHANGED <<subs, arrays, contended>> /\ listed' = Put(listed, Symbol(c), Empty)
  BY DEF MakeEmpty
<1>3. \A s \in DOMAIN subs' \ DOMAIN subs : \A x : x \in Range(Requests[s].symbols) => ToCome(s, x)'
  BY <1>2
<1>4. PICK new : new = [call EXCEPT !.at = "reading"]
  OBVIOUS
<1>5. calls' = [calls EXCEPT ![c] = new] /\ new.at = "reading" /\ new.op = call.op /\ new.sub = call.sub /\ new.left = call.left
  BY <1>1, <1>4 DEF MakeEmpty, Calls
<1>6. calls'[c] = new
  BY <1>5 DEF SubTypes, CallTypes
<1>7. ~InHand(c, Symbol(c))' /\ \A x : ~InHand(c, x)'
  BY <1>5, <1>6 DEF InHand
<1> SUFFICES ASSUME NEW x \in Symbols \ contended
             PROVE  Kept(x)'
  BY <1>2 DEF AllKept
<1>8. Kept(x)
  BY DEF AllKept
<1>9. CASE x = Symbol(c)
  <2>1. InHand(c, x)
    BY <1>1, <1>9 DEF InHand
  <2>2. x \notin DOMAIN listed /\ \A d \in Callers \ {c} : ~InHand(d, x)
    BY <1>1, <1>8, <2>1 DEF Kept, Handled
  <2>3. Listed(x)' = Listed(x)
    BY <1>2, <1>9, <2>2 DEF Listed, Put
  <2> QED
    BY <1>1, <1>2, <1>3, <1>5, <1>7, <1>8, <2>2, <2>3, KeptOnward
<1>10. CASE x # Symbol(c)
  <2>1. Listed(x)' = Listed(x) /\ (x \in DOMAIN listed' <=> x \in DOMAIN listed)
    BY <1>2, <1>10 DEF Listed, Put
  <2> QED
    BY <1>1, <1>2, <1>3, <1>5, <1>7, <1>8, <2>1, KeptOnward
<1> QED
  BY <1>9, <1>10

\* A step of c that has changed the list in its hand, and has it still.
LEMMA ChangedKept ==
    ASSUME SubTypes, AllKept, SubsKept, UNCHANGED <<subs, listed, contended>>, NEW c \in Callers, NEW call \in Calls,
           call = calls[c], call.at \in {"appending", "removing"}, NEW new, calls' = [calls EXCEPT ![c] = new], new.at = "writing",
           new.op = call.op, new.sub = call.sub, new.left = call.left,
           NEW x \in Symbols, x = Symbol(c), \A y \in Symbols : y # x => arrays'[y] = arrays[y],
           NEW old, old = call.slice,
           ASSUME Kept(x), old = Listed(x)
           PROVE  /\ \A s \in Subs : Subscribed(s, x) => Has(x, old, s)' /\ Has(x, new.slice, s)'
                  /\ call.op = "subscribe" => Has(x, new.slice, call.sub)'
    PROVE  AllKept'
<1> SUFFICES ASSUME NEW y \in Symbols \ contended
             PROVE  Kept(y)'
  BY DEF AllKept
<1>1. Kept(y) /\ Listed(y)' = Listed(y) /\ (y \in DOMAIN listed' <=> y \in DOMAIN listed)
  BY DEF AllKept, Listed
<1>2. calls'[c] = new /\ \A d \in Callers \ {c} : calls'[d] = calls[d]
  BY DEF SubTypes, CallTypes
<1>3. \A s \in DOMAIN subs' \ DOMAIN subs : \A z : z \in Range(Requests[s].symbols) => ToCome(s, z)'
  OBVIOUS
<1>4. CASE y # x
  <2>1. ~InHand(c, y)'
    BY <1>2, <1>4 DEF InHand, Symbol
  <2> QED
    BY <1>1, <1>3, <1>4, <2>1, KeptOnward
<1>5. CASE y = x
  <2>1. InHand(c, x)
    BY DEF InHand
  <2>2. old = Listed(x) /\ \A d \in Callers \ {c} : ~InHand(d, x)
    BY <1>1, <1>5, <2>1 DEF Kept, Handled
  <2>3. /\ \A s \in Subs : Subscribed(s, x) => Has(x, old, s)' /\ Has(x, new.slice, s)'
        /\ call.op = "subscribe" => Has(x, new.slice, call.sub)'
    BY <1>1, <1>5, <2>2
  <2>4. \A s \in Subs : Subscribed(s, x)' => Subscribed(s, x)
    <3>1. \A s \in Subs : ToCome(s, x) => ToCome(s, x)'
      BY <1>2 DEF ToCome
    <3>2. \A s \in Subs : Subscribed(s, x)' => s \in DOMAIN subs
      BY DEF Subscribed
    <3> QED
      BY <3>1, <3>2, SubscribedBefore DEF Subscribed
  <2>5. \A d \in Callers \ {c} : ~InHand(d, x)'
    BY <1>2, <2>2 DEF InHand, Symbol
  <2>6. Handled(c, x)'
    <3>1. /\ \A s \in Subs : Subscribed(s, x)' => Has(x, calls[c].slice, s)'
          /\ call.op = "subscribe" => Has(x, calls[c].slice, calls[c].sub)'
      BY <1>2, <2>3, <2>4 DEF Has, Cell
    <3> QED
      BY <1>2, <3>1 DEF Handled
  <2>7. \A s \in Subs : Subscribed(s, x)' => Has(x, Listed(x), s)'
    <3>1. Listed(x)' = old
      BY <1>1, <1>5, <2>2
    <3>2. \A s : Has(x, Listed(x), s)' <=> Has(x, old, s)'
      BY <3>1 DEF Has, Cell
    <3> QED
      BY <2>3, <2>4, <3>2
  <2> QED
    BY <1>5, <2>5, <2>6, <2>7 DEF Kept
<1> QED
  BY <1>4, <1>5

\* a subscription is appended
LEMMA AppendKept ==
    ASSUME SubTypes, AllKept, SubsKept, NEW c \in Callers, AppendTo(c)
    PROVE  AllKept'
<1>1. PICK call \in Calls : call = calls[c] /\ call.at = "appending" /\ Shaped(call)
  BY DEF SubTypes, CallTypes, AppendTo
<1>2. PICK x \in Symbols, old \in Slices, slice \in Slices : Appends(c, x, old, slice)
  BY AppendWrites
<1>3. UNCHANGED <<subs, listed, contended>>
  BY DEF AppendTo
<1>4. PICK new : new = [call EXCEPT !.at = "writing", !.slice = slice]
  OBVIOUS
<1>5. /\ calls' = [calls EXCEPT ![c] = new] /\ new.at = "writing" /\ new.op = call.op /\ new.sub = call.sub
      /\ new.left = call.left /\ new.slice = slice
  BY <1>1, <1>2, <1>4 DEF Appends, Calls
<1>6. x = Symbol(c) /\ (\A y \in Symbols : y # x => arrays'[y] = arrays[y]) /\ old = call.slice
  BY <1>1, <1>2 DEF Appends
<1>7. old.len \in Nat /\ slice.len = old.len + 1
  BY <1>2 DEF Appends, Slices
<1>8. Proper(x, old)
  BY <1>1, <1>6 DEF SubTypes, CallTypes, Holding
<1>9. \A i \in 1 .. old.len : Cell(x, old, i)' = Cell(x, old, i) /\ Cell(x, slice, i)' = Cell(x, old, i) /\ i \in 1 .. slice.len
  <2> SUFFICES ASSUME NEW i \in 1 .. old.len
               PROVE  Cell(x, old, i)' = Cell(x, old, i) /\ Cell(x, slice, i)' = Cell(x, old, i) /\ i \in 1 .. slice.len
    OBVIOUS
  <2>1. i \in 1 .. slice.len /\ i # slice.len /\ old.len # 0
    BY <1>7
  <2>2. old.array \in DOMAIN arrays[x]
    BY <1>8, <2>1 DEF Proper
  <2>3. arrays'[x][old.array][i] = arrays[x][old.array][i]
    BY <1>2, <2>1, <2>2 DEF Appends
  <2>4. arrays'[x][slice.array][i] = Cell(x, old, i)
    BY <1>2 DEF Appends
  <2> QED
    BY <2>1, <2>3, <2>4 DEF Cell
<1>10. ASSUME Kept(x), old = Listed(x)
       PROVE  /\ \A s \in Subs : Subscribed(s, x) => Has(x, old, s)' /\ Has(x, new.slice, s)'
              /\ call.op = "subscribe" => Has(x, new.slice, call.sub)'
  <2>1. \A s \in Subs : Subscribed(s, x) => \E i \in 1 .. old.len : Cell(x, old, i) = s
    BY <1>10 DEF Kept, Has
  <2>2. \A s \in Subs : Subscribed(s, x) => Has(x, old, s)' /\ Has(x, slice, s)'
    BY <1>9, <2>1 DEF Has
  <2>3. Has(x, slice, call.sub)'
    <3>1. Cell(x, slice, slice.len)' = call.sub
      BY <1>1, <1>2 DEF Appends, Cell
    <3>2. slice.len \in 1 .. slice.len
      BY <1>7
    <3> QED
      BY <3>1, <3>2 DEF Has
  <2> QED
    BY <1>5, <2>2, <2>3
<1> QED
  BY <1>1, <1>3, <1>5, <1>6, <1>10, ChangedKept

\* one is taken out, which has the id of one that is canceled
LEMMA TakeOutKept ==
    ASSUME SubTypes, AllKept, SubsKept, NEW c \in Callers, TakeOut(c)
    PROVE  AllKept'
<1>1. PICK call \in Calls : call = calls[c] /\ call.at = "removing" /\ Shaped(call) /\ Sound(call)
  BY DEF SubTypes, CallTypes, TakeOut
<1>2. PICK x \in Symbols, old \in Slices, slice \in Slices : TakesOut(c, x, old, slice)
  BY TakeOutWrites
<1>3. UNCHANGED <<subs, listed, contended>> /\ call.op = "unsubscribe"
  BY <1>1 DEF TakeOut, Shaped
<1>4. PICK new : new = [call EXCEPT !.at = "writing", !.slice = slice]
  OBVIOUS
<1>5. /\ calls' = [calls EXCEPT ![c] = new] /\ new.at = "writing" /\ new.op = call.op /\ new.sub = call.sub
      /\ new.left = call.left /\ new.slice = slice
  BY <1>1, <1>2, <1>4 DEF TakesOut, Calls
<1>6. x = Symbol(c) /\ (\A y \in Symbols : y # x => arrays'[y] = arrays[y]) /\ old = call.slice
  BY <1>1, <1>2 DEF TakesOut
<1>7. old.len \in Nat /\ slice.len = old.len - 1 /\ slice.array = old.array
  BY <1>2 DEF TakesOut, Slices
<1>8. ASSUME Kept(x), old = Listed(x)
      PROVE  /\ \A s \in Subs : Subscribed(s, x) => Has(x, old, s)' /\ Has(x, new.slice, s)'
             /\ call.op = "subscribe" => Has(x, new.slice, call.sub)'
  <2> SUFFICES ASSUME NEW s \in Subs, Subscribed(s, x)
               PROVE  Has(x, old, s)' /\ Has(x, slice, s)'
    BY <1>3, <1>5
  <2>1. PICK i \in 1 .. old.len : Cell(x, old, i) = s
    BY <1>8 DEF Kept, Has
  <2>2. i # call.found
    <3>1. InHand(c, x)
      BY <1>1, <1>6 DEF InHand
    <3>2. subs[Cell(x, old, call.found)].id = call.id
      BY <1>1, <1>6, <1>8, <3>1 DEF Kept, Handled
    <3>3. call.sub \in DOMAIN subs /\ subs[call.sub].id = call.id /\ ~subs[call.sub].active
      BY <1>1, <1>3 DEF Sound
    <3>4. subs[s].id # call.id
      BY <3>3 DEF Subscribed, Gone, Mistaken
    <3> QED
      BY <2>1, <3>2, <3>4
  <2>3. PICK j \in 1 .. slice.len : Cell(x, slice, j)' = s
    BY <1>1, <1>2, <2>1, <2>2 DEF TakesOut
  <2>4. j \in 1 .. old.len /\ Cell(x, old, j)' = s
    BY <1>7, <2>3 DEF Cell
  <2> QED
    BY <2>3, <2>4 DEF Has
<1> QED
  BY <1>1, <1>3, <1>5, <1>6, <1>8, ChangedKept

\* the list is written back
LEMMA WriteBackKept ==
    ASSUME SubTypes, AllKept, SubsKept, NEW c \in Callers, WriteBack(c)
    PROVE  AllKept'
<1>1. PICK call \in Calls : call = calls[c] /\ Shaped(call) /\ call.at = "writing"
  BY DEF SubTypes, CallTypes, WriteBack
<1>2. call.op \in {"subscribe", "unsubscribe"} /\ call.left # <<>> /\ call.left \in Seq(Symbols)
  BY <1>1 DEF Shaped, AtList, Calls
<1>3. UNCHANGED <<subs, arrays, contended>> /\ listed' = Put(listed, Symbol(c), call.slice)
  BY <1>1 DEF WriteBack
<1>4. \A s \in DOMAIN subs' \ DOMAIN subs : \A x : x \in Range(Requests[s].symbols) => ToCome(s, x)'
  BY <1>3
<1>5. PICK new : new = Through(call)
  OBVIOUS
<1>6. /\ calls' = [calls EXCEPT ![c] = new] /\ new.at \notin Holding \cup {"emptying"}
      /\ \/ new = Idle /\ Tail(call.left) = <<>>
         \/ new.op = call.op /\ new.sub = call.sub /\ new.left = Tail(call.left)
  BY <1>1, <1>2, <1>5, ThroughShaped DEF WriteBack
<1>7. calls'[c] = new /\ \A d \in Callers \ {c} : calls'[d] = calls[d]
  BY <1>6 DEF SubTypes, CallTypes
<1>8. \A x : ~InHand(c, x)'
  BY <1>6, <1>7 DEF InHand, Holding
<1>9. Symbol(c) = Head(call.left)
  BY <1>1 DEF Symbol
<1> SUFFICES ASSUME NEW x \in Symbols \ contended
             PROVE  Kept(x)'
  BY <1>3 DEF AllKept
<1>10. Kept(x)
  BY DEF AllKept
<1>11. CASE x # Symbol(c)
  <2>1. Listed(x)' = Listed(x) /\ (x \in DOMAIN listed' <=> x \in DOMAIN listed)
    BY <1>3, <1>11 DEF Listed, Put
  <2>2. x \in Range(call.left) => Tail(call.left) # <<>> /\ x \in Range(Tail(call.left))
    BY <1>2, <1>9, <1>11, FirstOrRest
  <2>3. call.op = "subscribe" /\ x \in Range(call.left) => new.op = "subscribe" /\ new.sub = call.sub /\ x \in Range(new.left)
    BY <1>6, <2>2
  <2> QED
    BY <1>1, <1>3, <1>4, <1>6, <1>8, <1>10, <2>1, <2>3, KeptOnward
<1>12. CASE x = Symbol(c)
  <2>1. InHand(c, x)
    BY <1>1, <1>12 DEF InHand
  <2>2. \A d \in Callers \ {c} : ~InHand(d, x)
    BY <1>10, <2>1 DEF Kept
  <2>3. /\ \A s \in Subs : Subscribed(s, x) => Has(x, call.slice, s)
        /\ call.op = "subscribe" => Has(x, call.slice, call.sub)
    BY <1>1, <1>10, <2>1 DEF Kept, Handled
  <2>4. Listed(x)' = call.slice
    BY <1>3, <1>12 DEF Listed, Put
  <2>5. \A d \in Callers : ~InHand(d, x)'
    BY <1>7, <1>8, <2>2 DEF InHand, Symbol
  <2>6. ASSUME NEW s \in Subs, Subscribed(s, x)'
        PROVE  Has(x, call.slice, s)
    <3>1. Subscribed(s, x) \/ ToCome(s, x)
      BY <1>3, <2>6, SubscribedBefore DEF Subscribed
    <3>2. CASE Subscribed(s, x)
      BY <2>3, <3>2
    <3>3. CASE ToCome(s, x)
      <4>1. call.op = "subscribe" /\ call.sub = s
        BY <1>1, <1>7, <2>6, <3>3 DEF ToCome, Subscribed
      <4> QED
        BY <2>3, <4>1
    <3> QED
      BY <3>1, <3>2, <3>3
  <2>7. \A s \in Subs : Subscribed(s, x)' => Has(x, Listed(x), s)'
    <3>1. \A s : Has(x, Listed(x), s)' <=> Has(x, call.slice, s)
      BY <1>3, <2>4 DEF Has, Cell
    <3> QED
      BY <2>6, <3>1
  <2> QED
    BY <2>5, <2>7 DEF Kept
<1> QED
  BY <1>11, <1>12

LEMMA KeptStep ==
    ASSUME UpdateInv, SubTypes, AllKept, SubsKept, [Next]_vars
    PROVE  AllKept'
<1> USE DEF subVars, procVars
<1>e. ASSUME DOMAIN subs' = DOMAIN subs, UNCHANGED <<listed, arrays, calls, contended>>
      PROVE  AllKept'
  BY <1>e, KeptElse
<1>1. CASE UNCHANGED vars
  BY <1>e, <1>1 DEF vars
<1>2. CASE Stop \/ StopReturns \/ CleanUp \/ CancelStart
  BY <1>e, <1>2 DEF Stop, StopReturns, CleanUp, CancelStart
<1>3. CASE ConsumerStep
  <2>1. UNCHANGED <<listed, arrays, calls, contended>>
    BY <1>3 DEF ConsumerStep, Wait, PollFails, PollPanics, Receive, Look, Consider, Send
  <2>2. DOMAIN subs' = DOMAIN subs
    BY <1>3 DEF ConsumerStep, Wait, PollFails, PollPanics, Receive, Look, Consider, Send
  <2> QED
    BY <1>e, <2>1, <2>2
<1>4. CASE \E s \in Subs : Take(s)
  BY <1>e, <1>4 DEF Take
<1>5. ASSUME NEW c \in Callers, NEW s \in Subs, NEW id \in Ids, Subscribe(c, s, id)
      PROVE  AllKept'
  <2>1. PICK new : new = Call("subscribe", TRUE, "registering", s, id)
    OBVIOUS
  <2>2. /\ calls[c] = Idle /\ subs' = Put(subs, s, Subscription(id)) /\ calls' = [calls EXCEPT ![c] = new]
        /\ UNCHANGED <<listed, arrays, contended>>
    BY <1>5, <2>1 DEF Subscribe
  <2>3. new.at = "registering" /\ new.op = "subscribe" /\ new.sub = s /\ new.left = Requests[s].symbols
    BY <2>1 DEF Call, Idle
  <2> QED
    BY <2>2, <2>3, SubscribeKept DEF Holding
<1>6. ASSUME NEW c \in Callers, NEW s \in Subs, SubscribeUnlocked(c, s)
      PROVE  AllKept'
  <2>1. PICK call : call = Call("subscribe", FALSE, "checking", s, s)
    OBVIOUS
  <2>2. call.op = "subscribe" /\ call.sub = s /\ call.left = Requests[s].symbols /\ call.left # <<>> /\ call \in Calls
    BY <1>6, <2>1, RequestsAssumption DEF SubscribeUnlocked, Call, Idle, Empty, Slices, Calls, Phases, AtList
  <2>3. PICK new : new = Turn(call)
    OBVIOUS
  <2>4. /\ calls[c] = Idle /\ subs' = Put(subs, s, Subscription(s)) /\ calls' = [calls EXCEPT ![c] = new]
        /\ UNCHANGED <<listed, arrays, contended>>
    BY <1>6, <2>1, <2>3 DEF SubscribeUnlocked
  <2>5. /\ new.at \notin Holding \cup {"emptying"} /\ new.op = "subscribe" /\ new.sub = s
        /\ new.left = Requests[s].symbols
    BY <2>2, <2>3, TurnShaped
  <2> QED
    BY <2>4, <2>5, SubscribeKept
<1>7. ASSUME NEW c \in Callers, NEW id \in Ids \cup Subs, NEW locked \in BOOLEAN, Unsubscribe(c, id, locked)
      PROVE  AllKept'
  <2>1. DOMAIN subs' = DOMAIN subs
    BY <1>7 DEF Unsubscribe
  <2> QED
    BY <1>7, <2>1, ElsewhereKept
<1>8. ASSUME NEW c \in Callers, CallStep(c)
      PROVE  AllKept'
  <2>1. DOMAIN subs' = DOMAIN subs
    BY <1>8 DEF CallStep, Register, Close, Delete, Check, MakeEmpty, ReadList, AppendTo, Search, TakeOut, WriteBack
  <2> QED
    BY <1>8, <2>1, ElsewhereKept, CheckKept, MakeEmptyKept, ReadKept, AppendKept, SearchKept, TakeOutKept, WriteBackKept
       DEF CallStep
<1>9. CASE StopDataProcessor \/ DataProcessorEnds \/ TakeFromFeed \/ Book \/ Recycle
  BY <1>e, <1>9 DEF StopDataProcessor, DataProcessorEnds, TakeFromFeed, Book, Recycle
<1> QED
  BY <1>1, <1>2, <1>3, <1>4, <1>5, <1>6, <1>7, <1>8, <1>9 DEF Next, DataProcessorStep

-----------------------------------------------------------------------------
(* The update at hand, and its distribution.                                *)

\* The consumer has an update, the DataProcessor has kept out of it, and one call
\* at a time had the list in hand.
Serving == consumer.update # None /\ ~consumer.raced /\ Data(consumer.update).symbol \notin contended

\* p is in every slice of the array that is in use: an append goes past it
Within(p, x, array) ==
    /\ Listed(x).array = array => p <= Listed(x).len
    /\ \A c \in Callers :
          calls[c].at \in Holding /\ Symbol(c) = x /\ calls[c].slice.array = array => p <= calls[c].slice.len

\* the distribution has yet to come to s, or is there
Ahead(s) == \E p \in consumer.next .. consumer.slice.len :
    /\ Cell(consumer.symbol, consumer.slice, p) = s
    /\ Within(p, consumer.symbol, consumer.slice.array)
    /\ consumer.at = "sending" /\ p = consumer.next => s = consumer.sub

\* Then the update is as it was received, and those who are to have it were
\* subscribed and asked for it; once the list is read, each of them is ahead in it
\* or gone.
AtHand ==
    /\ consumer.update \in DOMAIN updates /\ updates[consumer.update].phase = "intact"
    /\ consumer.at \in {"looking", "offering", "sending"}
    /\ Data(consumer.update).symbol \in Symbols
    /\ \A s \in consumer.due : s \in DOMAIN subs /\ Settled(s) /\ Matches(s, Data(consumer.update))
    /\ consumer.at = "looking" => consumer.next = 1
    /\ consumer.at # "looking" =>
          /\ consumer.symbol = Data(consumer.update).symbol
          /\ consumer.slice \in Slices /\ consumer.next \in 1 .. consumer.slice.len
          /\ consumer.slice.array \in DOMAIN arrays[consumer.symbol]
          /\ \A s \in consumer.due : Gone(s) \/ Ahead(s)

Distribution == Serving => AtHand

\* nothing races a read of an update that is intact
LEMMA IntactReads ==
    ASSUME NEW k, NEW field, updates[k].phase = "intact"
    PROVE  Reads(k, field) = {Data(k)[field]}
  BY DEF Reads

\* The update stays at hand as long as nobody touches it, nor what is ahead.
LEMMA AtHandStays ==
    ASSUME SubsKept, AtHand, consumer.update \in DOMAIN updates', updates'[consumer.update] = updates[consumer.update],
           consumer'.update = consumer.update, consumer'.at = consumer.at, consumer'.due = consumer.due,
           consumer'.symbol = consumer.symbol, consumer'.slice = consumer.slice, consumer'.next = consumer.next,
           consumer'.sub = consumer.sub,
           \A s \in DOMAIN subs : Settled(s) => Settled(s)',
           consumer.at # "looking" => DOMAIN arrays[consumer.symbol] \subseteq DOMAIN arrays'[consumer.symbol],
           \A x, a, p : consumer.at # "looking" /\ x = consumer.symbol /\ a = consumer.slice.array /\ Within(p, x, a)
               /\ p \in 1 .. consumer.slice.len => Within(p, x, a)' /\ arrays'[x][a][p] = arrays[x][a][p]
    PROVE  AtHand'
<1>1. PICK x, slice, next, at, sub, due, k :
        /\ x = consumer.symbol /\ slice = consumer.slice /\ next = consumer.next /\ at = consumer.at
        /\ sub = consumer.sub /\ due = consumer.due /\ k = consumer.update
  OBVIOUS
<1>2. /\ x = consumer'.symbol /\ slice = consumer'.slice /\ next = consumer'.next /\ at = consumer'.at
      /\ sub = consumer'.sub /\ due = consumer'.due /\ k = consumer'.update
  BY <1>1
<1>3. Data(k)' = Data(k)
  BY <1>1 DEF Data
<1>4. \A s \in due : s \in DOMAIN subs' /\ Settled(s)' /\ Matches(s, Data(k))'
  <2>1. \A s \in due : s \in DOMAIN subs /\ Settled(s) /\ Matches(s, Data(k))
    BY <1>1 DEF AtHand
  <2>2. \A s \in due : Matches(s, Data(k))'
    BY <1>3, <2>1 DEF Matches
  <2> QED
    BY <2>1, <2>2 DEF SubsKept
<1>5. ASSUME at # "looking"
      PROVE  /\ x = Data(k)'.symbol /\ slice \in Slices /\ next \in 1 .. slice.len
             /\ slice.array \in DOMAIN arrays'[x]
             /\ \A s \in due : Gone(s)' \/ Ahead(s)'
  <2>1. /\ x = Data(k).symbol /\ slice \in Slices /\ next \in 1 .. slice.len
        /\ slice.array \in DOMAIN arrays[x]
        /\ \A s \in due : Gone(s) \/ Ahead(s)
    BY <1>1, <1>5 DEF AtHand
  <2>2. ASSUME NEW s \in due, Ahead(s)
        PROVE  Ahead(s)'
    <3>1. PICK p \in next .. slice.len :
            /\ Cell(x, slice, p) = s /\ Within(p, x, slice.array) /\ (at = "sending" /\ p = next => s = sub)
      BY <1>1, <2>2 DEF Ahead
    <3>2. p \in 1 .. slice.len
      BY <2>1, <3>1 DEF Slices
    <3>3. Within(p, x, slice.array)' /\ arrays'[x][slice.array][p] = arrays[x][slice.array][p]
      BY <1>1, <1>5, <3>1, <3>2
    <3>4. Cell(x, slice, p)' = s
      BY <3>1, <3>3 DEF Cell
    <3> HIDE DEF Within, Cell
    <3>5. Cell(consumer.symbol, consumer.slice, p)' = s /\ Within(p, consumer.symbol, consumer.slice.array)'
      BY <1>2, <3>3, <3>4 DEF Within, Cell
    <3> QED
      BY <1>2, <3>1, <3>5 DEF Ahead
  <2>3. \A s \in due : Gone(s)' \/ Ahead(s)'
    <3>1. \A s \in due : Gone(s) => Gone(s)'
      BY <1>1, GoneForEver DEF AtHand
    <3> QED
      BY <2>1, <2>2, <3>1
  <2> QED
    BY <1>1, <1>3, <1>5, <2>1, <2>3
<1>6. /\ k \in DOMAIN updates' /\ updates'[k].phase = "intact" /\ at \in {"looking", "offering", "sending"}
      /\ Data(k)'.symbol \in Symbols /\ (at = "looking" => next = 1)
  BY <1>1, <1>3 DEF AtHand
<1>7. /\ \A s \in consumer'.due : Matches(s, Data(consumer.update))'
      /\ Data(consumer.update)' = Data(k)'
  BY <1>2, <1>4 DEF Matches, Data
<1> QED
  BY <1>2, <1>4, <1>5, <1>6, <1>7 DEF AtHand

\* a step that touches neither lists nor calls
LEMMA WithinStays ==
    ASSUME UNCHANGED <<listed, calls, arrays>>
    PROVE  /\ \A p, x, a : Within(p, x, a) <=> Within(p, x, a)'
           /\ \A s : Settled(s) <=> Settled(s)'
BY DEF Within, Listed, Symbol, Settled

\* one subscriber of the list is done with
LEMMA NextKeeps ==
    ASSUME UpdateInv, Serving, AtHand, consumer.at # "looking", SubsKept, UNCHANGED <<updates, listed, calls, arrays>>,
           NextSubscriber,
           NEW due, due = IF consumer.at = "sending" THEN consumer.due \ {consumer.sub} ELSE consumer.due,
           ASSUME NEW s \in due, s = Cell(consumer.symbol, consumer.slice, consumer.next), consumer.at = "offering"
           PROVE  Gone(s)
    PROVE  Distribution' /\ (consumer'.update = None => \A s \in due : Gone(s))
<1>1. PICK x, slice, next, at, sub, k :
        /\ x = consumer.symbol /\ slice = consumer.slice /\ next = consumer.next /\ at = consumer.at
        /\ sub = consumer.sub /\ k = consumer.update
  OBVIOUS
<1>2. /\ x = Data(k).symbol /\ slice \in Slices /\ next \in 1 .. slice.len
      /\ slice.array \in DOMAIN arrays[x]
      /\ \A s \in due : Gone(s) \/ Ahead(s)
  BY <1>1 DEF AtHand
<1>3. next \in Nat /\ slice.len \in Nat
  BY <1>2 DEF Slices
<1>4. ASSUME NEW s \in due, ~Gone(s)
      PROVE  \E p \in next + 1 .. slice.len : Cell(x, slice, p) = s /\ Within(p, x, slice.array)
  <2>1. PICK p \in next .. slice.len :
          /\ Cell(x, slice, p) = s /\ Within(p, x, slice.array) /\ (at = "sending" /\ p = next => s = sub)
    BY <1>1, <1>2, <1>4 DEF Ahead
  <2>2. p # next
    <3>1. CASE at = "sending"
      BY <1>1, <1>4, <2>1, <3>1
    <3>2. CASE at = "offering"
      BY <1>1, <1>4, <2>1, <3>2
    <3> QED
      BY <1>1, <3>1, <3>2 DEF AtHand
  <2> QED
    BY <1>3, <2>1, <2>2
<1>5. CASE next = slice.len
  <2>1. consumer' = Waiting
    BY <1>1, <1>5 DEF NextSubscriber
  <2>2. ~Serving'
    BY <2>1 DEF Serving, Waiting
  <2>3. \A s \in due : Gone(s)
    <3>1. \A p : p \notin next + 1 .. slice.len
      BY <1>3, <1>5
    <3> QED
      BY <1>4, <3>1
  <2> QED
    BY <2>2, <2>3 DEF Distribution
<1>6. CASE next # slice.len
  <2>1. /\ consumer'.at = "offering" /\ consumer'.next = next + 1 /\ consumer'.due = due
        /\ consumer'.update = k /\ consumer'.symbol = x /\ consumer'.slice = slice
    BY <1>1, <1>6 DEF NextSubscriber, UpdateInv
  <2>2. next + 1 \in 1 .. slice.len
    BY <1>2, <1>3, <1>6
  <2>3. \A s \in due : Gone(s)' \/ Ahead(s)'
    <3> SUFFICES ASSUME NEW s \in due, ~Gone(s)
                 PROVE  Ahead(s)'
      BY GoneForEver DEF AtHand
    <3>1. PICK p \in next + 1 .. slice.len : Cell(x, slice, p) = s /\ Within(p, x, slice.array)
      BY <1>4
    <3>2. Cell(x, slice, p)' = s /\ Within(p, x, slice.array)'
      BY <3>1, WithinStays DEF Cell
    <3>3. Cell(consumer.symbol, consumer.slice, p)' = s /\ Within(p, consumer.symbol, consumer.slice.array)'
      BY <2>1, <3>2 DEF Cell, Within
    <3> QED
      BY <2>1, <3>1, <3>3 DEF Ahead
  <2>4. \A s \in due : s \in DOMAIN subs' /\ Settled(s)' /\ Matches(s, Data(consumer.update))'
    <3>1. \A s \in due : s \in DOMAIN subs /\ Settled(s) /\ Matches(s, Data(consumer.update))
      BY DEF AtHand
    <3>2. Data(consumer.update)' = Data(consumer.update)
      BY <1>1, <2>1 DEF Data
    <3> QED
      BY <3>1, <3>2, WithinStays DEF SubsKept, Matches
  <2>5. consumer'.update \in DOMAIN updates' /\ updates'[consumer'.update].phase = "intact" /\ Data(consumer.update)' = Data(k)
    BY <1>1, <2>1 DEF AtHand, Data
  <2>6. Data(k).symbol \in Symbols
    BY <1>1 DEF AtHand
  <2>7. AtHand'
    BY <1>2, <2>1, <2>2, <2>3, <2>4, <2>5, <2>6 DEF AtHand
  <2> QED
    BY <1>1, <2>1, <2>7 DEF Distribution, Serving
<1> QED
  BY <1>5, <1>6

\* the consumer takes the mutex
LEMMA LookKeeps ==
    ASSUME SubTypes, AllKept, UpdateInv, Serving, AtHand, SubsKept, Look
    PROVE  Distribution' /\ (consumer'.update = None => \A s \in consumer.due : Gone(s))
<1>1. PICK x, k, due : x = Data(consumer.update).symbol /\ k = consumer.update /\ due = consumer.due
  OBVIOUS
<1>2. Reads(consumer.update, "symbol") = {x}
  BY <1>1, IntactReads DEF AtHand
<1>3. consumer' = IF x \notin DOMAIN listed THEN Waiting
                  ELSE IF listed[x].len = 0 THEN Waiting
                  ELSE [consumer EXCEPT !.at = "offering", !.symbol = x, !.slice = listed[x]]
  BY <1>2 DEF Look
<1>4. UNCHANGED <<subs, updates, calls, listed, arrays, contended>>
  BY DEF Look, subVars
<1>5. x \in Symbols /\ Kept(x)
  BY <1>1 DEF AtHand, Serving, AllKept
<1>6. \A s \in due : s \in Subs /\ (Gone(s) \/ Subscribed(s, x))
  <2>1. \A s \in due : s \in DOMAIN subs /\ Settled(s) /\ x \in Range(Requests[s].symbols)
    BY <1>1 DEF AtHand, Matches
  <2> QED
    BY <2>1 DEF Subscribed, Settled, ToCome, SubTypes, MapTypes
<1>7. \A s \in due : Gone(s) \/ Has(x, Listed(x), s)
  BY <1>5, <1>6 DEF Kept
<1>8. CASE x \notin DOMAIN listed \/ (x \in DOMAIN listed /\ listed[x].len = 0)
  <2>1. consumer' = Waiting
    BY <1>3, <1>8
  <2>2. ~Serving'
    BY <2>1 DEF Serving, Waiting
  <2>3. Listed(x).len = 0
    BY <1>8 DEF Listed, Empty
  <2>4. \A s \in due : Gone(s)
    BY <1>7, <2>3 DEF Has
  <2> QED
    BY <1>1, <2>2, <2>4 DEF Distribution
<1>9. CASE x \in DOMAIN listed /\ listed[x].len # 0
  <2>1. PICK slice \in Slices : slice = listed[x] /\ Proper(x, slice) /\ slice.len # 0
    BY <1>9 DEF SubTypes, ListTypes
  <2>2. Listed(x) = slice /\ Listed(x)' = slice
    BY <1>4, <1>9, <2>1 DEF Listed
  <2>3. /\ consumer'.at = "offering" /\ consumer'.symbol = x /\ consumer'.slice = slice /\ consumer'.due = due
        /\ consumer'.update = k /\ consumer'.next = 1
    BY <1>1, <1>3, <1>9, <2>1 DEF UpdateInv, AtHand, Look
  <2>4. slice.len \in Nat /\ 1 \in 1 .. slice.len /\ slice.array \in DOMAIN arrays[x]
    BY <2>1 DEF Slices, Proper
  <2>5. ASSUME NEW c \in Callers, calls[c].at \in Holding, Symbol(c) = x
        PROVE  /\ \A d \in Callers : calls[d].at \in Holding /\ Symbol(d) = x => d = c
               /\ calls[c].slice \in Slices
               /\ calls[c].slice = slice \/ \A s \in due : Gone(s) \/ Has(x, calls[c].slice, s)
    <3>1. \A d \in Callers : calls[d].at \in Holding /\ Symbol(d) = x => InHand(d, x)
      BY DEF InHand, Holding
    <3>2. InHand(c, x) /\ Handled(c, x)
      BY <1>5, <2>5, <3>1 DEF Kept
    <3>3. calls[c].slice \in Slices
      BY DEF SubTypes, CallTypes, Calls
    <3>4. CASE calls[c].at = "writing"
      BY <1>5, <1>6, <2>5, <3>1, <3>2, <3>3, <3>4 DEF Kept, Handled
    <3>5. CASE calls[c].at # "writing"
      <4>1. calls[c].slice = slice
        BY <2>2, <2>5, <3>2, <3>5 DEF Handled, Holding
      <4> QED
        BY <1>5, <2>5, <3>1, <3>3, <4>1 DEF Kept
    <3> QED
      BY <3>4, <3>5
  <2>6. ASSUME NEW s \in due, ~Gone(s)
        PROVE  \E p \in 1 .. slice.len : Cell(x, slice, p) = s /\ Within(p, x, slice.array)
    <3>1. PICK p \in 1 .. slice.len : Cell(x, slice, p) = s
      BY <1>7, <2>2, <2>6 DEF Has
    <3>2. CASE \E c \in Callers : /\ calls[c].at \in Holding /\ Symbol(c) = x
                                 /\ calls[c].slice.array = slice.array /\ calls[c].slice.len < slice.len
      <4>1. PICK c \in Callers : /\ calls[c].at \in Holding /\ Symbol(c) = x
                                 /\ calls[c].slice.array = slice.array /\ calls[c].slice.len < slice.len
        BY <3>2
      <4>2. PICK other \in Slices : other = calls[c].slice /\ (\A d \in Callers : calls[d].at \in Holding /\ Symbol(d) = x => d = c)
        BY <2>5, <4>1
      <4>3. other.len \in Nat /\ other.len < slice.len /\ other.array = slice.array
        BY <4>1, <4>2 DEF Slices
      <4>4. Has(x, other, s)
        BY <2>4, <2>5, <2>6, <4>1, <4>2, <4>3
      <4>5. PICK q \in 1 .. other.len : Cell(x, other, q) = s
        BY <4>4 DEF Has
      <4>6. q \in 1 .. slice.len /\ q <= slice.len /\ q <= other.len
        BY <2>4, <4>3
      <4>7. Cell(x, slice, q) = s
        BY <4>3, <4>5 DEF Cell
      <4>8. Within(q, x, slice.array)
        BY <2>2, <4>2, <4>6 DEF Within
      <4> QED
        BY <4>6, <4>7, <4>8
    <3>3. CASE \A c \in Callers : ~(/\ calls[c].at \in Holding /\ Symbol(c) = x
                                   /\ calls[c].slice.array = slice.array /\ calls[c].slice.len < slice.len)
      <4>1. ASSUME NEW c \in Callers, calls[c].at \in Holding, Symbol(c) = x, calls[c].slice.array = slice.array
            PROVE  p <= calls[c].slice.len
        <5>1. ~(calls[c].slice.len < slice.len)
          BY <3>3, <4>1
        <5>2. PICK n \in Nat : n = calls[c].slice.len
          BY <2>5, <4>1 DEF Slices
        <5> QED
          BY <2>4, <5>1, <5>2
      <4>2. Within(p, x, slice.array)
        BY <2>2, <2>4, <4>1 DEF Within
      <4> QED
        BY <3>1, <4>2
    <3> QED
      BY <3>2, <3>3
  <2>7. \A s \in due : Gone(s)' \/ Ahead(s)'
    <3> SUFFICES ASSUME NEW s \in due, ~Gone(s)
                 PROVE  Ahead(s)'
      BY <1>1, GoneForEver DEF AtHand
    <3>1. PICK p \in 1 .. slice.len : Cell(x, slice, p) = s /\ Within(p, x, slice.array)
      BY <2>6
    <3>2. Cell(x, slice, p)' = s /\ Within(p, x, slice.array)'
      BY <1>4, <3>1, WithinStays DEF Cell
    <3>3. Cell(consumer.symbol, consumer.slice, p)' = s /\ Within(p, consumer.symbol, consumer.slice.array)'
      BY <2>3, <3>2 DEF Cell, Within
    <3> QED
      BY <2>3, <3>1, <3>3 DEF Ahead
  <2>8. \A s \in due : s \in DOMAIN subs' /\ Settled(s)' /\ Matches(s, Data(consumer.update))'
    <3>1. \A s \in due : s \in DOMAIN subs /\ Settled(s) /\ Matches(s, Data(consumer.update))
      BY <1>1 DEF AtHand
    <3>2. Data(consumer.update)' = Data(consumer.update)
      BY <1>1, <1>4, <2>3 DEF Data
    <3> QED
      BY <1>4, <3>1, <3>2, WithinStays DEF SubsKept, Matches
  <2>9. consumer'.update \in DOMAIN updates' /\ updates'[consumer'.update].phase = "intact" /\ Data(consumer.update)'.symbol = x
    BY <1>1, <1>4, <2>3 DEF AtHand, Data
  <2>10. AtHand'
    BY <1>4, <1>5, <2>3, <2>4, <2>7, <2>8, <2>9 DEF AtHand
  <2> QED
    BY <1>1, <2>3, <2>10 DEF Distribution, Serving
<1> QED
  BY <1>8, <1>9

\* the next subscriber of the list is offered the update ...
LEMMA ConsiderKeeps ==
    ASSUME UpdateInv, Serving, AtHand, SubsKept, Consider
    PROVE  Distribution' /\ (consumer'.update = None => \A s \in consumer.due : Gone(s))
<1>1. PICK s, type : s = Cell(consumer.symbol, consumer.slice, consumer.next) /\ type = Data(consumer.update).type
  OBVIOUS
<1>2. Reads(consumer.update, "type") = {type}
  BY <1>1, IntactReads DEF AtHand
<1>3. IF subs[s].active /\ type \in Requests[s].types
      THEN consumer' = [consumer EXCEPT !.at = "sending", !.sub = s] ELSE NextSubscriber
  BY <1>1, <1>2 DEF Consider
<1>4. UNCHANGED <<subs, updates, calls, listed, arrays, contended>> /\ consumer.at = "offering"
  BY DEF Consider, subVars
<1>5. CASE subs[s].active /\ type \in Requests[s].types
  <2>1. PICK x, slice, next, due, k :
        x = consumer.symbol /\ slice = consumer.slice /\ next = consumer.next /\ due = consumer.due /\ k = consumer.update
    OBVIOUS
  <2>2. /\ consumer'.at = "sending" /\ consumer'.symbol = x /\ consumer'.slice = slice /\ consumer'.next = next
        /\ consumer'.due = due /\ consumer'.update = k /\ consumer'.sub = s
    BY <1>3, <1>5, <2>1 DEF UpdateInv
  <2>3. \A t \in due : Gone(t)' \/ Ahead(t)'
    <3> SUFFICES ASSUME NEW t \in due, ~Gone(t)
                 PROVE  Ahead(t)'
      BY <2>1, GoneForEver DEF AtHand
    <3>1. PICK p \in next .. slice.len : Cell(x, slice, p) = t /\ Within(p, x, slice.array)
      BY <1>4, <2>1 DEF AtHand, Ahead
    <3>2. Cell(x, slice, p)' = t /\ Within(p, x, slice.array)'
      BY <1>4, <3>1, WithinStays DEF Cell
    <3>3. Cell(consumer.symbol, consumer.slice, p)' = t /\ Within(p, consumer.symbol, consumer.slice.array)'
      BY <2>2, <3>2 DEF Cell, Within
    <3>4. p = next => t = s
      BY <1>1, <2>1, <3>1
    <3> QED
      BY <2>2, <3>1, <3>3, <3>4 DEF Ahead
  <2>4. \A t \in due : t \in DOMAIN subs' /\ Settled(t)' /\ Matches(t, Data(consumer.update))'
    <3>1. \A t \in due : t \in DOMAIN subs /\ Settled(t) /\ Matches(t, Data(consumer.update))
      BY <2>1 DEF AtHand
    <3>2. Data(consumer.update)' = Data(consumer.update)
      BY <1>4, <2>1, <2>2 DEF Data
    <3> QED
      BY <1>4, <3>1, <3>2, WithinStays DEF SubsKept, Matches
  <2>5. /\ consumer'.update \in DOMAIN updates' /\ updates'[consumer'.update].phase = "intact"
        /\ Data(consumer.update)'.symbol = x /\ x \in Symbols
    BY <1>4, <2>1, <2>2 DEF AtHand, Data
  <2>6. slice \in Slices /\ next \in 1 .. slice.len /\ slice.array \in DOMAIN arrays'[x]
    BY <1>4, <2>1 DEF AtHand
  <2>7. AtHand'
    BY <2>2, <2>3, <2>4, <2>5, <2>6 DEF AtHand
  <2> QED
    BY <2>1, <2>2, <2>7 DEF Distribution, Serving
<1>6. CASE ~(subs[s].active /\ type \in Requests[s].types)
  <2>1. s \in consumer.due => Gone(s)
    BY <1>1, <1>6 DEF AtHand, Matches, Gone
  <2>2. PICK due : due = consumer.due
    OBVIOUS
  <2>3. due = IF consumer.at = "sending" THEN consumer.due \ {consumer.sub} ELSE consumer.due
    BY <1>4, <2>2
  <2>4. \A t \in due : t = Cell(consumer.symbol, consumer.slice, consumer.next) /\ consumer.at = "offering" => Gone(t)
    BY <1>1, <2>1, <2>2
  <2> QED
    BY <1>3, <1>4, <1>6, <2>2, <2>3, <2>4, NextKeeps
<1> QED
  BY <1>5, <1>6

\* ... and has it, or a warning, or no room for either
LEMMA SendKeeps ==
    ASSUME UpdateInv, Serving, AtHand, SubsKept, Send
    PROVE  Distribution' /\ (consumer'.update = None => \A s \in consumer.due : Gone(s) \/ s = consumer.sub)
<1>1. UNCHANGED <<updates, calls, listed, arrays, contended>> /\ consumer.at = "sending"
  BY DEF Send
<1>2. CASE NextSubscriber
  <2>1. PICK due : due = IF consumer.at = "sending" THEN consumer.due \ {consumer.sub} ELSE consumer.due
    OBVIOUS
  <2>2. Distribution' /\ (consumer'.update = None => \A s \in due : Gone(s))
    BY <1>1, <1>2, <2>1, NextKeeps
  <2> QED
    BY <1>1, <2>1, <2>2
<1>3. CASE UNCHANGED consumer
  <2>1. AtHand'
    <3>1. /\ \A p, x, a : Within(p, x, a) <=> Within(p, x, a)'
          /\ \A s : Settled(s) <=> Settled(s)'
      BY <1>1, WithinStays
    <3> QED
      BY <1>1, <1>3, <3>1, AtHandStays DEF AtHand
  <2> QED
    BY <1>1, <1>3, <2>1 DEF Distribution, Serving, AtHand
<1> QED
  BY <1>2, <1>3 DEF Send


\* A step of a call: it subscribes nobody who was there, and what it does to the
\* list at hand is past what is ahead in it.
LEMMA HandStays ==
    ASSUME SubTypes, SubsKept, AtHand, UNCHANGED updates, NEW c \in Callers, NEW call, NEW new, call = calls[c],
           consumer'.update = consumer.update, consumer'.at = consumer.at, consumer'.due = consumer.due,
           consumer'.symbol = consumer.symbol, consumer'.slice = consumer.slice, consumer'.next = consumer.next,
           consumer'.sub = consumer.sub,
           calls' = [calls EXCEPT ![c] = new],
           new.op = "subscribe" => new.sub \notin DOMAIN subs \/ (call.op = "subscribe" /\ new.sub = call.sub),
           \A x \in Symbols : DOMAIN arrays[x] \subseteq DOMAIN arrays'[x],
           ASSUME NEW x \in Symbols, NEW a \in DOMAIN arrays[x], a # 0, x = consumer.symbol, a = consumer.slice.array,
                  NEW p \in Nat, p >= 1, Within(p, x, a)
           PROVE  /\ arrays'[x][a][p] = arrays[x][a][p]
                  /\ Listed(x)'.array = a => p <= Listed(x)'.len
                  /\ new.at \in Holding /\ Head(new.left) = x /\ new.slice.array = a => p <= new.slice.len
    PROVE  AtHand'
<1>1. calls'[c] = new /\ \A d \in Callers \ {c} : calls'[d] = calls[d]
  BY DEF SubTypes, CallTypes
<1>2. \A s \in DOMAIN subs : Settled(s) => Settled(s)'
  BY <1>1 DEF Settled
<1>3. ASSUME consumer.at # "looking"
      PROVE  consumer.symbol \in Symbols /\ consumer.slice \in Slices /\ consumer.slice.array \in DOMAIN arrays[consumer.symbol]
             /\ consumer.slice.array # 0
  <2>1. PICK x \in Symbols, slice \in Slices : x = consumer.symbol /\ slice = consumer.slice /\ slice.array \in DOMAIN arrays[x]
    BY <1>3 DEF AtHand
  <2>2. arrays[x] \in Seq(Arrays)
    BY DEF SubTypes, ListTypes
  <2>3. slice.array # 0
    BY <2>1, <2>2, LenProperties
  <2> QED
    BY <2>1, <2>3
<1>4. ASSUME NEW x, NEW a, NEW p, consumer.at # "looking", x = consumer.symbol, a = consumer.slice.array, Within(p, x, a),
             p \in 1 .. consumer.slice.len
      PROVE  Within(p, x, a)' /\ arrays'[x][a][p] = arrays[x][a][p]
  <2>1. p \in Nat /\ p <= consumer.slice.len /\ p >= 1
    BY <1>3, <1>4 DEF Slices
  <2>2. /\ arrays'[x][a][p] = arrays[x][a][p]
        /\ Listed(x)'.array = a => p <= Listed(x)'.len
        /\ new.at \in Holding /\ Head(new.left) = x /\ new.slice.array = a => p <= new.slice.len
    BY <1>3, <1>4, <2>1
  <2>3. ASSUME NEW d \in Callers, calls'[d].at \in Holding, Symbol(d)' = x, calls'[d].slice.array = a
        PROVE  p <= calls'[d].slice.len
    <3>1. CASE d = c
      BY <1>1, <2>2, <2>3, <3>1 DEF Symbol
    <3>2. CASE d # c
      BY <1>1, <1>4, <2>3, <3>2 DEF Symbol, Within
    <3> QED
      BY <3>1, <3>2
  <2> QED
    BY <2>2, <2>3 DEF Within
<1>5. consumer.at # "looking" => DOMAIN arrays[consumer.symbol] \subseteq DOMAIN arrays'[consumer.symbol]
  BY <1>3
<1> QED
  BY <1>2, <1>4, <1>5, AtHandStays DEF AtHand

\* one that leaves every list, and what it has in hand, as it is
LEMMA HandAlone ==
    ASSUME SubTypes, SubsKept, AtHand, UNCHANGED <<updates, consumer, listed, arrays>>, NEW c \in Callers, NEW call, NEW new,
           call = calls[c], calls' = [calls EXCEPT ![c] = new],
           new.op = "subscribe" => new.sub \notin DOMAIN subs \/ (call.op = "subscribe" /\ new.sub = call.sub),
           new.at \in Holding => call.at \in Holding /\ new.left = call.left /\ new.slice = call.slice
    PROVE  AtHand'
<1>1. ASSUME NEW x \in Symbols, NEW a \in DOMAIN arrays[x], a # 0, x = consumer.symbol, a = consumer.slice.array,
             NEW p \in Nat, p >= 1, Within(p, x, a)
      PROVE  /\ arrays'[x][a][p] = arrays[x][a][p]
             /\ Listed(x)'.array = a => p <= Listed(x)'.len
             /\ new.at \in Holding /\ Head(new.left) = x /\ new.slice.array = a => p <= new.slice.len
  BY <1>1 DEF Within, Listed, Symbol
<1> QED
  BY <1>1, HandStays

\* Making an empty list, or reading one, puts nothing in hand that was not listed.
LEMMA ReadHand ==
    ASSUME SubTypes, SubsKept, AtHand, NEW c \in Callers, MakeEmpty(c) \/ ReadList(c)
    PROVE  AtHand'
<1>1. PICK call \in Calls : call = calls[c]
  BY DEF SubTypes, CallTypes
<1>2. UNCHANGED <<updates, consumer, arrays>>
  BY DEF MakeEmpty, ReadList, procVars
<1>3. CASE MakeEmpty(c)
  <2>1. PICK new : new = [call EXCEPT !.at = "reading"]
    OBVIOUS
  <2>2. calls' = [calls EXCEPT ![c] = new] /\ new.op = call.op /\ new.sub = call.sub /\ new.at = "reading"
    BY <1>1, <1>3, <2>1 DEF MakeEmpty, Calls
  <2>3. ASSUME NEW x, NEW a, a # 0, NEW p, Within(p, x, a)
        PROVE  Listed(x)'.array = a => p <= Listed(x)'.len
    BY <1>3, <2>3 DEF MakeEmpty, Put, Listed, Empty, Within
  <2> QED
    BY <1>1, <1>2, <2>2, <2>3, HandStays DEF Holding
<1>4. CASE ReadList(c)
  <2>1. PICK new : new = [call EXCEPT !.at = IF call.op = "subscribe" THEN "appending" ELSE "searching",
                                      !.slice = Listed(Symbol(c))]
    OBVIOUS
  <2>2. calls' = [calls EXCEPT ![c] = new]
    BY <1>1, <1>4, <2>1 DEF ReadList, Takes, Listed
  <2>3. new.op = call.op /\ new.sub = call.sub /\ new.left = call.left /\ new.slice = Listed(Head(call.left))
    BY <1>1, <2>1 DEF Calls, Symbol
  <2>4. \A x : Listed(x)' = Listed(x)
    BY <1>4 DEF ReadList, Listed
  <2>5. ASSUME NEW x, NEW a, NEW p, Within(p, x, a)
        PROVE  /\ Listed(x)'.array = a => p <= Listed(x)'.len
               /\ Head(new.left) = x /\ new.slice.array = a => p <= new.slice.len
    BY <2>3, <2>4, <2>5 DEF Within
  <2> QED
    BY <1>1, <1>2, <2>2, <2>3, <2>5, HandStays
<1> QED
  BY <1>3, <1>4

\* An append goes past it, or into another array.
LEMMA AppendHand ==
    ASSUME SubTypes, SubsKept, AtHand, NEW c \in Callers, AppendTo(c)
    PROVE  AtHand'
<1>1. PICK call \in Calls : call = calls[c] /\ call.at = "appending"
  BY DEF SubTypes, CallTypes, AppendTo
<1>2. PICK y \in Symbols, old \in Slices, slice \in Slices : Appends(c, y, old, slice)
  BY AppendWrites
<1>3. UNCHANGED <<updates, consumer, listed>>
  BY DEF AppendTo, procVars
<1>4. PICK new : new = [call EXCEPT !.at = "writing", !.slice = slice]
  OBVIOUS
<1>5. /\ calls' = [calls EXCEPT ![c] = new] /\ new.op = call.op /\ new.sub = call.sub
      /\ new.left = call.left /\ new.slice = slice
  BY <1>1, <1>2, <1>4 DEF Appends, Calls
<1>6. y = Head(call.left) /\ y = Symbol(c) /\ old = call.slice /\ slice.len = old.len + 1 /\ old.len \in Nat
  BY <1>1, <1>2 DEF Appends, Symbol, Slices
<1>7. \A x \in Symbols : DOMAIN arrays[x] \subseteq DOMAIN arrays'[x]
  BY <1>2 DEF Appends, Grown
<1>8. ASSUME NEW x \in Symbols, NEW a \in DOMAIN arrays[x], NEW p \in Nat, p >= 1, Within(p, x, a)
      PROVE  /\ arrays'[x][a][p] = arrays[x][a][p]
             /\ Listed(x)'.array = a => p <= Listed(x)'.len
             /\ Head(new.left) = x /\ new.slice.array = a => p <= new.slice.len
  <2>1. Listed(x)'.array = a => p <= Listed(x)'.len
    BY <1>3, <1>8 DEF Listed, Within
  <2>2. CASE x # y
    BY <1>2, <1>5, <1>6, <2>1, <2>2 DEF Appends
  <2>3. CASE x = y /\ slice.array # a
    BY <1>2, <1>5, <2>1, <2>3 DEF Appends
  <2>4. CASE x = y /\ slice.array = a
    <3>1. old.array = a
      BY <1>2, <2>4 DEF Appends
    <3>2. p <= old.len
      BY <1>1, <1>6, <1>8, <2>4, <3>1 DEF Within, Holding
    <3>3. p # slice.len /\ p <= slice.len
      BY <1>6, <3>2
    <3> QED
      BY <1>2, <1>5, <2>1, <2>4, <3>3 DEF Appends
  <2> QED
    BY <2>2, <2>3, <2>4
<1> QED
  BY <1>1, <1>3, <1>5, <1>7, <1>8, HandStays

\* One that takes an element out writes into another array, or the update is raced.
LEMMA TakeOutHand ==
    ASSUME SubTypes, SubsKept, UpdateInv, AtHand, NEW c \in Callers, TakeOut(c), ~consumer'.raced
    PROVE  AtHand'
<1>1. PICK call \in Calls : call = calls[c] /\ call.at = "removing"
  BY DEF SubTypes, CallTypes, TakeOut
<1>2. PICK y \in Symbols, old \in Slices, slice \in Slices : TakesOut(c, y, old, slice)
  BY TakeOutWrites
<1>3. UNCHANGED <<updates, listed>>
  BY DEF TakeOut
<1>4. PICK new : new = [call EXCEPT !.at = "writing", !.slice = slice]
  OBVIOUS
<1>5. /\ calls' = [calls EXCEPT ![c] = new] /\ new.op = call.op /\ new.sub = call.sub
      /\ new.left = call.left /\ new.slice = slice
  BY <1>1, <1>2, <1>4 DEF TakesOut, Calls
<1>6. y = Head(call.left) /\ y = Symbol(c) /\ old = calls[c].slice /\ slice.array = old.array
  BY <1>1, <1>2 DEF TakesOut, Symbol
<1>7. \A x \in Symbols : DOMAIN arrays[x] \subseteq DOMAIN arrays'[x]
  BY <1>2 DEF TakesOut, Grown
<1>8. /\ consumer' = [consumer EXCEPT !.raced =
             consumer.raced \/ (Distributing /\ consumer.symbol = y /\ consumer.slice.array = old.array)]
      /\ DOMAIN consumer = {"at", "update", "symbol", "slice", "next", "sub", "due", "raced"}
  BY <1>6 DEF TakeOut, UpdateInv
<1>9. /\ consumer'.update = consumer.update /\ consumer'.at = consumer.at /\ consumer'.due = consumer.due
      /\ consumer'.symbol = consumer.symbol /\ consumer'.slice = consumer.slice /\ consumer'.next = consumer.next
      /\ consumer'.sub = consumer.sub
  BY <1>8
<1>10. ~(Distributing /\ consumer.symbol = y /\ consumer.slice.array = old.array)
  BY <1>8
<1>11. CASE consumer.at = "looking"
  <2>1. \A x, a, p : ~(consumer.at # "looking" /\ x = consumer.symbol /\ a = consumer.slice.array /\ Within(p, x, a)
               /\ p \in 1 .. consumer.slice.len)
    BY <1>11
  <2>2. calls'[c] = new /\ \A d \in Callers \ {c} : calls'[d] = calls[d]
    BY <1>5 DEF SubTypes, CallTypes
  <2>3. \A s \in DOMAIN subs : Settled(s) => Settled(s)'
    BY <1>1, <1>5, <2>2 DEF Settled
  <2> QED
    BY <1>3, <1>9, <1>11, <2>1, <2>3, AtHandStays DEF AtHand
<1>12. CASE consumer.at # "looking"
  <2>1. ASSUME NEW x \in Symbols, NEW a \in DOMAIN arrays[x], a # 0, x = consumer.symbol, a = consumer.slice.array,
               NEW p \in Nat, p >= 1, Within(p, x, a)
        PROVE  /\ arrays'[x][a][p] = arrays[x][a][p]
               /\ Listed(x)'.array = a => p <= Listed(x)'.len
               /\ new.at \in Holding /\ Head(new.left) = x /\ new.slice.array = a => p <= new.slice.len
    <3>1. ~(x = y /\ a = old.array)
      BY <1>10, <1>12, <2>1 DEF AtHand, Distributing
    <3>2. Listed(x)'.array = a => p <= Listed(x)'.len
      BY <1>3, <2>1 DEF Listed, Within
    <3>3. arrays'[x][a][p] = arrays[x][a][p]
      BY <1>2, <3>1 DEF TakesOut
    <3> QED
      BY <1>5, <1>6, <3>1, <3>2, <3>3
  <2>2. new.op = "subscribe" => call.op = "subscribe" /\ new.sub = call.sub
    BY <1>5
  <2>3. UNCHANGED updates /\ calls' = [calls EXCEPT ![c] = new]
    BY <1>3, <1>5
  <2> QED
    BY <1>1, <1>7, <1>9, <2>1, <2>2, <2>3, HandStays
<1> QED
  BY <1>11, <1>12

\* What is written back was in hand.
LEMMA WriteBackHand ==
    ASSUME SubTypes, SubsKept, AtHand, NEW c \in Callers, WriteBack(c)
    PROVE  AtHand'
<1>1. PICK call \in Calls : call = calls[c] /\ Shaped(call) /\ call.at = "writing"
  BY DEF SubTypes, CallTypes, WriteBack
<1>2. call.op \in {"subscribe", "unsubscribe"} /\ call.left # <<>>
  BY <1>1 DEF Shaped, AtList, Calls
<1>3. UNCHANGED <<updates, consumer, arrays>> /\ listed' = Put(listed, Symbol(c), call.slice)
  BY <1>1 DEF WriteBack, procVars
<1>4. PICK new : new = Through(call)
  OBVIOUS
<1>5. /\ calls' = [calls EXCEPT ![c] = new] /\ new.at \notin Holding
      /\ new = Idle \/ (new.op = call.op /\ new.sub = call.sub)
  BY <1>1, <1>2, <1>4, ThroughShaped DEF WriteBack
<1>6. new.op = "subscribe" => call.op = "subscribe" /\ new.sub = call.sub
  BY <1>5 DEF Idle
<1>7. ASSUME NEW x, NEW a, NEW p, Within(p, x, a)
      PROVE  Listed(x)'.array = a => p <= Listed(x)'.len
  <2>1. CASE x = Symbol(c)
    <3>1. Listed(x)' = call.slice
      BY <1>3, <2>1 DEF Listed, Put
    <3> QED
      BY <1>1, <1>7, <2>1, <3>1 DEF Within, Holding
  <2>2. CASE x # Symbol(c)
    <3>1. Listed(x)' = Listed(x)
      BY <1>3, <2>2 DEF Listed, Put
    <3> QED
      BY <1>7, <3>1 DEF Within
  <2> QED
    BY <2>1, <2>2
<1> QED
  BY <1>1, <1>3, <1>5, <1>6, <1>7, HandStays

\* every step of a call
LEMMA CallHand ==
    ASSUME SubTypes, SubsKept, UpdateInv, AtHand, NEW c \in Callers, CallStep(c), ~consumer'.raced
    PROVE  AtHand'
<1>1. PICK call \in Calls : call = calls[c] /\ Shaped(call)
  BY DEF SubTypes, CallTypes
<1> USE DEF procVars
<1>2. CASE Register(c)
  <2>1. call.op = "subscribe"
    BY <1>1, <1>2 DEF Register, Shaped
  <2>2. PICK new : new = IF call.locked THEN Turn(call) ELSE Idle
    OBVIOUS
  <2>3. new = Idle \/ (new.op = call.op /\ new.sub = call.sub)
    BY <2>1, <2>2, TurnShaped
  <2>4. new.at \notin Holding
    BY <2>1, <2>2, TurnShaped DEF Idle, Holding
  <2>5. UNCHANGED <<updates, consumer, listed, arrays>> /\ calls' = [calls EXCEPT ![c] = new]
    BY <1>1, <1>2, <2>2 DEF Register
  <2> QED
    BY <1>1, <2>3, <2>4, <2>5, HandAlone DEF Idle
<1>3. CASE Close(c)
  <2>1. CASE UNCHANGED calls
    <3>1. calls' = [calls EXCEPT ![c] = call]
      BY <1>1, <2>1 DEF SubTypes, CallTypes
    <3>2. UNCHANGED <<updates, consumer, listed, arrays>>
      BY <1>3 DEF Close
    <3> QED
      BY <1>1, <3>1, <3>2, HandAlone
  <2>2. CASE calls' = [calls EXCEPT ![c].at = "deleting"]
    <3>1. PICK new : new = [call EXCEPT !.at = "deleting"]
      OBVIOUS
    <3>2. calls' = [calls EXCEPT ![c] = new] /\ new.op = call.op /\ new.sub = call.sub /\ new.at = "deleting"
      BY <1>1, <2>2, <3>1 DEF Calls
    <3>3. UNCHANGED <<updates, consumer, listed, arrays>>
      BY <1>3 DEF Close
    <3> QED
      BY <1>1, <3>2, <3>3, HandAlone DEF Holding
  <2> QED
    BY <1>3, <2>1, <2>2 DEF Close
<1>4. CASE Delete(c)
  <2>1. call.op = "unsubscribe"
    BY <1>1, <1>4 DEF Delete, Shaped
  <2>2. PICK new : new = Turn(call)
    OBVIOUS
  <2>3. (new = Idle \/ new.op = call.op) /\ new.at \notin Holding
    BY <2>1, <2>2, TurnShaped
  <2>4. UNCHANGED <<updates, consumer, listed, arrays>> /\ calls' = [calls EXCEPT ![c] = new]
    BY <1>1, <1>4, <2>2 DEF Delete
  <2> QED
    BY <1>1, <2>1, <2>3, <2>4, HandAlone DEF Idle
<1>5. CASE Check(c)
  <2>1. PICK at \in {"reading", "emptying"} : calls' = [calls EXCEPT ![c] = [calls[c] EXCEPT !.at = at]]
    BY <1>5 DEF Check, Takes
  <2>2. PICK new : new = [call EXCEPT !.at = at]
    OBVIOUS
  <2>3. calls' = [calls EXCEPT ![c] = new] /\ new.op = call.op /\ new.sub = call.sub /\ new.at = at
    BY <1>1, <2>1, <2>2 DEF Calls
  <2>4. UNCHANGED <<updates, consumer, listed, arrays>>
    BY <1>5 DEF Check
  <2> QED
    BY <1>1, <2>3, <2>4, HandAlone DEF Holding
<1>6. CASE Search(c)
  <2>1. call.op = "unsubscribe" /\ call.left # <<>> /\ call.at = "searching"
    BY <1>1, <1>6 DEF Search, Shaped, AtList
  <2>2. UNCHANGED <<updates, consumer, listed, arrays>>
    BY <1>6 DEF Search
  <2>3. CASE calls' = [calls EXCEPT ![c] = Through(calls[c])]
    <3>1. PICK new : new = Through(call)
      OBVIOUS
    <3>2. (new = Idle \/ new.op = call.op) /\ new.at \notin Holding
      BY <2>1, <3>1, ThroughShaped
    <3>3. calls' = [calls EXCEPT ![c] = new]
      BY <1>1, <2>3, <3>1
    <3> QED
      BY <1>1, <2>1, <2>2, <3>2, <3>3, HandAlone DEF Idle
  <2>4. CASE \E i : calls' = [calls EXCEPT ![c] = [calls[c] EXCEPT !.at = "removing", !.found = i]]
    <3>1. PICK i : calls' = [calls EXCEPT ![c] = [calls[c] EXCEPT !.at = "removing", !.found = i]]
      BY <2>4
    <3>2. PICK new : new = [call EXCEPT !.at = "removing", !.found = i]
      OBVIOUS
    <3>3. /\ calls' = [calls EXCEPT ![c] = new] /\ new.op = call.op /\ new.sub = call.sub /\ new.left = call.left
          /\ new.slice = call.slice
      BY <1>1, <3>1, <3>2 DEF Calls
    <3> QED
      BY <1>1, <2>1, <2>2, <3>3, HandAlone DEF Holding
  <2> QED
    BY <1>6, <2>3, <2>4 DEF Search
<1> QED
  BY <1>2, <1>3, <1>4, <1>5, <1>6, ReadHand, AppendHand, TakeOutHand, WriteBackHand DEF CallStep

\* a call begins
LEMMA BeginHand ==
    ASSUME SubTypes, SubsKept, AtHand, NEW c \in Callers,
           \/ \E s \in Subs : SubscribeUnlocked(c, s) \/ \E id \in Ids : Subscribe(c, s, id)
           \/ \E id \in Ids \cup Subs, locked \in BOOLEAN : Unsubscribe(c, id, locked)
    PROVE  AtHand'
<1> USE DEF procVars
<1>1. PICK call : call = calls[c]
  OBVIOUS
<1>2. ASSUME NEW s \in Subs, NEW id \in Ids, Subscribe(c, s, id)
      PROVE  AtHand'
  <2>1. PICK new : new = Call("subscribe", TRUE, "registering", s, id)
    OBVIOUS
  <2>2. /\ calls' = [calls EXCEPT ![c] = new] /\ new.sub = s /\ s \notin DOMAIN subs /\ new.at = "registering"
        /\ UNCHANGED <<updates, consumer, listed, arrays>>
    BY <1>2, <2>1 DEF Subscribe, Call, Idle
  <2> QED
    BY <1>1, <2>2, HandAlone DEF Holding
<1>3. ASSUME NEW s \in Subs, SubscribeUnlocked(c, s)
      PROVE  AtHand'
  <2>1. PICK first : first = Call("subscribe", FALSE, "checking", s, s)
    OBVIOUS
  <2>2. first.op = "subscribe" /\ first.sub = s /\ first.left = Requests[s].symbols /\ first.left # <<>> /\ first \in Calls
    BY <1>3, <2>1, RequestsAssumption DEF SubscribeUnlocked, Call, Idle, Empty, Slices, Calls, Phases, AtList
  <2>3. PICK new : new = Turn(first)
    OBVIOUS
  <2>4. /\ calls' = [calls EXCEPT ![c] = new] /\ s \notin DOMAIN subs
        /\ UNCHANGED <<updates, consumer, listed, arrays>>
    BY <1>3, <2>1, <2>3 DEF SubscribeUnlocked
  <2>5. new.at \notin Holding /\ new.sub = s
    BY <2>2, <2>3, TurnShaped
  <2> QED
    BY <1>1, <2>4, <2>5, HandAlone
<1>4. ASSUME NEW id \in Ids \cup Subs, NEW locked \in BOOLEAN, Unsubscribe(c, id, locked)
      PROVE  AtHand'
  <2>1. PICK new : new = Call("unsubscribe", locked, "closing", byID[id], id)
    OBVIOUS
  <2>2. /\ calls' = [calls EXCEPT ![c] = new] /\ new.op = "unsubscribe" /\ new.at = "closing"
        /\ UNCHANGED <<updates, consumer, listed, arrays>>
    BY <1>4, <2>1 DEF Unsubscribe, Call, Idle
  <2> QED
    BY <1>1, <2>2, HandAlone DEF Holding
<1> QED
  BY <1>2, <1>3, <1>4

-----------------------------------------------------------------------------
\* an update that the DataProcessor has kept out of is as it was received
Unraced == consumer.update # None /\ ~consumer.raced
Intact == Unraced => consumer.update \in DOMAIN updates /\ updates[consumer.update].phase = "intact"

\* Nobody takes an update out of the topic again.
LEMMA Received ==
    ASSUME UpdateInv, Receive
    PROVE  \E data \in Messages : \E k :
              /\ consumer'.at = "looking" /\ consumer'.update = k /\ consumer'.next = 1
              /\ consumer'.due = {s \in DOMAIN subs : subs[s].active /\ Settled(s) /\ Matches(s, data)}
              /\ k \in DOMAIN updates' /\ updates'[k].data = data /\ updates'[k].phase = "intact"
<1>1. PICK data \in Messages :
              /\ updates' = Append(updates, [data |-> data, phase |-> "intact"])
              /\ consumer' = [Waiting EXCEPT !.at = "looking", !.update = Len(updates'),
                          !.due = {s \in DOMAIN subs : subs[s].active /\ Settled(s) /\ Matches(s, data)}]
  BY DEF Receive
<1>2. PICK due : due = {s \in DOMAIN subs : subs[s].active /\ Settled(s) /\ Matches(s, data)}
  OBVIOUS
<1>3. /\ consumer'.at = "looking" /\ consumer'.update = Len(updates') /\ consumer'.due = due /\ consumer'.next = 1
  BY <1>1, <1>2 DEF Waiting
<1> DEFINE new == [data |-> data, phase |-> "intact"]
<1>4. new \in Updates /\ new.data = data /\ new.phase = "intact"
  BY DEF Updates
<1>5. updates \in Seq(Updates) /\ updates' = Append(updates, new)
  BY <1>1 DEF UpdateInv
<1> HIDE DEF new
<1>6. updates' \in Seq(Updates) /\ Len(updates') = Len(updates) + 1 /\ updates'[Len(updates) + 1] = new
  BY <1>4, <1>5, AppendProperties
<1>7. Len(updates') \in DOMAIN updates' /\ updates'[Len(updates')] = new
  <2>1. Len(updates) \in Nat
    BY <1>5, LenProperties
  <2>2. DOMAIN updates' = 1 .. Len(updates')
    BY <1>6, LenProperties
  <2> QED
    BY <1>6, <2>1, <2>2
<1>8. PICK k : k = Len(updates')
  OBVIOUS
<1>9. consumer'.update = k /\ k \in DOMAIN updates' /\ updates'[k].data = data /\ updates'[k].phase = "intact"
  BY <1>3, <1>4, <1>7, <1>8
<1> QED
  BY <1>2, <1>3, <1>9

\* What the consumer has at hand unraced, no step changes.
LEMMA IntactStep ==
    ASSUME UpdateInv, Intact, [Next]_vars
    PROVE  /\ Intact'
           /\ Unraced' /\ ~Receive => /\ Unraced /\ consumer'.update = consumer.update
                                      /\ updates'[consumer.update] = updates[consumer.update]
                                      /\ consumer.update \in DOMAIN updates'
<1> USE DEF procVars
<1>1. CASE Receive
  BY <1>1, Received DEF Intact
<1> SUFFICES ASSUME Unraced', ~Receive
             PROVE  /\ Intact' /\ Unraced /\ consumer'.update = consumer.update
                    /\ updates'[consumer.update] = updates[consumer.update] /\ consumer.update \in DOMAIN updates'
  BY <1>1 DEF Intact
<1>w. consumer' # Waiting
  BY DEF Unraced, Waiting
<1>u. ASSUME UNCHANGED updates, consumer'.update = consumer.update, ~consumer'.raced => ~consumer.raced
      PROVE  /\ Intact' /\ Unraced /\ consumer'.update = consumer.update
             /\ updates'[consumer.update] = updates[consumer.update] /\ consumer.update \in DOMAIN updates'
  BY <1>u DEF Intact, Unraced
<1>d. DOMAIN consumer = {"at", "update", "symbol", "slice", "next", "sub", "due", "raced"}
  BY DEF UpdateInv
<1>n. ASSUME NextSubscriber
      PROVE  consumer'.update = consumer.update /\ consumer'.raced = consumer.raced
  <2>1. PICK due : consumer' = [consumer EXCEPT !.at = "offering", !.next = consumer.next + 1, !.sub = None, !.due = due]
    BY <1>n, <1>w DEF NextSubscriber
  <2> QED
    BY <1>d, <2>1
<1>2. CASE UNCHANGED <<consumer, updates>>
  BY <1>u, <1>2
<1>3. CASE Wait \/ PollFails
  BY <1>d, <1>u, <1>3 DEF Wait, PollFails, Goes
<1>4. CASE Look
  <2>1. PICK symbol : consumer' = [consumer EXCEPT !.at = "offering", !.symbol = symbol, !.slice = listed[symbol]]
    BY <1>4, <1>w DEF Look
  <2> QED
    BY <1>d, <1>u, <1>4, <2>1 DEF Look
<1>5. CASE Consider
  <2>1. consumer'.update = consumer.update /\ consumer'.raced = consumer.raced
    BY <1>d, <1>n, <1>5 DEF Consider
  <2> QED
    BY <1>u, <1>5, <2>1 DEF Consider
<1>6. CASE Send
  <2>1. consumer'.update = consumer.update /\ consumer'.raced = consumer.raced
    BY <1>n, <1>6 DEF Send
  <2> QED
    BY <1>u, <1>6, <2>1 DEF Send
<1>7. ASSUME NEW c \in Callers, TakeOut(c)
      PROVE  consumer'.update = consumer.update /\ (~consumer'.raced => ~consumer.raced) /\ UNCHANGED updates
  BY <1>d, <1>7 DEF TakeOut
<1>8. CASE Book
  <2>1. PICK k : k = dataProc.update
    OBVIOUS
  <2>2. updates' = [updates EXCEPT ![k].phase = "resetting"]
    BY <1>8, <2>1 DEF Book
  <2>3. consumer' = [consumer EXCEPT !.raced = consumer.raced \/ consumer.update = k]
    BY <1>8, <2>1 DEF Book
  <2>4. consumer'.update = consumer.update /\ ~consumer.raced /\ consumer.update # k
    BY <1>d, <2>3 DEF Unraced
  <2>5. Unraced /\ consumer.update \in DOMAIN updates /\ updates[consumer.update].phase = "intact"
    BY <2>4 DEF Unraced, Intact
  <2>6. updates'[consumer.update] = updates[consumer.update] /\ consumer.update \in DOMAIN updates'
    BY <2>2, <2>4, <2>5
  <2>7. updates'[consumer'.update].phase = "intact" /\ consumer'.update \in DOMAIN updates'
    BY <2>4, <2>5, <2>6
  <2> QED
    BY <2>4, <2>5, <2>6, <2>7 DEF Intact
<1>9. CASE Recycle
  <2>1. PICK k : k = dataProc.update
    OBVIOUS
  <2>2. updates' = [updates EXCEPT ![k] = [data |-> BlankData, phase |-> "blank"]] /\ UNCHANGED consumer
    BY <1>9, <2>1 DEF Recycle
  <2>3. updates[k].phase # "intact"
    BY <1>9, <2>1 DEF Recycle, UpdateInv
  <2>4. Unraced /\ consumer.update \in DOMAIN updates /\ updates[consumer.update].phase = "intact"
    BY <2>2 DEF Unraced, Intact
  <2>5. updates'[consumer.update] = updates[consumer.update] /\ consumer.update \in DOMAIN updates'
    BY <2>2, <2>3, <2>4
  <2>6. updates'[consumer'.update].phase = "intact" /\ consumer'.update \in DOMAIN updates'
    BY <2>2, <2>4, <2>5
  <2> QED
    BY <2>2, <2>4, <2>5, <2>6 DEF Intact
<1>10. CASE UNCHANGED vars
  BY <1>2, <1>10 DEF vars
<1>11. CASE Stop \/ StopReturns \/ CleanUp \/ CancelStart
  BY <1>2, <1>11 DEF Stop, StopReturns, CleanUp, CancelStart
<1>12. CASE PollPanics \/ StopDataProcessor \/ DataProcessorEnds \/ TakeFromFeed
  BY <1>2, <1>12 DEF PollPanics, StopDataProcessor, DataProcessorEnds, TakeFromFeed
<1>13. CASE \E s \in Subs : Take(s)
  BY <1>2, <1>13 DEF Take
<1>14. ASSUME NEW c \in Callers,
              \/ \E s \in Subs : SubscribeUnlocked(c, s) \/ \E id \in Ids : Subscribe(c, s, id)
              \/ \E id \in Ids \cup Subs, locked \in BOOLEAN : Unsubscribe(c, id, locked)
       PROVE  UNCHANGED <<consumer, updates>>
  BY <1>14 DEF SubscribeUnlocked, Subscribe, Unsubscribe
<1>15. ASSUME NEW c \in Callers, CallStep(c), ~TakeOut(c)
       PROVE  UNCHANGED <<consumer, updates>>
  BY <1>15 DEF CallStep, Register, Close, Delete, Check, MakeEmpty, ReadList, AppendTo, Search, WriteBack
<1> QED
  BY <1>2, <1>3, <1>4, <1>5, <1>6, <1>7, <1>u, <1>8, <1>9, <1>10, <1>11, <1>12, <1>13, <1>14, <1>15
     DEF Next, ConsumerStep, DataProcessorStep

DistInv == UpdateInv /\ SubTypes /\ AllKept /\ Intact /\ Distribution

Served == \A s \in consumer.due : Gone(s) \/ (consumer.at = "sending" /\ s = consumer.sub)

ServesAll == consumer.update # None /\ consumer'.update = None /\ Serving => Served

LEMMA DistStep == DistInv /\ [Next]_vars => DistInv' /\ ServesAll
<1> SUFFICES ASSUME DistInv, [Next]_vars
             PROVE  DistInv' /\ ServesAll
  OBVIOUS
<1> USE DEF procVars, subVars
<1>a. UpdateInv /\ SubTypes /\ AllKept /\ Intact /\ Distribution
  BY DEF DistInv
<1>b. UpdateInv' /\ SubTypes' /\ SubsKept /\ Intact'
  BY <1>a, UpdateStep, SubStep, IntactStep
<1>c. AllKept'
  BY <1>a, <1>b, KeptStep
<1>i. Unraced' /\ ~Receive => /\ Unraced /\ consumer'.update = consumer.update
                              /\ updates'[consumer.update] = updates[consumer.update]
                              /\ consumer.update \in DOMAIN updates'
  BY <1>a, IntactStep
<1> SUFFICES Distribution' /\ ServesAll
  BY <1>b, <1>c DEF DistInv
\* what is being distributed was before
<1>s. ASSUME ~Receive, contended \subseteq contended', Serving'
      PROVE  Serving /\ AtHand
  <2>1. Unraced /\ Data(consumer.update)' = Data(consumer.update)
    BY <1>i, <1>s DEF Serving, Unraced, Data
  <2>2. Serving
    BY <1>s, <2>1 DEF Serving, Unraced
  <2> QED
    BY <1>a, <2>2 DEF Distribution
\* the update stays at hand
<1>h. ASSUME ~Receive, consumer'.update = consumer.update, contended \subseteq contended', Serving' /\ AtHand => AtHand'
      PROVE  Distribution' /\ ServesAll
  BY <1>s, <1>h DEF Distribution, ServesAll
<1>e. ASSUME ~Receive, UNCHANGED <<listed, arrays, calls, contended>>, UNCHANGED consumer \/ Book
      PROVE  Distribution' /\ ServesAll
  <2>1. /\ consumer'.update = consumer.update /\ consumer'.at = consumer.at /\ consumer'.due = consumer.due
        /\ consumer'.symbol = consumer.symbol /\ consumer'.slice = consumer.slice /\ consumer'.next = consumer.next
        /\ consumer'.sub = consumer.sub
    BY <1>a, <1>e DEF Book, UpdateInv
  <2>2. ASSUME Serving', AtHand
        PROVE  AtHand'
    <3>1. consumer.update \in DOMAIN updates' /\ updates'[consumer.update] = updates[consumer.update]
      BY <1>i, <1>e, <2>2 DEF Serving, Unraced
    <3>2. /\ \A p, x, a : Within(p, x, a) <=> Within(p, x, a)'
          /\ \A s : Settled(s) <=> Settled(s)'
      BY <1>e, WithinStays
    <3> QED
      BY <1>b, <1>e, <2>1, <2>2, <3>1, <3>2, AtHandStays
  <2> QED
    BY <1>e, <1>h, <2>1, <2>2
<1>1. CASE UNCHANGED vars
  <2>1. ~Receive
    BY <1>1 DEF vars, Receive, Waiting
  <2> QED
    BY <1>e, <1>1, <2>1 DEF vars
<1>r. CASE Receive
  <2>1. PICK data \in Messages : \E k :
              /\ consumer'.at = "looking" /\ consumer'.update = k /\ consumer'.next = 1
              /\ consumer'.due = {s \in DOMAIN subs : subs[s].active /\ Settled(s) /\ Matches(s, data)}
              /\ k \in DOMAIN updates' /\ updates'[k].data = data /\ updates'[k].phase = "intact"
    BY <1>a, <1>r, Received
  <2>2. ~Serving
    BY <1>a, <1>r DEF Receive, Distribution, AtHand
  <2>3. UNCHANGED <<subs, calls>>
    BY <1>r DEF Receive
  <2>4. Data(consumer.update)' = data
    BY <2>1 DEF Data
  <2>5. \A s \in consumer'.due : s \in DOMAIN subs' /\ Settled(s)' /\ Matches(s, Data(consumer.update))'
    BY <2>1, <2>3, <2>4 DEF Settled, Matches
  <2>6. data.symbol \in Symbols
    BY MessagesAssumption
  <2>7. AtHand'
    BY <2>1, <2>4, <2>5, <2>6 DEF AtHand
  <2> QED
    BY <2>2, <2>7 DEF Distribution, ServesAll
<1> SUFFICES ASSUME ~Receive
             PROVE  Distribution' /\ ServesAll
  BY <1>r
<1>2. CASE Stop \/ StopReturns \/ CleanUp \/ CancelStart
  BY <1>e, <1>2 DEF Stop, StopReturns, CleanUp, CancelStart
<1>3. CASE Wait \/ PollFails
  <2>1. ~Serving
    BY <1>a, <1>3 DEF Wait, PollFails, Distribution, AtHand
  <2>2. UNCHANGED contended
    BY <1>3 DEF Wait, PollFails
  <2> QED
    BY <1>s, <2>1, <2>2 DEF Distribution, ServesAll
<1>4. CASE PollPanics \/ StopDataProcessor \/ DataProcessorEnds \/ TakeFromFeed \/ Book \/ Recycle
  BY <1>e, <1>4 DEF PollPanics, StopDataProcessor, DataProcessorEnds, TakeFromFeed, Book, Recycle
<1>5. CASE \E s \in Subs : Take(s)
  BY <1>e, <1>5 DEF Take
<1>l. ASSUME UNCHANGED contended, Serving /\ AtHand => Distribution' /\ (consumer'.update = None => Served)
      PROVE  Distribution' /\ ServesAll
  BY <1>a, <1>l, <1>s DEF Distribution, ServesAll
<1>6. CASE Look
  BY <1>a, <1>b, <1>l, <1>6, LookKeeps DEF Served, Look
<1>7. CASE Consider
  BY <1>a, <1>b, <1>l, <1>7, ConsiderKeeps DEF Served, Consider
<1>8. CASE Send
  BY <1>a, <1>b, <1>l, <1>8, SendKeeps DEF Served, Send
<1>9. ASSUME NEW c \in Callers,
             \/ \E s \in Subs : SubscribeUnlocked(c, s) \/ \E id \in Ids : Subscribe(c, s, id)
             \/ \E id \in Ids \cup Subs, locked \in BOOLEAN : Unsubscribe(c, id, locked)
      PROVE  Distribution' /\ ServesAll
  <2>1. UNCHANGED <<consumer, contended>>
    BY <1>9 DEF SubscribeUnlocked, Subscribe, Unsubscribe
  <2>2. AtHand => AtHand'
    BY <1>a, <1>b, <1>9, BeginHand
  <2> QED
    BY <1>h, <2>1, <2>2
<1>10. ASSUME NEW c \in Callers, CallStep(c)
       PROVE  Distribution' /\ ServesAll
  <2>1. contended \subseteq contended'
    BY <1>10 DEF CallStep, Register, Close, Delete, Check, Takes, MakeEmpty, ReadList, AppendTo, Search, TakeOut, WriteBack
  <2>2. consumer'.update = consumer.update
    BY <1>a, <1>10 DEF CallStep, Register, Close, Delete, Check, MakeEmpty, ReadList, AppendTo, Search, TakeOut, WriteBack, UpdateInv
  <2>3. Serving' /\ AtHand => AtHand'
    BY <1>a, <1>b, <1>10, CallHand DEF Serving
  <2> QED
    BY <1>h, <2>1, <2>2, <2>3
<1> QED
  BY <1>1, <1>2, <1>3, <1>4, <1>5, <1>6, <1>7, <1>8, <1>9, <1>10 DEF Next, ConsumerStep, DataProcessorStep

LEMMA DistInit == Init => DistInv
<1> SUFFICES ASSUME Init
             PROVE  DistInv
  OBVIOUS
<1>1. SubTypes
  <2>1. Idle \in Calls /\ Shaped(Idle) /\ Idle.op = "none" /\ Idle.at = "idle" /\ ~Idle.locked
    BY DEF Idle, Empty, Slices, Calls, Phases, AtList, Shaped
  <2>2. calls \in [Callers -> Calls] /\ \A c \in Callers : calls[c] = Idle
    BY <2>1 DEF Init
  <2>3. CallTypes
    BY <2>1, <2>2 DEF CallTypes, Sound, Holding
  <2>4. MapTypes /\ ListTypes
    BY DEF Init, MapTypes, ListTypes, Formed
  <2> QED
    BY <2>3, <2>4 DEF SubTypes
<1>2. UpdateInv
  <2>1. DOMAIN dataProc = {"at", "update", "stop"} /\ dataProc.at = "waiting"
    BY DEF Init
  <2>2. DOMAIN consumer = {"at", "update", "symbol", "slice", "next", "sub", "due", "raced"}
    BY DEF Init, Waiting
  <2>3. updates \in Seq(Updates) /\ feed \in Seq(DOMAIN updates)
    BY DEF Init
  <2> QED
    BY <2>1, <2>2, <2>3 DEF UpdateInv
<1>3. AllKept
  <2>1. \A c \in Callers : calls[c].at = "idle"
    BY DEF Init, Idle
  <2> QED
    BY <2>1 DEF Init, AllKept, Kept, InHand, Subscribed
<1>4. Intact /\ Distribution
  BY DEF Init, Waiting, Distribution, Serving, Intact, Unraced
<1> QED
  BY <1>1, <1>2, <1>3, <1>4 DEF DistInv

\* When the distribution of an update is over, every subscription that was made
\* before it and asked for its symbol and type has a copy, or word that there was
\* no room for one, whoever subscribes and cancels meanwhile, in steps as small as
\* a read of a list, however often a subscription names a symbol, whatever ids come
\* back and wherever appends put the elements of a list.  Exempt is what ServedOrTold
\* exempts: updates and lists that the DataProcessor changed under the distribution,
\* and symbols whose list two calls had in hand at once (distributeToSubscribers,
\* Subscribe and Unsubscribe, processor.go:225-334, data.go:96-179).
THEOREM SubscribersAreServed == Spec => ServedOrTold
<1>1. DistInv /\ [Next]_vars => DistInv'
  BY DistStep
<1>2. Spec => []DistInv
  BY <1>1, DistInit, PTL DEF Spec
<1> DEFINE Ends == consumer.update # None /\ consumer'.update = None =>
                       \/ consumer.raced \/ Data(consumer.update).symbol \in contended
                       \/ \A s \in consumer.due :
                             \/ consumer.at = "sending" /\ s = consumer.sub
                             \/ ~subs[s].active \/ Mistaken(s)
<1>3. DistInv /\ [Next]_vars => [Ends]_vars
  BY DistStep DEF ServesAll, Serving, Served, Gone
<1> QED
  BY <1>2, <1>3, PTL DEF Spec, ServedOrTold
=============================================================================
