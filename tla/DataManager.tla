------------------------------ MODULE DataManager ------------------------------
(***************************************************************************)
(* DataManager of internal/market/data.go: the last known data of every    *)
(* symbol and an index from an underlying to its derivatives.  Every       *)
(* method holds the mutex from end to end; RemoveOldData, which takes one  *)
(* turn of its loop after the other, holds it while stale is not empty.    *)
(* Of the data itself only what the index depends on is kept: the          *)
(* underlying that a symbol's DerivativeInfo names.  Timestamps come with  *)
(* the messages, so that any symbols may be the ones whose data are too    *)
(* old.                                                                    *)
(***************************************************************************)
EXTENDS Naturals, Sequences, FiniteSets, SequencesExt

CONSTANTS
    Symbols,
    NoInfo,   \* DerivativeInfo is nil
    NoName    \* the empty string: a derivative that names no underlying

ASSUME NamesAreApart == {NoInfo, NoName} \cap Symbols = {} /\ NoInfo # NoName

VARIABLES
    marketData,     \* by symbol, the underlying its data name; a partial function
    underlyingMap,  \* undilyingMap: by underlying, its derivatives; partial too
    stale           \* what RemoveOldData, if it runs, has yet to remove

dataVars == <<marketData, underlyingMap, stale>>

DataInit == marketData = <<>> /\ underlyingMap = <<>> /\ stale = {}

GetDerivatives(u) == IF u \in DOMAIN underlyingMap THEN underlyingMap[u] ELSE <<>>

-----------------------------------------------------------------------------
Put(f, key, value) == [k \in DOMAIN f \cup {key} |-> IF k = key THEN value ELSE f[k]]

addToUnderlyingMap(map, u, symbol) ==
    IF u \notin DOMAIN map THEN Put(map, u, <<symbol>>)
    ELSE IF symbol \in Range(map[u]) THEN map
    ELSE Put(map, u, Append(map[u], symbol))

\* the last one takes the place of the one that goes; an empty list stays
removeFromUnderlyingMap(map, u, symbol) ==
    IF u \in DOMAIN map /\ symbol \in Range(map[u])
    THEN LET list == map[u]
             i == CHOOSE j \in DOMAIN list : list[j] = symbol
         IN  Put(map, u, Front(ReplaceAt(list, i, Last(list))))
    ELSE map

Indexed(underlying) == underlying \notin {NoInfo, NoName}

\* (faulty variant: an update moves the data to the underlying it names)
Overwrites(data) ==
    /\ stale = {}
    /\ marketData' = Put(marketData, data.symbol, data.underlying)
    /\ underlyingMap' = IF Indexed(data.underlying)
                        THEN addToUnderlyingMap(underlyingMap, data.underlying, data.symbol)
                        ELSE underlyingMap
    /\ UNCHANGED stale

\* The DerivativeInfo of a known symbol keeps the underlying it came with,
\* whatever later updates say; one that had none takes that of the update.
UpdateMarketData(data) ==
    LET known == data.symbol \in DOMAIN marketData /\ marketData[data.symbol] # NoInfo
    IN  /\ stale = {}
        /\ marketData' = IF known THEN marketData ELSE Put(marketData, data.symbol, data.underlying)
        /\ underlyingMap' = IF ~known /\ Indexed(data.underlying)
                            THEN addToUnderlyingMap(underlyingMap, data.underlying, data.symbol)
                            ELSE underlyingMap
        /\ UNCHANGED stale

\* which data are too old does not change while the mutex is held
RemoveOldData ==
    /\ stale = {} /\ stale' \in (SUBSET DOMAIN marketData) \ {{}}
    /\ UNCHANGED <<marketData, underlyingMap>>

\* the loop over the map visits them in any order
RemoveNext ==
    \E s \in stale :
        /\ stale' = stale \ {s}
        /\ marketData' = [t \in DOMAIN marketData \ {s} |-> marketData[t]]
        /\ underlyingMap' = IF Indexed(marketData[s])
                            THEN removeFromUnderlyingMap(underlyingMap, marketData[s], s)
                            ELSE underlyingMap

-----------------------------------------------------------------------------
\* The index is exact: the derivatives of an underlying are the symbols whose
\* data name it, each once (data.go:399-467), although it is only maintained
\* when data appear, get their DerivativeInfo and are removed.
IndexIsExact ==
    \A u \in Symbols :
        /\ IsInjective(GetDerivatives(u))
        /\ Range(GetDerivatives(u)) = {s \in DOMAIN marketData : marketData[s] = u}
=============================================================================
