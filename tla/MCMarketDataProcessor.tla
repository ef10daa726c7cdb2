------------------------- MODULE MCMarketDataProcessor -------------------------
(* A small instance of MarketDataProcessor for TLC: a share and an option on   *)
(* it, and documents that bring, omit and change what the option is on.        *)
EXTENDS MarketDataProcessor

CONSTANTS share, option, s1, s2, id1, c1, c2

Document(symbol, type, underlying) == [symbol |-> symbol, type |-> type, underlying |-> underlying]

ShareAndOption == {share, option}
Documents == {Document(option, "DEPTH", share), Document(option, "TRADE", NoInfo),
              Document(share, "TRADE", NoInfo), Document(option, "DEPTH", option)}
Interests == s1 :> [symbols |-> <<option>>, types |-> {"TRADE"}, buffer |-> 1] @@
             s2 :> [symbols |-> <<option, option>>, types |-> {"TRADE", "DEPTH"}, buffer |-> 0]
TwoSubs == {s1, s2}
OneId == {id1}
TwoCallers == {c1, c2}

busy == {c \in Callers : calls[c] # Idle}
canceled == {s \in DOMAIN subs : ~subs[s].active} \cup {calls[c].sub : c \in {d \in busy : calls[d].op = "unsubscribe"}}

\* Subscriptions touch neither the index of the DataManager nor the end of the
\* DataProcessor, and updates do not touch each other on their way to them:
\* behaviours are explored with three updates and cleanups, with two, the DataProcessor
\* and both Stops, or with subscriptions of which one is canceled, an update of the
\* option (a trade, if both are there), and a Stop after the context of Start was canceled.
OneAtATime ==
    IF subs = <<>> THEN Len(updates) < 3 \/ (stop = "no" /\ dataProc.stop = "no" /\ Len(feed) = 1)
    ELSE /\ dataProc.stop = "no" /\ cleaner = "off" /\ Len(updates) <= 1 /\ Cardinality(canceled) <= 1
         /\ DOMAIN marketData \subseteq {option}
         /\ \A s \in DOMAIN marketData : marketData[s] \in IF DOMAIN subs = Subs THEN {NoInfo} ELSE {NoInfo, share}

\* Into the middle of a call come steps of other calls and of a distribution, of
\* which the mutex keeps out the latter: it touches nothing else.  A look at the
\* map that finds a list is one step with what follows.
Together ==
    /\ busy # {} =>
          /\ UNCHANGED <<stop, dataProc>>
          /\ consumer.at \in {"waiting", "polling"} => consumer'.at \in {consumer.at, "looking"}
          /\ calls' = calls /\ consumer' = consumer => subs' = subs
    /\ \A c \in busy :
          /\ calls[c].locked => consumer' = consumer
          /\ calls[c].at = "checking" => (Symbol(c) \in DOMAIN listed => calls'[c] # calls[c])

\* Nobody begins a call between two polls, when the update has been distributed, or
\* taken by the DataProcessor, when Stop was called, or when ServedOrTold says nothing
\* any more; c2 begins one while c1, who is like c2, is in one.  A poll panics alike
\* with and without subscriptions.
Relevant ==
    /\ consumer.at = "polling" /\ panicked' => subs = <<>> \/ \E c \in busy : calls[c].at = "closing"
    /\ \/ consumer.at = "waiting" \/ stop # "no" \/ contended # {}
       \/ updates # <<>> /\ (consumer.update = None \/ feed = <<>>)
       => \A c \in Callers \ busy : calls'[c] = Idle
    /\ busy = {} => calls'[c2] = Idle

MCSpec == Init /\ [][Next /\ OneAtATime' /\ Together /\ Relevant]_vars /\ Fairness
=============================================================================
