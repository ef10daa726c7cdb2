---------------------------- MODULE MCEventPipeline ----------------------------
(* A small instance of EventPipeline for TLC: two symbols, two partitions.     *)
EXTENDS EventPipeline

CONSTANTS a, b

TwoSymbols == {a, b}
APartitionEach == a :> 1 @@ b :> 2

\* The caller of ProduceMessageSync and the Stop of the processor touch the events
\* nowhere: behaviours are explored with one of the three.
OneAtATime ==
    \/ stop = "no" /\ sync.at = "idle"
    \/ offered = {} /\ (stop = "no" \/ sync.at = "idle")
       /\ \A s \in DOMAIN engines : engines[s].emitted <= 1
MCSpec == Init /\ [][Next /\ OneAtATime']_vars /\ Fairness
=============================================================================
