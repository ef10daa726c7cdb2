----------------------------- MODULE RiskService -----------------------------
(***************************************************************************)
(* The risk engine and the hedging handlers over one portfolio store.  In  *)
(* the repository they sit in two programs, whose stores have the same     *)
(* code: a request here finds the store as an engine may leave it.         *)
(***************************************************************************)
EXTENDS RiskEngine, Hedging

vars == <<portfolios, engineVars, hedgeVars>>

Init == NewInMemoryPortfolioStore /\ EngineInit /\ HedgeInit

EngineStep == EngineNext /\ UNCHANGED hedgeVars
HedgeStep  == HedgeNext /\ UNCHANGED <<portfolios, engineVars>>

Next == EngineStep \/ HedgeStep

Spec == Init /\ [][Next]_vars

Fairness == EngineFairness
=============================================================================
