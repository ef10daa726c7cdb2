--------------------------- MODULE PortfolioStore ---------------------------
(***************************************************************************)
(* internal/store/portfolio.go: portfolios by ID, one lock.                *)
(*                                                                         *)
(* A portfolio is a record [id, positions].  The store holds the pointers  *)
(* it is given and hands them out; nothing changes a portfolio once it is  *)
(* stored, a new version is a new pointer.  DeletePortfolio is called      *)
(* nowhere.                                                                *)
(***************************************************************************)
CONSTANTS
    IDs,          \* portfolio IDs
    Portfolios,   \* versions of portfolios that may arrive
    None

ASSUME PortfoliosHaveIDs == None \notin Portfolios /\ \A p \in Portfolios : p.id \in IDs

VARIABLE portfolios

NewInMemoryPortfolioStore == portfolios = [id \in IDs |-> None]

\* None stands for the NotFound error
GetPortfolio(id) == portfolios[id]

GetAllPortfolios == {id \in IDs : portfolios[id] # None}

SavePortfolio(p) == portfolios' = [portfolios EXCEPT ![p.id] = p]
=============================================================================
