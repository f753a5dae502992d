--------------------------- MODULE MCDecisionGraph --------------------------
(***************************************************************************)
(* DecisionGraph on a small instance: a request about year 6, plans that   *)
(* may name years before and after it, the repository's default of two     *)
(* conflict retries.                                                       *)
(***************************************************************************)
EXTENDS DecisionGraph

MCFiscalYears == 3..8
MCTargetYears == {5, 6}
MCTargetYear  == 6
MCAllFaults   == {"provider", "data"}
MCProvider    == {"provider"}
MCNoFaults    == {}
=============================================================================
