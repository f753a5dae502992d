------------------------------ MODULE MCReader ------------------------------
(***************************************************************************)
(* Reader on one case.  A lending platform may submit and read, a credit   *)
(* officer may also answer, a stranger's key is not registered.            *)
(***************************************************************************)
EXTENDS Reader, TLC

CONSTANTS a1, w1, q1

OneCase    == {a1}
OneWorker  == {w1}
OneRequest == {q1}

MCKeys   == {"platform", "officer", "stranger"}
MCScopes == ("platform" :> {"caller"}) @@ ("officer" :> {"caller", "reviewer"})
=============================================================================
