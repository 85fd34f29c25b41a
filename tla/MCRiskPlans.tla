----------------------------- MODULE MCRiskPlans -----------------------------
(***************************************************************************)
(* Candidates of one instrument compete for one place, one more of them    *)
(* than may be evaluated at a time.                                        *)
(***************************************************************************)
EXTENDS RiskPlans, TLC

=============================================================================
