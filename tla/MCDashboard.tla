----------------------------- MODULE MCDashboard -----------------------------
(***************************************************************************)
(* A small instance of Dashboard for TLC: two incidents, one of them with  *)
(* a response record, and filters that let both or one through.            *)
(***************************************************************************)
EXTENDS Dashboard

Severities == [f \in Filters |-> IF f = "all" THEN Incidents ELSE {"i1"}]

OfFirst == [r \in Records |-> "i1"]
=============================================================================
