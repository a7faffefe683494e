----------------------------- MODULE MCReviewedPlan -----------------------------
(* The three nodes of the management cluster, of which the second may be     *)
(* replaced.                                                                 *)
EXTENDS ReviewedPlan

CONSTANTS n1, n2, n3

MCHealthy == <<n1, n3>>
================================================================================
