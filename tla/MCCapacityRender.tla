---------------------------- MODULE MCCapacityRender ----------------------------
(* A small instance of CapacityRender: a chart whose render depends on the   *)
(* LimitRange and a chart with operator projections, taken in the two orders *)
(* of the programs.                                                          *)
EXTENDS CapacityRender, TLC

CONSTANTS rancher, monitoring

MCComponents == {rancher, monitoring}
MCRenderOrder == <<rancher, monitoring>>
MCAdmitOrder == <<monitoring, rancher>>
MCFiles == {Lock, Limit, Crs, Projection, Baseline, Candidate}
MCReads ==
  rancher :> {Lock, Limit} @@ monitoring :> {Lock, Crs, Projection}

\* Contents 1 and 2 differ in what no figure shows.
MCVariants ==
  [f \in MCFiles |-> CASE f \in {Baseline, Candidate} -> {1, 2, 3}
                       [] OTHER -> {1, 2}]
MCFigures == (1 :> 1) @@ (2 :> 1) @@ (3 :> 3)
================================================================================
