------------------------------ MODULE MCPlans ------------------------------
(* Model values for TLC: a join (two independent steps, a third that waits   *)
(* for both) and, for the event loop, the same plan without its third step.  *)
EXTENDS Plans

ThreeSteps == 1..3
TwoSteps == 1..2
Join == [s \in Step |-> IF s = 3 THEN {1, 2} ELSE {}]
ThreeDelegations == 1..3
TwoDelegations == 1..2

=============================================================================
