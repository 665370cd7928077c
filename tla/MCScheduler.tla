---------------------------- MODULE MCScheduler ----------------------------
(* Scheduler on small instances.                                             *)
EXTENDS Scheduler

CONSTANTS d1, d2

(* d1 may retry once, the others have a single attempt.                      *)
MCattemptLimit == [d \in Delegation |-> IF d = d1 THEN 2 ELSE 1]

=============================================================================
