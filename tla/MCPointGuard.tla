---------------------------- MODULE MCPointGuard ----------------------------
(* The composition on a small instance.                                      *)
EXTENDS PointGuard, TLC

CONSTANTS d1, t1

(* As many attempts as DelegationBriefSchema allows.                         *)
MCattemptLimit == [d \in Delegation |-> 3]

MCtargetOf == [d \in Delegation |-> t1]

(* Process ids are interchangeable; no liveness is checked here.             *)
MCSymmetry == Permutations(Pid)

=============================================================================
