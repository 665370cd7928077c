---------------------------- MODULE MCMergeQueue ----------------------------
(* MergeQueue on small instances.                                            *)
EXTENDS MergeQueue

CONSTANTS d1, d2, t1

(* d1 may be run a second time after its integration came back.              *)
MCattemptLimit == [d \in Delegation |-> IF d = d1 THEN 2 ELSE 1]

(* A single attempt each, where the second run of d1 adds nothing.           *)
MConce == [d \in Delegation |-> 1]

MCtargetOf == [d \in Delegation |-> t1]

=============================================================================
