---------------------------- MODULE Publication ----------------------------
(* What point-guard promises to the owner of a repository about its target   *)
(* refs, without queue, intent, retries or recovery: each ref is a log that  *)
(* many writers append to; a delegation appends at most one commit, made     *)
(* from a candidate that was verified on its own and again on top of the     *)
(* very head it extends; and it is reported merged only afterwards.          *)
EXTENDS Naturals, Sequences

CONSTANTS Delegation, Target, targetOf, Foreign

VARIABLES
    log,        \* writers of the commits of each target, oldest first
    approved,   \* delegations with a verified candidate
    vetted,     \* positions at which the delegation's merged tree was vetted
    merged      \* delegations reported as merged

vars == <<log, approved, vetted, merged>>

Init ==
    /\ log = [t \in Target |-> <<>>]
    /\ approved = {}
    /\ vetted = [d \in Delegation |-> {}]
    /\ merged = {}

InLog(d) == \E i \in DOMAIN log[targetOf[d]] : log[targetOf[d]][i] = d

(* A verifier accepts a candidate of d.                                      *)
Approve(d) ==
    /\ approved' = approved \cup {d}
    /\ UNCHANGED <<log, vetted, merged>>

(* The tree merged on top of some recent head passes.                        *)
Vet(d) ==
    /\ d \in approved
    /\ \E n \in 1..Len(log[targetOf[d]]) + 1 : vetted' = [vetted EXCEPT ![d] = @ \cup {n}]
    /\ UNCHANGED <<log, approved, merged>>

(* The ref moves, atomically, only onto what was vetted for this head.       *)
Publish(d) ==
    /\ ~InLog(d)
    /\ Len(log[targetOf[d]]) + 1 \in vetted[d]
    /\ log' = [log EXCEPT ![targetOf[d]] = Append(@, d)]
    /\ UNCHANGED <<approved, vetted, merged>>

ForeignCommit(t) ==
    /\ log' = [log EXCEPT ![t] = Append(@, Foreign)]
    /\ UNCHANGED <<approved, vetted, merged>>

Report(d) ==
    /\ InLog(d)
    /\ merged' = merged \cup {d}
    /\ UNCHANGED <<log, approved, vetted>>

Next ==
    \/ \E d \in Delegation : Approve(d) \/ Vet(d) \/ Publish(d) \/ Report(d)
    \/ \E t \in Target : ForeignCommit(t)

Spec == Init /\ [][Next]_vars

=============================================================================
