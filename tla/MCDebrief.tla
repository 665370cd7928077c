----------------------------- MODULE MCDebrief -----------------------------
(* Debrief on a small instance: one plan that a session created and that     *)
(* names the repository of both.                                             *)
EXTENDS Debrief

CONSTANTS s1, s2, p1, d1

MCCreator == [p \in Plan |-> s1]

=============================================================================
