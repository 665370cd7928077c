------------------------------- MODULE MCBook -------------------------------
(* Book on small instances.                                                  *)
EXTENDS Book

CONSTANTS s1, s2, t1, t2

=============================================================================
