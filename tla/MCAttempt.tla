----------------------------- MODULE MCAttempt -----------------------------
(* Values for TLC: a brief with one mandatory and one optional requirement,  *)
(* one check that must run tests, one protected file; a commit that is fine, *)
(* and one that renames the protected test into the scope.                   *)
EXTENDS Attempt

Commit1(files) == [files |-> files, descends |-> TRUE, oversized |-> FALSE, signal |-> FALSE]
Start == Commit1([p \in {"src", "test"} |-> p])
Good == Commit1([p \in {"src", "test"} |-> IF p = "src" THEN "fixed" ELSE p])
Moved == Commit1([p \in {"src", "new"} |-> IF p = "new" THEN "test" ELSE p])
MCCommit == {Start, Good, Moved}

On(c) == [head |-> c, onBranch |-> TRUE, clean |-> TRUE]
MCTree == {On(Start), On(Good), [On(Good) EXCEPT !.clean = FALSE], On(Moved)}

Full == {<<"r1", "IMPLEMENTED">>, <<"r2", "MISSING">>}
Half == {<<"r1", "IMPLEMENTED">>, <<"r1", "PARTIAL">>}
MCReport ==
    {[claim |-> Good, lines |-> Full], [claim |-> Good, lines |-> {}],
     [claim |-> Moved, lines |-> Full]}

Says1(lines, finding) == [verdict |-> "ACCEPT", lines |-> lines, findings |-> {finding}]
MCJudgement ==
    {Says1(Full, [severity |-> "BLOCKER", confidence |-> "possible"]),
     Says1(Half, [severity |-> "MAJOR", confidence |-> "confirmed"])}

MCRan == [{"unit"} -> {[exit |-> "zero", output |-> 3], [exit |-> "zero", output |-> 0],
                       [exit |-> "timeout", output |-> Silent]}]

=============================================================================
