----------------------------- MODULE PlansProofs -----------------------------
(* Proofs about module Plans, for any plan, any number of slots, attempts,    *)
(* submissions, crashes and resyncs, whatever the interleaving.               *)
EXTENDS Plans, FiniteSetTheorems, SequenceTheorems, TLAPS

Statuses == {"none", "queued", "in_progress", "done", "failed"}
States == {"absent", "queued", "running", "accepted", "integrating",
           "merged", "blocked", "cancelled"}

Shape ==
    /\ status \in [Step -> Statuses]
    /\ owner \in [Step -> Delegation \cup {NoOne}]
    /\ dstate \in [Delegation -> States]
    /\ base \in [Delegation -> SUBSET Delegation]
    /\ rows \in Seq(Delegation)
    /\ claim \in [row : Delegation \cup {NoOne}, by : Delegation \cup {Boot, NoOne}]
    /\ cycle \in [Delegation -> {"none", "plan", "bare", "left"}]
    /\ merging \in [Delegation -> {"no", "enqueue", "process", "cleanup"}]
    /\ micro \in Seq(Delegation)
    /\ calls \in [Caller -> [todo : SUBSET Step, seen : SUBSET Delegation]]

Among(d, q) == \E i \in 1..Len(q) : q[i] = d

Owned(d) == \E s \in Step : owner[s] = d

-----------------------------------------------------------------------------
(* Sequences.                                                                 *)
LEMMA SeqOfSet ==
    ASSUME NEW T, IsFiniteSet(T)
    PROVE  SetToSeq(T) \in Seq(T)
<1>1. Cardinality(T) \in Nat /\ ExistsBijection(1..Cardinality(T), T)
  BY FS_CardinalityType
<1>2. PICK f \in Bijection(1..Cardinality(T), T) : TRUE
  BY <1>1 DEF ExistsBijection
<1>3. f \in [1..Cardinality(T) -> T] /\ IsInjective(f)
  BY <1>2 DEF Bijection, Injection
<1>4. SetToSeq(T) \in [1..Cardinality(T) -> T]
  BY <1>3 DEF SetToSeq
<1> QED BY <1>1, <1>4

LEMMA AmongConcat ==
    ASSUME NEW q \in Seq(Delegation), NEW T \in SUBSET Delegation, NEW r \in Seq(T)
    PROVE  /\ q \o r \in Seq(Delegation)
           /\ \A d : Among(d, q \o r) => Among(d, q) \/ d \in T
<1>1. r \in Seq(Delegation) /\ \A i \in 1..Len(r) : r[i] \in T
  OBVIOUS
<1>2. /\ q \o r \in Seq(Delegation)
      /\ Len(q \o r) = Len(q) + Len(r) /\ Len(q) \in Nat /\ Len(r) \in Nat
      /\ \A i \in 1..Len(q) + Len(r) : (q \o r)[i] = IF i <= Len(q) THEN q[i] ELSE r[i - Len(q)]
  BY <1>1, ConcatProperties
<1>3. ASSUME NEW d, NEW i \in 1..Len(q) + Len(r), (q \o r)[i] = d
      PROVE  Among(d, q) \/ d \in T
  <2>1. CASE i <= Len(q)
    BY <1>2, <1>3, <2>1 DEF Among
  <2>2. CASE ~(i <= Len(q))
    <3>1. i - Len(q) \in 1..Len(r) /\ r[i - Len(q)] = d
      BY <1>2, <1>3, <2>2
    <3> QED BY <1>1, <3>1
  <2> QED BY <2>1, <2>2
<1> QED BY <1>2, <1>3 DEF Among

LEMMA AmongTail ==
    ASSUME NEW q \in Seq(Delegation), q # <<>>
    PROVE  /\ Head(q) \in Delegation /\ Among(Head(q), q)
           /\ Tail(q) \in Seq(Delegation)
           /\ \A d : Among(d, Tail(q)) => Among(d, q)
<1>1. Head(q) = q[1] /\ Head(q) \in Delegation /\ Len(q) \in Nat \ {0}
  OBVIOUS
<1>2. /\ Tail(q) \in Seq(Delegation) /\ Len(Tail(q)) = Len(q) - 1
      /\ \A i \in 1..Len(Tail(q)) : Tail(q)[i] = q[i + 1]
  BY HeadTailProperties
<1> QED BY <1>1, <1>2 DEF Among

-----------------------------------------------------------------------------
(* runCycle starts or blocks what is queued, and queues callbacks only of the *)
(* delegations it was called on.                                              *)
LEMMA CyclesMove ==
    ASSUME Shape, NEW ds \in [Delegation -> States], NEW D \in SUBSET Delegation,
           NEW who \in {"plan", "bare"}, NEW rest \in Seq(Delegation),
           RunCycles(ds, D, who, rest)
    PROVE  /\ dstate' \in [Delegation -> States]
           /\ cycle' \in [Delegation -> {"none", "plan", "bare", "left"}]
           /\ micro' \in Seq(Delegation)
           /\ \A d \in Delegation :
                /\ dstate'[d] = ds[d] \/ (ds[d] = "queued" /\ dstate'[d] \in {"running", "blocked"})
                /\ cycle'[d] = cycle[d] \/ (cycle'[d] = who /\ d \in D)
                /\ Among(d, micro') => Among(d, rest) \/ (who = "plan" /\ d \in D)
<1> DEFINE able == {d \in D : ds[d] = "queued" /\ cycle[d] = "none"}
           capped == {d \in able : attempts[d] >= attemptLimit}
<1>1. PICK S \in SUBSET (able \ capped), B \in SUBSET capped :
        /\ dstate' = [d \in Delegation |-> IF d \in S THEN "running"
                                           ELSE IF d \in B THEN "blocked" ELSE ds[d]]
        /\ cycle' = [d \in Delegation |-> IF d \in S THEN who ELSE cycle[d]]
        /\ micro' = rest \o IF who = "plan" THEN SetToSeq(D \ S) ELSE <<>>
  BY DEF RunCycles
<1>2. S \in SUBSET D /\ \A d \in S \cup B : ds[d] = "queued"
  OBVIOUS
<1>3. /\ dstate' \in [Delegation -> States]
      /\ cycle' \in [Delegation -> {"none", "plan", "bare", "left"}]
      /\ \A d \in Delegation :
           /\ dstate'[d] = ds[d] \/ (ds[d] = "queued" /\ dstate'[d] \in {"running", "blocked"})
           /\ cycle'[d] = cycle[d] \/ (cycle'[d] = who /\ d \in D)
  BY <1>1, <1>2 DEF Shape, States
<1>4. micro' \in Seq(Delegation)
      /\ \A d \in Delegation : Among(d, micro') => Among(d, rest) \/ (who = "plan" /\ d \in D)
  <2>1. CASE who = "plan"
    <3>1. IsFiniteSet(D \ S) /\ D \ S \in SUBSET Delegation
      BY PlansAssumption, FS_Subset
    <3>2. SetToSeq(D \ S) \in Seq(D \ S)
      BY <3>1, SeqOfSet
    <3>3. micro' = rest \o SetToSeq(D \ S)
      BY <1>1, <2>1
    <3> QED BY <2>1, <3>1, <3>2, <3>3, AmongConcat
  <2>2. CASE who = "bare"
    <3>1. micro' = rest \o <<>>
      BY <1>1, <2>2
    <3> QED BY <3>1, ConcatEmptySeq
  <2> QED BY <2>1, <2>2
<1> QED BY <1>3, <1>4

-----------------------------------------------------------------------------
(* The inductive invariant.                                                   *)

(* A step has an owner from its claim on, and no two share one.               *)
OwnerInv ==
    \A s \in Step :
        /\ status[s] \in {"none", "queued"} => owner[s] = NoOne
        /\ status[s] \in {"in_progress", "done"} => owner[s] # NoOne
        /\ owner[s] # NoOne => dstate[owner[s]] # "absent"
        /\ \A r \in Step : owner[r] = owner[s] /\ owner[s] # NoOne => r = s

(* What a call is about to dispatch has its dependencies on the target, and   *)
(* the call, which resolves the target's head later, will find them there.    *)
CallsInv ==
    \A c \in Caller : \A s \in calls[c].todo : \A p \in dependsOn[s] :
        owner[p] # NoOne /\ dstate[owner[p]] = "merged" /\ owner[p] \in calls[c].seen

(* A chain of the plan works for a delegation that owns a step.               *)
Chained(d) == cycle[d] = "plan" \/ merging[d] # "no" \/ claim.by = d \/ Among(d, micro)
ChainInv == \A d \in Delegation : Chained(d) => Owned(d)

ClaimInv ==
    /\ claim.row = NoOne => claim = NoClaim
    /\ claim.row # NoOne => dstate[claim.row] = "integrating"

IInv ==
    /\ Shape /\ OwnerInv /\ CallsInv /\ ChainInv /\ ClaimInv
    /\ DoneIsMerged /\ BuiltOnDependencies

LEMMA InitHolds == Init => IInv
<1> SUFFICES ASSUME Init PROVE IInv
  OBVIOUS
<1> USE DEF Init
<1>1. Shape
  BY DEF Shape, Statuses, States, NoClaim, NoCall
<1>2. OwnerInv /\ DoneIsMerged /\ BuiltOnDependencies
  BY DEF OwnerInv, DoneIsMerged, BuiltOnDependencies
<1>3. CallsInv
  BY DEF CallsInv, NoCall
<1>4. ChainInv /\ ClaimInv
  BY PlansAssumption DEF ChainInv, Chained, Among, ClaimInv, NoClaim
<1> QED BY <1>1, <1>2, <1>3, <1>4 DEF IInv

-----------------------------------------------------------------------------
(* What a step may do to the tables.                                          *)

Stable ==
    \A d \in Delegation :
        /\ dstate[d] = "merged" => dstate'[d] = "merged"
        /\ dstate[d] # "absent" => dstate'[d] # "absent"

StatusMoves(s) ==
    \/ status'[s] = status[s]
    \/ status[s] = "none" /\ status'[s] = "queued"
    \/ status'[s] = "failed"
    \/ status'[s] = "done" /\ owner[s] # NoOne /\ dstate[owner[s]] = "merged"

(* A call goes on with fewer steps, or starts on what can be dispatched now.  *)
CallMoves(c) ==
    \A s \in calls'[c].todo :
        \/ s \in calls[c].todo /\ calls'[c].seen \in {calls[c].seen, In("merged")}
        \/ /\ \A p \in dependsOn[s] : status'[p] = "done"
           /\ calls'[c].seen = In("merged")

LEMMA Keeps ==
    ASSUME IInv, Shape', ClaimInv', Stable, owner' = owner,
           \A d \in Delegation : base'[d] = base[d] \/ dstate[d] = "absent",
           \A s \in Step : StatusMoves(s),
           \A c \in Caller : CallMoves(c),
           \A d \in Delegation : Chained(d)' => Chained(d) \/ Owned(d)
    PROVE  IInv'
<1>a. /\ owner \in [Step -> Delegation \cup {NoOne}] /\ dstate \in [Delegation -> States]
      /\ \A c \in Caller : calls[c].todo \in SUBSET Step
      /\ \A c \in Caller : calls'[c].todo \in SUBSET Step
      /\ \A s \in Step : dependsOn[s] \in SUBSET Step
  BY PlansAssumption DEF IInv, Shape
<1>1. OwnerInv'
  BY <1>a DEF IInv, OwnerInv, StatusMoves, Stable
<1>2. DoneIsMerged'
  BY <1>a DEF IInv, DoneIsMerged, OwnerInv, StatusMoves, Stable
<1>3. ASSUME NEW c \in Caller, NEW s \in calls'[c].todo, NEW p \in dependsOn[s]
      PROVE  owner[p] # NoOne /\ dstate[owner[p]] = "merged" /\ owner[p] \in calls'[c].seen
  <2>1. CASE s \in calls[c].todo /\ calls'[c].seen \in {calls[c].seen, In("merged")}
    BY <1>a, <2>1 DEF IInv, CallsInv, In
  <2>2. CASE status'[p] = "done" /\ calls'[c].seen = In("merged")
    <3>1. owner[p] # NoOne /\ dstate[owner[p]] = "merged"
      BY <1>a, <2>2 DEF IInv, DoneIsMerged, StatusMoves
    <3> QED BY <1>a, <2>2, <3>1 DEF In
  <2> QED BY <1>3, <2>1, <2>2 DEF CallMoves
<1>4. CallsInv'
  BY <1>3, <1>a DEF CallsInv, Stable
<1>5. ChainInv'
  BY DEF IInv, ChainInv, Owned
<1>6. BuiltOnDependencies'
  BY <1>a DEF IInv, BuiltOnDependencies, OwnerInv, Stable
<1> QED BY <1>1, <1>2, <1>4, <1>5, <1>6 DEF IInv

(* A step that touches neither the plan nor a run of it.                      *)
LEMMA QuietKeeps ==
    ASSUME IInv, Shape', ClaimInv', Stable, UNCHANGED <<status, owner, base, calls>>,
           \A d \in Delegation : Chained(d)' => Chained(d)
    PROVE  IInv'
<1>1. \A s \in Step : StatusMoves(s)
  BY DEF StatusMoves
<1>2. \A c \in Caller : CallMoves(c)
  BY DEF CallMoves
<1> QED BY <1>1, <1>2, Keeps

-----------------------------------------------------------------------------
(* Running the plan, and settling a step of it.                               *)

(* Cycles are started of queued delegations only, callbacks only of owners.   *)
Runs(rest) ==
    /\ dstate' \in [Delegation -> States]
    /\ cycle' \in [Delegation -> {"none", "plan", "bare", "left"}]
    /\ micro' \in Seq(Delegation)
    /\ calls' \in [Caller -> [todo : SUBSET Step, seen : SUBSET Delegation]]
    /\ \A d \in Delegation :
         /\ dstate'[d] = dstate[d]
            \/ (dstate[d] = "queued" /\ dstate'[d] \in {"running", "blocked"})
         /\ cycle'[d] = "plan" => cycle[d] = "plan" \/ Owned(d)
         /\ Among(d, micro') => Among(d, rest) \/ Owned(d)
    /\ \A c \in Caller : CallMoves(c)

LEMMA RunPlanRuns ==
    ASSUME IInv, status' \in [Step -> Statuses], \A s \in Step : StatusMoves(s),
           NEW c \in Caller, NEW rest \in Seq(Delegation), RunPlan(c, status', rest)
    PROVE  Runs(rest)
<1>a. /\ Shape /\ dstate \in [Delegation -> States]
      /\ calls \in [Caller -> [todo : SUBSET Step, seen : SUBSET Delegation]]
  BY DEF IInv, Shape
<1> DEFINE D == StalledInProgress(status')
<1>1. D \in SUBSET Delegation /\ \A d \in D : Owned(d)
  <2>1. ASSUME NEW s \in Step, status'[s] = "in_progress" PROVE owner[s] \in Delegation
    <3>1. status[s] = "in_progress"
      BY <2>1 DEF StatusMoves
    <3>2. owner[s] # NoOne /\ owner[s] \in Delegation \cup {NoOne}
      BY <3>1 DEF IInv, OwnerInv, Shape
    <3> QED BY <3>2
  <2> QED BY <2>1 DEF StalledInProgress, Owned
<1> HIDE DEF D
<1>2. RunCycles(dstate, D, "plan", rest)
  BY DEF RunPlan, D
<1>3. /\ dstate' \in [Delegation -> States]
      /\ cycle' \in [Delegation -> {"none", "plan", "bare", "left"}]
      /\ micro' \in Seq(Delegation)
      /\ \A d \in Delegation :
           /\ dstate'[d] = dstate[d]
              \/ (dstate[d] = "queued" /\ dstate'[d] \in {"running", "blocked"})
           /\ cycle'[d] = "plan" => cycle[d] = "plan" \/ Owned(d)
           /\ Among(d, micro') => Among(d, rest) \/ Owned(d)
  BY <1>a, <1>1, <1>2, CyclesMove
<1> DEFINE call == Call(NextRunnableSteps(status'))
<1>4. calls' = [calls EXCEPT ![c] = call]
  BY DEF RunPlan
<1>5. /\ call \in [todo : SUBSET Step, seen : SUBSET Delegation]
      /\ \A s \in call.todo :
           (\A p \in dependsOn[s] : status'[p] = "done") /\ call.seen = In("merged")
  BY DEF Call, NoCall, NextRunnableSteps, In
<1> HIDE DEF call
<1>6. calls' \in [Caller -> [todo : SUBSET Step, seen : SUBSET Delegation]]
  BY <1>a, <1>4, <1>5
<1>7. ASSUME NEW b \in Caller PROVE CallMoves(b)
  <2>1. CASE b = c
    <3>1. calls'[c] = call
      BY <1>a, <1>4
    <3> QED BY <1>5, <2>1, <3>1 DEF CallMoves
  <2>2. CASE b # c
    <3>1. calls'[b] = calls[b]
      BY <1>a, <1>4, <2>2
    <3> QED BY <3>1 DEF CallMoves
  <2> QED BY <2>1, <2>2
<1> QED BY <1>3, <1>6, <1>7 DEF Runs

LEMMA CyclesRun ==
    ASSUME IInv, NEW D \in SUBSET Delegation, NEW who \in {"plan", "bare"},
           NEW rest \in Seq(Delegation), RunCycles(dstate, D, who, rest), calls' = calls,
           who = "plan" => \A d \in D : Owned(d)
    PROVE  Runs(rest)
<1>1. Shape /\ dstate \in [Delegation -> States]
  BY DEF IInv, Shape
<1>2. /\ \A c \in Caller : CallMoves(c)
      /\ calls \in [Caller -> [todo : SUBSET Step, seen : SUBSET Delegation]]
  BY DEF CallMoves, IInv, Shape
<1>3. /\ dstate' \in [Delegation -> States]
      /\ cycle' \in [Delegation -> {"none", "plan", "bare", "left"}]
      /\ micro' \in Seq(Delegation)
      /\ \A d \in Delegation :
           /\ dstate'[d] = dstate[d]
              \/ (dstate[d] = "queued" /\ dstate'[d] \in {"running", "blocked"})
           /\ cycle'[d] = cycle[d] \/ (cycle'[d] = who /\ d \in D)
           /\ Among(d, micro') => Among(d, rest) \/ (who = "plan" /\ d \in D)
  <2>1. CASE who = "plan"
    BY <1>1, <2>1, CyclesMove
  <2>2. CASE who = "bare"
    BY <1>1, <2>2, CyclesMove
  <2> QED BY <2>1, <2>2
<1> QED BY <1>1, <1>2, <1>3 DEF Runs

LEMMA RestRuns ==
    ASSUME IInv, NEW rest \in Seq(Delegation), UNCHANGED <<dstate, cycle, calls>>, micro' = rest
    PROVE  Runs(rest)
BY DEF IInv, Shape, Runs, CallMoves

LEMMA SettleRowRuns ==
    ASSUME IInv, NEW d \in Delegation, Owned(d), NEW rest \in Seq(Delegation), SettleRow(d, rest)
    PROVE  Runs(rest) /\ status' \in [Step -> Statuses] /\ \A s \in Step : StatusMoves(s)
<1>a. status \in [Step -> Statuses]
  BY DEF IInv, Shape
<1>b. StepOf(d) \in Step /\ owner[StepOf(d)] = d /\ d # NoOne
  BY PlansAssumption DEF StepOf, Owned
<1>1. CASE dstate[d] = "merged" /\ status' = [status EXCEPT ![StepOf(d)] = "done"]
           /\ RunPlan(d, status', rest)
  <2>1. status' \in [Step -> Statuses] /\ \A s \in Step : StatusMoves(s)
    BY <1>a, <1>b, <1>1 DEF StatusMoves, Statuses
  <2>2. d \in Caller
    BY DEF Caller
  <2> QED BY <1>1, <2>1, <2>2, RunPlanRuns
<1>2. CASE /\ status' = [status EXCEPT ![StepOf(d)] = "failed"]
           /\ micro' = rest /\ UNCHANGED <<dstate, cycle, calls>>
  BY <1>a, <1>b, <1>2, RestRuns DEF StatusMoves, Statuses
<1>3. CASE RunCycles(dstate, {d}, "plan", rest) /\ UNCHANGED <<status, calls>>
  BY <1>a, <1>3, CyclesRun DEF StatusMoves
<1>4. CASE micro' = rest /\ UNCHANGED <<status, dstate, cycle, calls>>
  BY <1>a, <1>4, RestRuns DEF StatusMoves
<1> QED BY <1>1, <1>2, <1>3, <1>4 DEF SettleRow

(* Such a step keeps the invariant, if what else it does is harmless.         *)
LEMMA RunsKeep ==
    ASSUME IInv, NEW rest \in Seq(Delegation), Runs(rest),
           \A d \in Delegation : Among(d, rest) => Among(d, micro),
           status' \in [Step -> Statuses], \A s \in Step : StatusMoves(s),
           UNCHANGED <<owner, base, claim>>, rows' \in Seq(Delegation),
           merging' \in [Delegation -> {"no", "enqueue", "process", "cleanup"}],
           \A d \in Delegation : merging'[d] # "no" => Chained(d)
    PROVE  IInv'
<1>1. Shape'
  BY DEF IInv, Shape, Runs
<1>2. Stable
  BY DEF Runs, Stable
<1>3. ClaimInv'
  <2>1. claim.row \in Delegation \cup {NoOne}
    BY DEF IInv, Shape
  <2> QED BY <2>1 DEF IInv, ClaimInv, Runs
<1>4. \A d \in Delegation : Chained(d)' => Chained(d) \/ Owned(d)
  BY DEF Chained, Runs
<1> QED BY <1>1, <1>2, <1>3, <1>4, Keeps DEF Runs

-----------------------------------------------------------------------------
(* The steps. First those that run or settle something of the plan.           *)
LEMMA SubmitKeeps == ASSUME IInv, NEW c \in Submission, SubmitPlan(c) PROVE IInv'
<1>a. /\ status' = [s \in Step |-> IF status[s] = "none" THEN "queued" ELSE status[s]]
      /\ RunPlan(c, status', <<>>) /\ UNCHANGED <<owner, base, queue, merging>>
  BY DEF SubmitPlan
<1>1. status' \in [Step -> Statuses] /\ \A s \in Step : StatusMoves(s)
  BY <1>a DEF StatusMoves, IInv, Shape, Statuses
<1>2. <<>> \in Seq(Delegation) /\ c \in Caller
  BY DEF Caller
<1>3. Runs(<<>>)
  BY <1>a, <1>1, <1>2, RunPlanRuns
<1>4. /\ \A d \in Delegation : Among(d, <<>>) => Among(d, micro)
      /\ \A d \in Delegation : merging'[d] # "no" => Chained(d)
      /\ rows' \in Seq(Delegation) /\ claim' = claim
      /\ merging' \in [Delegation -> {"no", "enqueue", "process", "cleanup"}]
  BY <1>a DEF Among, Chained, queue, IInv, Shape
<1> QED BY <1>a, <1>1, <1>2, <1>3, <1>4, RunsKeep

LEMMA ResumeKeeps == ASSUME IInv, ResumeOpenPlans PROVE IInv'
<1>a. UNCHANGED <<status, owner, base, rows, claim, merging>>
  BY DEF ResumeOpenPlans, plan, queue
<1>1. status' \in [Step -> Statuses] /\ \A s \in Step : StatusMoves(s)
  BY <1>a DEF StatusMoves, IInv, Shape
<1>2. CASE RunPlan(Boot, status, <<>>)
  <2>a. <<>> \in Seq(Delegation) /\ Boot \in Caller /\ RunPlan(Boot, status', <<>>)
    BY <1>a, <1>2 DEF Caller
  <2>1. Runs(<<>>)
    BY <1>1, <2>a, RunPlanRuns
  <2>2. /\ \A d \in Delegation : Among(d, <<>>) => Among(d, micro)
        /\ \A d \in Delegation : merging'[d] # "no" => Chained(d)
        /\ rows' \in Seq(Delegation)
        /\ merging' \in [Delegation -> {"no", "enqueue", "process", "cleanup"}]
    BY <1>a DEF Among, Chained, IInv, Shape
  <2> QED BY <1>a, <1>1, <2>a, <2>1, <2>2, RunsKeep
<1>3. CASE UNCHANGED <<dstate, cycle, micro, calls>>
  <2>1. Shape' /\ ClaimInv' /\ Stable /\ \A d \in Delegation : Chained(d)' => Chained(d)
    BY <1>a, <1>3 DEF IInv, Shape, ClaimInv, Stable, Chained
  <2> QED BY <1>a, <1>3, <2>1, QuietKeeps
<1> QED BY <1>2, <1>3 DEF ResumeOpenPlans

(* A chain that read its delegation's row.                                    *)
LEMMA SettleKeeps ==
    ASSUME IInv, NEW d \in Delegation, Chained(d), NEW rest \in Seq(Delegation),
           \A e \in Delegation : Among(e, rest) => Among(e, micro),
           \/ SettleRow(d, rest)
           \/ micro' = rest /\ UNCHANGED <<status, dstate, cycle, calls>>,
           UNCHANGED <<owner, base, claim>>, rows' \in Seq(Delegation),
           merging' \in [Delegation -> {"no", "enqueue", "process", "cleanup"}],
           \A e \in Delegation : merging'[e] # "no" => e = d \/ merging[e] # "no"
    PROVE  IInv'
<1>1. Owned(d)
  BY DEF IInv, ChainInv
<1>2. \A e \in Delegation : merging'[e] # "no" => Chained(e)
  BY DEF Chained
<1>3. CASE SettleRow(d, rest)
  BY <1>1, <1>2, <1>3, SettleRowRuns, RunsKeep
<1>4. CASE micro' = rest /\ UNCHANGED <<status, dstate, cycle, calls>>
  <2>1. status' \in [Step -> Statuses] /\ \A s \in Step : StatusMoves(s)
    BY <1>4 DEF StatusMoves, IInv, Shape
  <2> QED BY <1>2, <1>4, <2>1, RestRuns, RunsKeep
<1> QED BY <1>3, <1>4

LEMMA SettledKeeps == ASSUME IInv, OnPlanDelegationSettled PROVE IInv'
<1> DEFINE d == Head(micro)
<1>1. /\ d \in Delegation /\ Among(d, micro) /\ Tail(micro) \in Seq(Delegation)
      /\ \A e : Among(e, Tail(micro)) => Among(e, micro)
      /\ merging \in [Delegation -> {"no", "enqueue", "process", "cleanup"}]
  BY AmongTail DEF OnPlanDelegationSettled, IInv, Shape
<1>2. UNCHANGED <<owner, base, claim>> /\ rows' \in Seq(Delegation)
  BY DEF OnPlanDelegationSettled, queue, IInv, Shape
<1>3. \/ /\ merging' = [merging EXCEPT ![d] = "enqueue"]
         /\ micro' = Tail(micro) /\ UNCHANGED <<status, dstate, cycle, calls>>
      \/ SettleRow(d, Tail(micro)) /\ UNCHANGED merging
  BY DEF OnPlanDelegationSettled
<1> HIDE DEF d
<1>4. Chained(d)
  BY <1>1 DEF Chained
<1>5. /\ merging' \in [Delegation -> {"no", "enqueue", "process", "cleanup"}]
      /\ \A e \in Delegation : merging'[e] # "no" => e = d \/ merging[e] # "no"
  BY <1>1, <1>3
<1>6. \/ SettleRow(d, Tail(micro))
      \/ micro' = Tail(micro) /\ UNCHANGED <<status, dstate, cycle, calls>>
  BY <1>3
<1> QED BY <1>1, <1>2, <1>4, <1>5, <1>6, SettleKeeps

(* The hook comes back, however.                                              *)
LEMMA HookKeeps ==
    ASSUME IInv, Idle, NEW d \in Delegation, merging[d] # "no", AfterHook(d),
           UNCHANGED <<owner, base, claim>>, rows' \in Seq(Delegation)
    PROVE  IInv'
<1>1. Chained(d)
  BY DEF Chained
<1>2. <<>> \in Seq(Delegation) /\ \A e \in Delegation : Among(e, <<>>) => Among(e, micro)
  BY DEF Among
<1>3. /\ merging' \in [Delegation -> {"no", "enqueue", "process", "cleanup"}]
      /\ \A e \in Delegation : merging'[e] # "no" => e = d \/ merging[e] # "no"
  BY DEF AfterHook, IInv, Shape
<1>4. \/ SettleRow(d, <<>>)
      \/ micro' = <<>> /\ UNCHANGED <<status, dstate, cycle, calls>>
  BY DEF AfterHook, HookReturns, Idle
<1> QED BY <1>1, <1>2, <1>3, <1>4, SettleKeeps

-----------------------------------------------------------------------------
(* Dispatch. A call's list only gets shorter, and sees more merges.           *)
LEMMA DispatchedMoves ==
    ASSUME IInv, NEW c \in Caller, NEW s \in Step, StepDispatched(c, s)
    PROVE  /\ calls' \in [Caller -> [todo : SUBSET Step, seen : SUBSET Delegation]]
           /\ \A b \in Caller : \A r \in calls'[b].todo :
                r \in calls[b].todo /\ calls'[b].seen \in {calls[b].seen, In("merged")}
<1>a. calls \in [Caller -> [todo : SUBSET Step, seen : SUBSET Delegation]]
  BY DEF IInv, Shape
<1> DEFINE call == Call(calls[c].todo \ {s})
<1>1. calls' = [calls EXCEPT ![c] = call]
  BY DEF StepDispatched
<1>2. /\ call \in [todo : SUBSET Step, seen : SUBSET Delegation]
      /\ \A r \in call.todo : r \in calls[c].todo /\ call.seen = In("merged")
  BY <1>a DEF Call, NoCall, In
<1> HIDE DEF call
<1>3. calls'[c] = call /\ \A b \in Caller \ {c} : calls'[b] = calls[b]
  BY <1>a, <1>1
<1>4. calls' \in [Caller -> [todo : SUBSET Step, seen : SUBSET Delegation]]
  BY <1>a, <1>1, <1>2
<1> QED BY <1>2, <1>3, <1>4

LEMMA DispatchFailsKeeps == ASSUME IInv, NEW c \in Caller, DispatchFails(c) PROVE IInv'
<1>1. PICK s \in Step : StepDispatched(c, s) /\ status' = [status EXCEPT ![s] = "failed"]
  BY DEF DispatchFails
<1>2. UNCHANGED <<owner, base, dstate, rows, claim, cycle, merging, micro>>
  BY DEF DispatchFails, delegations, queue
<1>3. /\ calls' \in [Caller -> [todo : SUBSET Step, seen : SUBSET Delegation]]
      /\ \A b \in Caller : CallMoves(b)
  BY <1>1, DispatchedMoves DEF CallMoves
<1>4. status' \in [Step -> Statuses] /\ \A r \in Step : StatusMoves(r)
  BY <1>1 DEF StatusMoves, Statuses, IInv, Shape
<1>5. Shape' /\ ClaimInv' /\ Stable /\ \A d \in Delegation : Chained(d)' => Chained(d)
  BY <1>2, <1>3, <1>4 DEF IInv, Shape, ClaimInv, Stable, Chained
<1> QED BY <1>2, <1>3, <1>4, <1>5, Keeps

(* The claim: the step was queued, so that nobody owned it, and the new       *)
(* delegation nothing; what the step waits for is in its baseline.            *)
LEMMA ClaimKeeps ==
    ASSUME IInv, Shape', ClaimInv', Stable, NEW c \in Caller, NEW s \in calls[c].todo,
           NEW d \in Delegation, status[s] = "queued", dstate[d] = "absent", dstate'[d] # "absent",
           status' = [status EXCEPT ![s] = "in_progress"], owner' = [owner EXCEPT ![s] = d],
           base' = [base EXCEPT ![d] = calls[c].seen],
           \A b \in Caller : \A r \in calls'[b].todo :
                r \in calls[b].todo /\ calls'[b].seen \in {calls[b].seen, In("merged")},
           \A e \in Delegation : Chained(e)' => Chained(e) \/ e = d
    PROVE  IInv'
<1>a. /\ owner \in [Step -> Delegation \cup {NoOne}] /\ dstate \in [Delegation -> States]
      /\ status \in [Step -> Statuses] /\ base \in [Delegation -> SUBSET Delegation]
      /\ s \in Step /\ d # NoOne /\ \A r \in Step : dependsOn[r] \in SUBSET Step
  <2>1. calls[c].todo \in SUBSET Step
    BY DEF IInv, Shape
  <2>2. d # NoOne /\ \A r \in Step : dependsOn[r] \in SUBSET Step
    BY PlansAssumption
  <2> QED BY <2>1, <2>2 DEF IInv, Shape
<1>b. /\ owner[s] = NoOne /\ owner'[s] = d /\ status'[s] = "in_progress" /\ base'[d] = calls[c].seen
      /\ \A r \in Step \ {s} : owner'[r] = owner[r] /\ status'[r] = status[r] /\ owner[r] # d
      /\ \A e \in Delegation \ {d} : base'[e] = base[e]
  BY <1>a DEF IInv, OwnerInv
<1>1. OwnerInv'
  <2> SUFFICES ASSUME NEW r \in Step
               PROVE  /\ status'[r] \in {"none", "queued"} => owner'[r] = NoOne
                      /\ status'[r] \in {"in_progress", "done"} => owner'[r] # NoOne
                      /\ owner'[r] # NoOne => dstate'[owner'[r]] # "absent"
                      /\ \A q \in Step : owner'[q] = owner'[r] /\ owner'[r] # NoOne => q = r
    BY DEF OwnerInv
  <2>1. CASE r = s
    BY <1>a, <1>b, <2>1
  <2>2. CASE r # s
    BY <1>a, <1>b, <2>2 DEF IInv, OwnerInv, Stable
  <2> QED BY <2>1, <2>2
<1>2. DoneIsMerged'
  BY <1>a, <1>b DEF IInv, DoneIsMerged, Stable
<1>3. ASSUME NEW r \in Step, owner[r] # NoOne, dstate[owner[r]] = "merged"
      PROVE  owner'[r] = owner[r] /\ dstate'[owner'[r]] = "merged"
  BY <1>a, <1>b, <1>3 DEF Stable
<1>4. CallsInv'
  <2> SUFFICES ASSUME NEW b \in Caller, NEW r \in calls'[b].todo, NEW p \in dependsOn[r]
               PROVE  owner'[p] # NoOne /\ dstate'[owner'[p]] = "merged" /\ owner'[p] \in calls'[b].seen
    BY DEF CallsInv
  <2>1. r \in calls[b].todo /\ r \in Step /\ p \in Step
    BY <1>a DEF IInv, Shape
  <2>2. owner[p] # NoOne /\ dstate[owner[p]] = "merged" /\ owner[p] \in calls[b].seen
    BY <2>1 DEF IInv, CallsInv
  <2>3. owner[p] \in In("merged")
    BY <1>a, <2>1, <2>2 DEF In
  <2> QED BY <1>3, <2>1, <2>2, <2>3
<1>5. BuiltOnDependencies'
  <2> SUFFICES ASSUME NEW r \in Step, owner'[r] # NoOne, NEW p \in dependsOn[r]
               PROVE  /\ owner'[p] # NoOne /\ dstate'[owner'[p]] = "merged"
                      /\ owner'[p] \in base'[owner'[r]]
    BY DEF BuiltOnDependencies
  <2>1. p \in Step
    BY <1>a
  <2>2. CASE r = s
    BY <1>b, <1>3, <2>1, <2>2 DEF IInv, CallsInv
  <2>3. CASE r # s
    BY <1>a, <1>b, <1>3, <2>1, <2>3 DEF IInv, BuiltOnDependencies
  <2> QED BY <2>2, <2>3
<1>6. ChainInv'
  <2> SUFFICES ASSUME NEW e \in Delegation, Chained(e)' PROVE \E r \in Step : owner'[r] = e
    BY DEF ChainInv, Owned
  <2>1. CASE e = d
    BY <1>a, <1>b, <2>1
  <2>2. CASE Chained(e)
    <3>1. PICK r \in Step : owner[r] = e
      BY <2>2 DEF IInv, ChainInv, Owned
    <3>2. r # s
      BY <1>b, <3>1, PlansAssumption
    <3> QED BY <1>b, <3>1, <3>2
  <2> QED BY <2>1, <2>2
<1> QED BY <1>1, <1>2, <1>4, <1>5, <1>6 DEF IInv

LEMMA DispatchReturnsKeeps == ASSUME IInv, NEW c \in Caller, DispatchReturns(c) PROVE IInv'
<1>1. PICK s \in Step, d \in In("absent") :
        LET ds == [dstate EXCEPT ![d] = "queued"]
        IN  /\ First(c, s) /\ StepDispatched(c, s)
            /\ base' = [base EXCEPT ![d] = calls[c].seen]
            /\ IF Claimable(s)
               THEN /\ status' = [status EXCEPT ![s] = "in_progress"]
                    /\ owner' = [owner EXCEPT ![s] = d]
                    /\ RunCycles(ds, {d}, "plan", <<>>)
               ELSE dstate' = ds /\ UNCHANGED <<plan, attempts, cycle, micro>>
  BY DEF DispatchReturns
<1> DEFINE ds == [dstate EXCEPT ![d] = "queued"]
<1>a. Shape
  BY DEF IInv
<1>2. /\ d \in Delegation /\ dstate[d] = "absent" /\ s \in calls[c].todo
      /\ UNCHANGED <<rows, claim, merging>>
      /\ ds \in [Delegation -> States] /\ ds[d] = "queued"
      /\ \A e \in Delegation \ {d} : ds[e] = dstate[e]
  BY <1>a, <1>1 DEF DispatchReturns, In, First, queue, Shape, States
<1>3. /\ calls' \in [Caller -> [todo : SUBSET Step, seen : SUBSET Delegation]]
      /\ \A b \in Caller : \A r \in calls'[b].todo :
           r \in calls[b].todo /\ calls'[b].seen \in {calls[b].seen, In("merged")}
  BY <1>1, DispatchedMoves
<1>4. /\ base' = [base EXCEPT ![d] = calls[c].seen]
      /\ base' \in [Delegation -> SUBSET Delegation]
      /\ \A e \in Delegation : base'[e] = base[e] \/ dstate[e] = "absent"
  <2>1. calls[c].seen \in SUBSET Delegation
    BY <1>a DEF Shape
  <2> QED BY <1>a, <1>1, <1>2, <2>1 DEF Shape
<1>5. CASE Claimable(s)
  <2>1. /\ status' = [status EXCEPT ![s] = "in_progress"]
        /\ owner' = [owner EXCEPT ![s] = d]
        /\ RunCycles(ds, {d}, "plan", <<>>)
    BY <1>1, <1>5
  <2> HIDE DEF ds
  <2>2. <<>> \in Seq(Delegation) /\ {d} \in SUBSET Delegation /\ \A e : ~Among(e, <<>>)
    BY <1>2 DEF Among
  <2>3. /\ dstate' \in [Delegation -> States]
        /\ cycle' \in [Delegation -> {"none", "plan", "bare", "left"}]
        /\ micro' \in Seq(Delegation)
        /\ \A e \in Delegation :
             /\ dstate'[e] = ds[e] \/ (ds[e] = "queued" /\ dstate'[e] \in {"running", "blocked"})
             /\ cycle'[e] = cycle[e] \/ (cycle'[e] = "plan" /\ e \in {d})
             /\ Among(e, micro') => Among(e, <<>>) \/ ("plan" = "plan" /\ e \in {d})
    BY <1>a, <1>2, <2>1, <2>2, CyclesMove
  <2>4. status' \in [Step -> Statuses] /\ owner' \in [Step -> Delegation \cup {NoOne}]
    BY <1>a, <1>2, <2>1 DEF Shape, Statuses
  <2>5. Shape'
    BY <1>a, <1>2, <1>3, <1>4, <2>3, <2>4 DEF Shape
  <2>6. Stable /\ dstate'[d] # "absent"
    BY <1>2, <2>3 DEF Stable
  <2>7. ClaimInv'
    <3>1. claim.row \in Delegation \cup {NoOne}
      BY <1>a DEF Shape
    <3> QED BY <1>2, <2>3, <3>1 DEF IInv, ClaimInv
  <2>8. \A e \in Delegation : Chained(e)' => Chained(e) \/ e = d
    BY <1>2, <2>2, <2>3 DEF Chained
  <2> QED BY <1>2, <1>3, <1>4, <1>5, <2>1, <2>5, <2>6, <2>7, <2>8, ClaimKeeps DEF Claimable
<1>6. CASE ~Claimable(s)
  <2>1. dstate' = ds /\ UNCHANGED <<status, owner, cycle, micro>>
    BY <1>1, <1>6 DEF plan
  <2>2. /\ Shape' /\ Stable
        /\ \A e \in Delegation : Chained(e)' => Chained(e)
    BY <1>a, <1>2, <1>3, <1>4, <2>1 DEF Shape, Stable, Chained
  <2>3. ClaimInv'
    <3>1. claim.row \in Delegation \cup {NoOne}
      BY <1>a DEF Shape
    <3> QED BY <1>2, <2>1, <3>1 DEF IInv, ClaimInv
  <2>4. (\A r \in Step : StatusMoves(r)) /\ \A b \in Caller : CallMoves(b)
    BY <1>3, <2>1 DEF StatusMoves, CallMoves
  <2> QED BY <1>4, <2>1, <2>2, <2>3, <2>4, Keeps
<1> QED BY <1>5, <1>6

-----------------------------------------------------------------------------
(* The steps that leave the plan alone.                                       *)

(* Delegations move among the states of a live one; a claimed row's does not. *)
LEMMA StepOfCycleKeeps ==
    ASSUME IInv, NEW d \in Delegation,
           AttemptFails(d) \/ AttemptThrows(d) \/ CandidateAccepted(d) \/ CycleReturns(d) \/ Cancel(d)
    PROVE  IInv'
<1>a. Shape /\ ClaimInv
  BY DEF IInv
<1>1. UNCHANGED <<status, owner, base, rows, claim, merging, calls>>
  BY DEF AttemptFails, AttemptThrows, CandidateAccepted, CycleReturns, Cancel, plan, delegations, queue
<1>2. \/ dstate' = dstate
      \/ /\ dstate[d] \in {"running", "queued", "blocked"}
         /\ \E to \in {"blocked", "queued", "accepted", "cancelled"} :
              dstate' = [dstate EXCEPT ![d] = to]
  BY DEF AttemptFails, AttemptThrows, CandidateAccepted, CycleReturns, Cancel, delegations
<1>3. /\ \/ cycle' = cycle
         \/ cycle' = [cycle EXCEPT ![d] = "none"]
         \/ cycle' = [e \in Delegation |->
                         IF e = d THEN "none"
                         ELSE IF cycle[d] = "bare" /\ cycle[e] = "bare" THEN "left" ELSE cycle[e]]
      /\ micro' = micro \/ micro' = <<>> \/ (micro' = <<d>> /\ cycle[d] = "plan")
  BY DEF AttemptFails, AttemptThrows, CandidateAccepted, CycleReturns, Cancel, Release
<1>4. Shape'
  <2>1. dstate' \in [Delegation -> States]
    BY <1>a, <1>2 DEF Shape, States
  <2>2. cycle' \in [Delegation -> {"none", "plan", "bare", "left"}] /\ micro' \in Seq(Delegation)
    <3>1. <<d>> \in Seq(Delegation) /\ <<>> \in Seq(Delegation) /\ micro \in Seq(Delegation)
      BY <1>a DEF Shape
    <3>2. micro' \in Seq(Delegation)
      BY <1>3, <3>1
    <3> QED BY <1>a, <1>3, <3>2 DEF Shape
  <2> QED BY <1>a, <1>1, <2>1, <2>2 DEF Shape
<1>5. Stable /\ ClaimInv'
  <2>1. claim.row \in Delegation \cup {NoOne} /\ dstate \in [Delegation -> States]
    BY <1>a DEF Shape
  <2> QED BY <1>a, <1>1, <1>2, <2>1 DEF Stable, ClaimInv
<1>6. \A e \in Delegation : Chained(e)' => Chained(e)
  <2>1. cycle \in [Delegation -> {"none", "plan", "bare", "left"}]
    BY <1>a DEF Shape
  <2>2. \A e \in Delegation : Among(e, micro') => Among(e, micro) \/ (e = d /\ cycle[d] = "plan")
    BY <1>3 DEF Among
  <2>3. \A e \in Delegation : cycle'[e] = "plan" => cycle[e] = "plan"
    BY <1>3, <2>1
  <2> QED BY <1>1, <2>2, <2>3 DEF Chained
<1> QED BY <1>1, <1>4, <1>5, <1>6, QuietKeeps

LEMMA EnqueueKeeps == ASSUME IInv, NEW d \in Delegation, Enqueue(d) PROVE IInv'
<1>1. UNCHANGED <<status, owner, base, dstate, claim, cycle, micro, calls>>
      /\ merging[d] = "enqueue" /\ merging' = [merging EXCEPT ![d] = "process"]
      /\ rows' = Enqueued(d)
  BY DEF Enqueue, plan, delegations
<1>2. rows' \in Seq(Delegation)
  BY <1>1 DEF Enqueued, IInv, Shape
<1>3. Shape'
  BY <1>1, <1>2 DEF IInv, Shape
<1>4. Stable /\ ClaimInv' /\ \A e \in Delegation : Chained(e)' => Chained(e)
  BY <1>1 DEF IInv, Shape, ClaimInv, Stable, Chained
<1> QED BY <1>1, <1>3, <1>4, QuietKeeps

(* processNext claims for whoever called it, a chain or the boot.             *)
LEMMA ClaimNextKeeps ==
    ASSUME IInv, NEW by \in Delegation \cup {Boot}, ClaimNext(rows, by),
           UNCHANGED <<status, owner, base, cycle, micro, calls>>,
           by \in Delegation => merging[by] # "no",
           \/ merging' = merging
           \/ by \in Delegation /\ merging' = [merging EXCEPT ![by] = "no"]
    PROVE  IInv'
<1>a. Shape
  BY DEF IInv
<1>1. /\ Head(rows) \in Delegation /\ Tail(rows) \in Seq(Delegation)
      /\ dstate[Head(rows)] = "accepted" /\ claim = NoClaim
  BY <1>a, AmongTail DEF ClaimNext, Ready, Shape
<1>2. /\ claim' = [row |-> Head(rows), by |-> by] /\ rows' = Tail(rows)
      /\ dstate' = [dstate EXCEPT ![Head(rows)] = "integrating"]
  BY DEF ClaimNext
<1> DEFINE h == Head(rows)
<1> HIDE DEF h
<1>3. h \in Delegation /\ dstate[h] = "accepted" /\ claim'.row = h /\ claim'.by = by
      /\ dstate' = [dstate EXCEPT ![h] = "integrating"]
      /\ claim' \in [row : Delegation \cup {NoOne}, by : Delegation \cup {Boot, NoOne}]
  BY <1>1, <1>2 DEF h
<1>4. Shape'
  BY <1>a, <1>1, <1>2, <1>3 DEF Shape, States
<1>5. Stable /\ ClaimInv'
  BY <1>a, <1>3, PlansAssumption DEF Shape, Stable, ClaimInv
<1>6. \A e \in Delegation : Chained(e)' => Chained(e)
  BY <1>a, <1>3, PlansAssumption DEF Shape, Chained
<1> QED BY <1>4, <1>5, <1>6, QuietKeeps

LEMMA ProcessNextKeeps == ASSUME IInv, NEW d \in Delegation, ProcessNext(d) PROVE IInv'
<1>1. /\ Idle /\ merging[d] = "process" /\ UNCHANGED <<owner, base>>
      /\ \/ /\ ClaimNext(rows, d) /\ merging' = [merging EXCEPT ![d] = "no"]
            /\ UNCHANGED <<status, cycle, micro, calls>>
         \/ ClaimNothing(rows) /\ AfterHook(d)
  BY DEF ProcessNext
<1>2. CASE ClaimNext(rows, d) /\ merging' = [merging EXCEPT ![d] = "no"]
           /\ UNCHANGED <<status, cycle, micro, calls>>
  BY <1>1, <1>2, ClaimNextKeeps
<1>3. CASE ClaimNothing(rows) /\ AfterHook(d)
  <2>1. rows' \in {rows, Tail(rows)} /\ (rows' = rows \/ rows # <<>>) /\ claim' = claim
    BY <1>3 DEF ClaimNothing
  <2>2. rows' \in Seq(Delegation)
    BY <2>1, AmongTail DEF IInv, Shape
  <2> QED BY <1>1, <1>3, <2>1, <2>2, HookKeeps
<1> QED BY <1>1, <1>2, <1>3

LEMMA HookStepKeeps == ASSUME IInv, NEW d \in Delegation, HookStep(d) PROVE IInv'
<1>1. CASE HookFails(d) \/ IntegrationReturns(d)
  <2>1. /\ Idle /\ merging[d] # "no" /\ AfterHook(d)
        /\ UNCHANGED <<owner, base, claim, rows>>
    BY <1>1 DEF HookFails, IntegrationReturns, queue
  <2>2. rows' \in Seq(Delegation)
    BY <2>1 DEF IInv, Shape
  <2> QED BY <2>1, <2>2, HookKeeps
<1> QED BY <1>1, EnqueueKeeps, ProcessNextKeeps DEF HookStep

LEMMA IntegrationKeeps ==
    ASSUME IInv, NEW to \in {"merged", "queued"}, IntegrationEnds(to)
    PROVE  IInv'
<1>a. Shape /\ ClaimInv
  BY DEF IInv
<1>1. /\ UNCHANGED <<status, owner, base, rows, cycle, micro, calls>>
      /\ dstate' = [dstate EXCEPT ![claim.row] = to] /\ claim' = NoClaim
      /\ merging' = IF claim.by \in Delegation
                    THEN [merging EXCEPT ![claim.by] = "cleanup"] ELSE merging
  BY DEF IntegrationEnds, plan
<1>2. claim.row \in Delegation /\ dstate[claim.row] = "integrating"
  BY <1>a DEF IntegrationEnds, ClaimInv, Shape
<1>3. NoClaim \in [row : Delegation \cup {NoOne}, by : Delegation \cup {Boot, NoOne}]
      /\ NoClaim.row = NoOne /\ NoClaim.by = NoOne
  BY DEF NoClaim
<1>4. Shape'
  BY <1>a, <1>1, <1>2, <1>3 DEF Shape, States
<1>5. Stable /\ ClaimInv'
  BY <1>a, <1>1, <1>2, <1>3 DEF Shape, Stable, ClaimInv
<1>6. \A e \in Delegation : Chained(e)' => Chained(e)
  BY <1>a, <1>1, <1>3, PlansAssumption DEF Shape, Chained
<1> QED BY <1>1, <1>4, <1>5, <1>6, QuietKeeps

(* The resume pass, the process's death and its restart.                      *)
LEMMA BareCyclesKeep ==
    ASSUME IInv, NEW ds \in [Delegation -> States], NEW D \in SUBSET Delegation,
           RunCycles(ds, D, "bare", <<>>),
           \A d \in Delegation :
             ds[d] = dstate[d] \/ (dstate[d] \in {"running", "integrating"}
                                   /\ ds[d] \in {"queued", "blocked"}),
           UNCHANGED <<status, owner, base, rows, merging, calls>>,
           \/ claim' = NoClaim
           \/ claim' = claim /\ ds = dstate
    PROVE  IInv'
<1>a. Shape /\ ClaimInv /\ <<>> \in Seq(Delegation) /\ \A d : ~Among(d, <<>>)
  BY DEF IInv, Among
<1>1. /\ dstate' \in [Delegation -> States]
      /\ cycle' \in [Delegation -> {"none", "plan", "bare", "left"}]
      /\ micro' \in Seq(Delegation)
      /\ \A d \in Delegation :
           /\ dstate'[d] = ds[d] \/ (ds[d] = "queued" /\ dstate'[d] \in {"running", "blocked"})
           /\ cycle'[d] = cycle[d] \/ (cycle'[d] = "bare" /\ d \in D)
           /\ Among(d, micro') => Among(d, <<>>) \/ ("bare" = "plan" /\ d \in D)
  BY <1>a, CyclesMove
<1>2. /\ NoClaim \in [row : Delegation \cup {NoOne}, by : Delegation \cup {Boot, NoOne}]
      /\ NoClaim.row = NoOne /\ NoClaim.by = NoOne
  BY DEF NoClaim
<1>3. Shape'
  BY <1>a, <1>1, <1>2 DEF Shape
<1>4. Stable
  BY <1>1 DEF Stable
<1>5. ClaimInv'
  <2>1. claim.row \in Delegation \cup {NoOne}
    BY <1>a DEF Shape
  <2> QED BY <1>a, <1>1, <1>2, <2>1 DEF ClaimInv
<1>6. \A d \in Delegation : Chained(d)' => Chained(d)
  BY <1>a, <1>1, <1>2, PlansAssumption DEF Chained
<1> QED BY <1>3, <1>4, <1>5, <1>6, QuietKeeps

LEMMA ResyncKeeps == ASSUME IInv, Resync PROVE IInv'
<1>1. /\ dstate \in [Delegation -> States] /\ In("queued") \in SUBSET Delegation
      /\ RunCycles(dstate, In("queued"), "bare", <<>>)
      /\ UNCHANGED <<status, owner, base, rows, claim, merging, calls>>
  BY DEF Resync, ResumeQueuedDelegations, plan, queue, In, IInv, Shape
<1> QED BY <1>1, BareCyclesKeep

LEMMA RestartKeeps == ASSUME IInv, Restart PROVE IInv'
<1>1. PICK lost \in SUBSET In("running") :
        LET ds == [d \in Delegation |->
                     IF d \in lost \cup In("integrating")
                     THEN IF attempts[d] >= attemptLimit THEN "blocked" ELSE "queued"
                     ELSE dstate[d]]
        IN  RunCycles(ds, {d \in Delegation : ds[d] = "queued"}, "bare", <<>>)
  BY DEF Restart
<1> DEFINE ds == [d \in Delegation |->
                    IF d \in lost \cup In("integrating")
                    THEN IF attempts[d] >= attemptLimit THEN "blocked" ELSE "queued"
                    ELSE dstate[d]]
           D == {d \in Delegation : ds[d] = "queued"}
<1>2. /\ ds \in [Delegation -> States]
      /\ \A d \in Delegation :
           ds[d] = dstate[d] \/ (dstate[d] \in {"running", "integrating"}
                                 /\ ds[d] \in {"queued", "blocked"})
  BY DEF In, States, IInv, Shape
<1>3. RunCycles(ds, D, "bare", <<>>) /\ D \in SUBSET Delegation
  BY <1>1
<1> HIDE DEF D, ds
<1>4. UNCHANGED <<status, owner, base, rows, merging, calls>> /\ claim' = NoClaim
  BY DEF Restart, plan
<1> QED BY <1>2, <1>3, <1>4, BareCyclesKeep

LEMMA CrashKeeps == ASSUME IInv, Crash PROVE IInv'
<1>a. Shape /\ ClaimInv
  BY DEF IInv
<1>1. /\ UNCHANGED <<status, owner, base, dstate, rows>> /\ micro' = <<>>
      /\ cycle' = [d \in Delegation |-> "none"] /\ merging' = [d \in Delegation |-> "no"]
      /\ calls' = [c \in Caller |-> NoCall] /\ claim' = [claim EXCEPT !.by = NoOne]
  BY DEF Crash, plan, delegations
<1>2. /\ claim' \in [row : Delegation \cup {NoOne}, by : Delegation \cup {Boot, NoOne}]
      /\ claim'.row = claim.row /\ claim'.by = NoOne
  BY <1>a, <1>1 DEF Shape
<1>3. calls' \in [Caller -> [todo : SUBSET Step, seen : SUBSET Delegation]]
      /\ \A c \in Caller : CallMoves(c)
  BY <1>1 DEF NoCall, CallMoves
<1>4. Shape'
  BY <1>a, <1>1, <1>2, <1>3 DEF Shape
<1>5. claim.row = NoOne => claim' = NoClaim
  BY <1>a, <1>1 DEF ClaimInv, NoClaim
<1>6. Stable /\ ClaimInv'
  BY <1>a, <1>1, <1>2, <1>5 DEF ClaimInv, Stable
<1>7. \A d \in Delegation : ~Chained(d)'
  BY <1>1, <1>2, PlansAssumption DEF Chained, Among
<1>8. \A s \in Step : StatusMoves(s)
  BY <1>1 DEF StatusMoves
<1> QED BY <1>1, <1>3, <1>4, <1>6, <1>7, <1>8, Keeps

LEMMA NextKeeps == ASSUME IInv, [Next]_vars PROVE IInv'
<1>1. CASE ResumeQueuedMerges
  <2>1. UNCHANGED <<status, owner, base, cycle, merging, micro, calls>>
    BY <1>1 DEF ResumeQueuedMerges, plan
  <2>2. CASE ClaimNext(rows, Boot)
    BY <2>1, <2>2, PlansAssumption, ClaimNextKeeps
  <2>3. CASE ClaimNothing(rows) /\ UNCHANGED dstate
    <3>1. rows' \in {rows, Tail(rows)} /\ (rows' = rows \/ rows # <<>>) /\ claim' = claim
      BY <2>3 DEF ClaimNothing
    <3>2. rows' \in Seq(Delegation)
      BY <3>1, AmongTail DEF IInv, Shape
    <3>3. /\ Shape' /\ Stable /\ ClaimInv'
          /\ \A d \in Delegation : Chained(d)' => Chained(d)
      BY <2>1, <2>3, <3>1, <3>2 DEF IInv, Shape, Stable, ClaimInv, Chained
    <3> QED BY <2>1, <3>3, QuietKeeps
  <2> QED BY <1>1, <2>2, <2>3 DEF ResumeQueuedMerges
<1>2. CASE Listen \/ UNCHANGED vars
  <2>1. UNCHANGED <<status, owner, dstate, base, rows, claim, cycle, merging, micro, calls>>
    BY <1>2 DEF Listen, vars, plan, delegations, queue
  <2>2. Shape' /\ Stable /\ ClaimInv' /\ \A d \in Delegation : Chained(d)' => Chained(d)
    BY <2>1 DEF IInv, Shape, Stable, ClaimInv, Chained
  <2> QED BY <2>1, <2>2, QuietKeeps
<1>3. ASSUME NEW d \in Delegation, CycleStep(d) \/ HookStep(d) \/ Cancel(d) PROVE IInv'
  BY <1>3, StepOfCycleKeeps, HookStepKeeps DEF CycleStep
<1>4. CASE Progress
  BY <1>1, <1>2, <1>3, <1>4, SettledKeeps, DispatchFailsKeeps, DispatchReturnsKeeps,
     IntegrationKeeps, ResumeKeeps, RestartKeeps
  DEF Progress
<1> QED BY <1>2, <1>3, <1>4, SubmitKeeps, ResyncKeeps, CrashKeeps DEF Next

-----------------------------------------------------------------------------
(* The invariant, through every interleaving, crash and resync.               *)
THEOREM Invariance == Spec => []IInv
<1>1. IInv /\ [Next]_vars => IInv'
  BY NextKeeps
<1> QED BY InitHolds, <1>1, PTL DEF Spec

(* A step starts only once what it waits for is merged, and works from a      *)
(* baseline that contains it (nextRunnableSteps, claimPlanStep, dispatch).    *)
THEOREM DependenciesFirst == Spec => []BuiltOnDependencies
<1>1. IInv => BuiltOnDependencies
  BY DEF IInv
<1> QED BY Invariance, <1>1, PTL

(* A step is done only by work of its own that is on the target               *)
(* (onPlanDelegationSettled).                                                 *)
THEOREM DoneMeansMerged == Spec => []DoneIsMerged
<1>1. IInv => DoneIsMerged
  BY DEF IInv
<1> QED BY Invariance, <1>1, PTL

(* One delegation owns a step, for good, and no two steps share it, however   *)
(* many runs of the plan compete for them (claimPlanStep).                    *)
THEOREM OwnersStay == Spec => OneOwnerForGood
<1> DEFINE Owners == \A s \in Step :
                       /\ owner[s] # NoOne => owner'[s] = owner[s]
                       /\ \A r \in Step : owner'[s] = owner'[r] /\ owner'[s] # NoOne => r = s
<1>1. ASSUME IInv, [Next]_vars PROVE Owners
  <2>1. ASSUME NEW s \in Step, owner[s] # NoOne PROVE owner'[s] = owner[s]
    <3>1. CASE owner' = owner
      BY <3>1
    <3>2. ASSUME NEW c \in Caller, DispatchReturns(c) PROVE owner'[s] = owner[s]
      <4>1. PICK q \in Step, d \in In("absent") :
              IF Claimable(q) THEN owner' = [owner EXCEPT ![q] = d] ELSE UNCHANGED plan
        BY <3>2 DEF DispatchReturns
      <4>2. CASE Claimable(q)
        <5>1. owner[q] = NoOne
          BY <1>1, <4>2 DEF Claimable, IInv, OwnerInv
        <5> QED BY <1>1, <2>1, <4>1, <4>2, <5>1 DEF IInv, Shape
      <4> QED BY <4>1, <4>2 DEF plan
    <3>3. ASSUME NEW d \in Delegation, CycleStep(d) \/ HookStep(d) \/ Cancel(d)
          PROVE  owner' = owner
      BY <3>3 DEF CycleStep, HookStep, AttemptFails, AttemptThrows, CandidateAccepted, CycleReturns,
         Enqueue, HookFails, ProcessNext, IntegrationReturns, Cancel, plan
    <3>4. CASE \/ Resync \/ Crash \/ UNCHANGED vars
               \/ (\E c \in Submission : SubmitPlan(c)) \/ OnPlanDelegationSettled
               \/ (\E c \in Caller : DispatchFails(c))
               \/ IntegrationEnds("merged") \/ IntegrationEnds("queued")
               \/ ResumeQueuedMerges \/ ResumeOpenPlans \/ Listen \/ Restart
      BY <3>1, <3>4 DEF Resync, Crash, vars, SubmitPlan, OnPlanDelegationSettled, DispatchFails,
         IntegrationEnds, ResumeQueuedMerges, ResumeOpenPlans, Listen, Restart, plan
    <3> QED BY <1>1, <3>1, <3>2, <3>3, <3>4 DEF Next, Progress
  <2>2. OwnerInv'
    BY <1>1, NextKeeps DEF IInv
  <2> QED BY <2>1, <2>2 DEF OwnerInv
<1>2. IInv /\ [Next]_vars => [Owners]_vars
  BY <1>1
<1> QED BY Invariance, <1>2, PTL DEF Spec, OneOwnerForGood

=============================================================================
