-------------------------- MODULE MergeQueueProofs --------------------------
(* Proofs about module MergeQueue, for any number of delegations, targets,   *)
(* retries, crashes and foreign commits, with and without the sweep in the   *)
(* living process, and with git commands that die after their effect.        *)
EXTENDS MergeQueue, FiniteSetTheorems, SequenceTheorems, TLAPS

-----------------------------------------------------------------------------
(* What the updates of a row and of a ref leave of them.                     *)

(* Row d, and no other, gets this state, observation and merge commit.       *)
Sets(d, s, observed, integrated) ==
    /\ row' \in [Delegation -> Rows]
    /\ \A e \in Delegation \ {d} : row'[e] = row[e]
    /\ row'[d].state = s /\ row'[d].accepted = row[d].accepted
    /\ row'[d].created = row[d].created
    /\ row'[d].observed = observed /\ row'[d].integrated = integrated

LEMMA RowStateSets ==
    ASSUME NEW d \in Delegation, NEW s \in RowStates, row \in [Delegation -> Rows], RowState(d, s)
    PROVE  Sets(d, s, row[d].observed, row[d].integrated)
<1>1. row[d] \in Rows
  OBVIOUS
<1>2. row' = [row EXCEPT ![d] = [row[d] EXCEPT !.state = s]]
  BY DEF RowState
<1>3. /\ [row[d] EXCEPT !.state = s] \in Rows
      /\ [row[d] EXCEPT !.state = s].state = s
      /\ [row[d] EXCEPT !.state = s].accepted = row[d].accepted
      /\ [row[d] EXCEPT !.state = s].created = row[d].created
      /\ [row[d] EXCEPT !.state = s].observed = row[d].observed
      /\ [row[d] EXCEPT !.state = s].integrated = row[d].integrated
  BY <1>1 DEF Rows
<1>4. row'[d] = [row[d] EXCEPT !.state = s] /\ \A e \in Delegation \ {d} : row'[e] = row[e]
  BY <1>2
<1>5. row' \in [Delegation -> Rows]
  BY <1>2, <1>3
<1> QED BY <1>3, <1>4, <1>5 DEF Sets

LEMMA ObserveSets ==
    ASSUME NEW d \in Delegation, row \in [Delegation -> Rows], Tip(d) \in Nat, Observe(d)
    PROVE  Sets(d, row[d].state, Tip(d), row[d].integrated)
<1>1. row[d] \in Rows
  OBVIOUS
<1>2. row' = [row EXCEPT ![d] = [row[d] EXCEPT !.observed = Tip(d)]]
  BY DEF Observe
<1>3. /\ [row[d] EXCEPT !.observed = Tip(d)] \in Rows
      /\ [row[d] EXCEPT !.observed = Tip(d)].state = row[d].state
      /\ [row[d] EXCEPT !.observed = Tip(d)].accepted = row[d].accepted
      /\ [row[d] EXCEPT !.observed = Tip(d)].created = row[d].created
      /\ [row[d] EXCEPT !.observed = Tip(d)].observed = Tip(d)
      /\ [row[d] EXCEPT !.observed = Tip(d)].integrated = row[d].integrated
  BY <1>1 DEF Rows
<1>4. row'[d] = [row[d] EXCEPT !.observed = Tip(d)] /\ \A e \in Delegation \ {d} : row'[e] = row[e]
  BY <1>2
<1>5. row' \in [Delegation -> Rows]
  BY <1>2, <1>3
<1> QED BY <1>3, <1>4, <1>5 DEF Sets

LEMMA MergeSets ==
    ASSUME NEW d \in Delegation, row \in [Delegation -> Rows], MergeOk(d)
    PROVE  Sets(d, "integrated", row[d].observed,
                row[d].observed + IF AlreadyUpToDate(d) THEN 0 ELSE 1)
<1> DEFINE n == row[d].observed + IF AlreadyUpToDate(d) THEN 0 ELSE 1
           r == [row[d] EXCEPT !.state = "integrated", !.integrated = n]
<1>1. row[d] \in Rows /\ n \in Nat
  BY DEF Rows
<1>2. row' = [row EXCEPT ![d] = r]
  BY DEF MergeOk
<1> HIDE DEF n
<1>3. /\ r \in Rows /\ r.state = "integrated" /\ r.accepted = row[d].accepted
      /\ r.created = row[d].created
      /\ r.observed = row[d].observed /\ r.integrated = n
  BY <1>1 DEF Rows, RowStates
<1> HIDE DEF r
<1>4. row'[d] = r /\ \A e \in Delegation \ {d} : row'[e] = row[e]
  BY <1>2
<1>5. row' \in [Delegation -> Rows]
  BY <1>2, <1>3
<1>6. Sets(d, "integrated", row[d].observed, n)
  BY <1>3, <1>4, <1>5 DEF Sets
<1> QED BY <1>6 DEF n

(* A commit is appended to one target.                                       *)
Grows(t, c) ==
    /\ target' \in [Target -> Seq(Commits)]
    /\ \A u \in Target \ {t} : target'[u] = target[u]
    /\ DOMAIN target[t] = 1..Len(target[t])
    /\ DOMAIN target'[t] = 1..Len(target[t]) + 1
    /\ Len(target'[t]) = Len(target[t]) + 1
    /\ \A i \in DOMAIN target[t] : target'[t][i] = target[t][i]
    /\ target'[t][Len(target[t]) + 1] = c

LEMMA AppendGrows ==
    ASSUME NEW t \in Target, NEW c \in Commits, target \in [Target -> Seq(Commits)],
           target' = [target EXCEPT ![t] = Append(@, c)]
    PROVE  Grows(t, c)
<1>1. target[t] \in Seq(Commits)
  OBVIOUS
<1>2. target'[t] = Append(target[t], c) /\ \A u \in Target \ {t} : target'[u] = target[u]
  OBVIOUS
<1>3. Append(target[t], c) \in Seq(Commits)
  BY <1>1
<1>4. target' \in [Target -> Seq(Commits)]
  BY <1>2, <1>3
<1>5. /\ DOMAIN target[t] = 1..Len(target[t])
      /\ DOMAIN target'[t] = 1..Len(target[t]) + 1
      /\ Len(target'[t]) = Len(target[t]) + 1
      /\ \A i \in DOMAIN target[t] : target'[t][i] = target[t][i]
      /\ target'[t][Len(target[t]) + 1] = c
  BY <1>1, <1>2
<1> QED BY <1>2, <1>4, <1>5 DEF Grows

-----------------------------------------------------------------------------
(* The delegations table, whoever executes a statement on it.                *)

TableTypeOK ==
    /\ dstate \in [Delegation -> DELEGATION_STATES \cup {"absent"}]
    /\ attempts \in [Delegation -> 0..3]
    /\ reported \in [Delegation -> 0..3]
    /\ verified \in [Delegation -> SUBSET (1..3)]

(* A worker has an attempt, and what is accepted is the newest report.       *)
TableInv ==
    /\ TableTypeOK
    /\ \A d \in Delegation :
         /\ dstate[d] \in {"running", "verifying"} => attempts[d] >= 1
         /\ dstate[d] = "accepted" => reported[d] \in verified[d]

Statement(d) ==
    \/ Create(d) \/ Cancel(d) \/ StartAttempt(d) \/ BlockAtCap(d)
    \/ dstate[d] = "running" /\ BeginVerification(d)
    \/ dstate[d] = "verifying" /\ AddReport(d)
    \/ dstate[d] = "verifying" /\ reported[d] = attempts[d] /\ Accept(d)
    \/ SettleFailure(d)
    \/ FinishIntegration(d, "merged") \/ FinishIntegration(d, "queued")

TableStep ==
    \/ \E d \in Delegation : Statement(d)
    \/ \E started, capped \in SUBSET Delegation : StartBatch(started, capped)
    \/ \E lost : RequeueLost(lost)
    \/ \E claimed : BeginIntegration(claimed)
    \/ UNCHANGED table

LEMMA StatementKeeps ==
    ASSUME TableInv, NEW d \in Delegation, Statement(d)
    PROVE  TableInv' /\ \A e \in Delegation : verified[e] \subseteq verified'[e]
<1> USE DEF TableInv, TableTypeOK
<1>1. CASE Create(d) \/ Cancel(d) \/ BlockAtCap(d) \/ SettleFailure(d)
  BY <1>1 DEF Create, Cancel, BlockAtCap, SettleFailure, Transition, Requeue, DELEGATION_STATES
<1>2. CASE StartAttempt(d)
  <2>1. attempts[d] \in 0..2
    <3>1. attemptLimit[d] \in 1..3 /\ attempts[d] \in 0..3
      BY DelegationsAssumption
    <3> QED BY <1>2, <3>1 DEF StartAttempt, AtCap
  <2> QED BY <1>2, <2>1 DEF StartAttempt, Transition, DELEGATION_STATES
<1>3. CASE dstate[d] = "running" /\ BeginVerification(d)
  BY <1>3 DEF BeginVerification, Transition, DELEGATION_STATES
<1>4. CASE dstate[d] = "verifying" /\ AddReport(d)
  BY <1>4 DEF AddReport
<1>5. CASE dstate[d] = "verifying" /\ reported[d] = attempts[d] /\ Accept(d)
  <2>1. attempts[d] \in 1..3
    BY <1>5
  <2> QED BY <1>5, <2>1 DEF Accept, Transition, DELEGATION_STATES
<1>6. CASE FinishIntegration(d, "merged") \/ FinishIntegration(d, "queued")
  BY <1>6 DEF FinishIntegration, Transition, DELEGATION_STATES
<1> QED BY <1>1, <1>2, <1>3, <1>4, <1>5, <1>6 DEF Statement

LEMMA TableKeeps ==
    ASSUME TableInv, TableStep
    PROVE  TableInv' /\ \A d \in Delegation : verified[d] \subseteq verified'[d]
<1>1. CASE \E d \in Delegation : Statement(d)
  BY <1>1, StatementKeeps
<1>2. CASE \E started, capped \in SUBSET Delegation : StartBatch(started, capped)
  <2>1. PICK started \in SUBSET Delegation, capped \in SUBSET Delegation :
          StartBatch(started, capped)
    BY <1>2
  <2>2. \A d \in started : attempts[d] \in 0..2
    BY <2>1, DelegationsAssumption DEF StartBatch, AtCap, TableInv, TableTypeOK
  <2> QED BY <2>1, <2>2 DEF StartBatch, TableInv, TableTypeOK, DELEGATION_STATES
<1>3. CASE \E lost : RequeueLost(lost)
  BY <1>3 DEF RequeueLost, Requeue, TableInv, TableTypeOK, DELEGATION_STATES
<1>4. CASE \E claimed : BeginIntegration(claimed)
  BY <1>4 DEF BeginIntegration, TableInv, TableTypeOK, DELEGATION_STATES
<1>5. CASE UNCHANGED table
  BY <1>5 DEF table, TableInv, TableTypeOK
<1> QED BY <1>1, <1>2, <1>3, <1>4, <1>5 DEF TableStep

(* The queue executes no other statement, nor does its environment.          *)
LEMMA StepsOnTable == [Next]_vars => TableStep
<1> SUFFICES ASSUME [Next]_vars PROVE TableStep
  OBVIOUS
<1>1. ASSUME NEW d \in Delegation, Worker(d) PROVE TableStep
  BY <1>1 DEF Worker, WorkerStatement, TableStep, Statement
<1>2. ASSUME NEW d \in Delegation,
             ConfirmMerge(d) \/ EnqueueMerge(d) \/ RecoverAmbiguous(d)
      PROVE  UNCHANGED table
  BY <1>2 DEF ConfirmMerge, EnqueueMerge, RecoverAmbiguous, shared
<1>3. ASSUME NEW d \in Delegation, ProcessNext(d) PROVE TableStep
  BY <1>3 DEF ProcessNext, Claim, TableStep
<1>4. ASSUME NEW d \in Delegation, ProcessStep(d) PROVE TableStep
  <2>1. CASE GiveUp(d) \/ Published(d)
    BY <2>1 DEF GiveUp, Published, TableStep, Statement
  <2>2. CASE Observe(d) \/ MergeOk(d) \/ IntegratedEligible(d) \/ CasPublish(d)
             \/ CasRefused(d) \/ ProcessThrows(d)
    BY <2>2 DEF Observe, MergeOk, IntegratedEligible, CasPublish, CasRefused, ProcessThrows,
       shared, TableStep
  <2> QED BY <1>4, <2>1, <2>2 DEF ProcessStep
<1>5. ASSUME NEW d \in Delegation, RecoverRow(d) PROVE TableStep
  BY <1>5 DEF RecoverRow, TableStep, Statement
<1>6. CASE Sweep \/ Restart
  BY <1>6 DEF Sweep, Restart, Reconcile, TableStep
<1>7. CASE Crash \/ FinishMerging \/ UNCHANGED vars
  BY <1>7 DEF Crash, FinishMerging, vars, shared, TableStep
<1>8. CASE StartupResume
  BY <1>8 DEF StartupResume, TableStep
<1>9. CASE FinishResume
  BY <1>9 DEF FinishResume, Claim, TableStep
<1>10. ASSUME NEW t \in Target, ForeignCommit(t) PROVE TableStep
  BY <1>10 DEF ForeignCommit, shared, TableStep
<1> QED BY <1>1, <1>2, <1>3, <1>4, <1>5, <1>6, <1>7, <1>8, <1>9, <1>10 DEF Next, TableStep

-----------------------------------------------------------------------------
(* The inductive invariant.                                                  *)

QueueTypeOK ==
    /\ phase \in Phases /\ crashes \in 0..MaxCrashes
    /\ row \in [Delegation -> Rows]
    /\ target \in [Target -> Seq(Commits)]
    /\ checked \in [Delegation -> SUBSET Nat]
    /\ request \in [Delegation -> Requests]
    /\ mpc \in [Delegation -> {"idle", "observe", "merge", "gates", "cas", "won", "lost"}]
    /\ tries \in [Delegation -> 0..maxCasRetries + 1]
    /\ torecover \in SUBSET Delegation

By(d, i) == target[targetOf[d]][i].by = d
Positions(d) == DOMAIN target[targetOf[d]]

(* Nobody works on rows before the boot resumes the merges, and only the     *)
(* recovery looks at rows in publishing.                                     *)
BootInv ==
    /\ phase \in {"down", "recovering", "resuming"} => \A d \in Delegation : mpc[d] = "idle"
    /\ phase # "up" => \A d \in Delegation : request[d] = NoRequest
    /\ torecover # {} => phase = "recovering"
    /\ \A d \in torecover : row[d].state = "publishing"

(* Rows, and the requests that will write them, name verified candidates.    *)
CandidateInv ==
    \A d \in Delegation :
        /\ request[d].at = "insert" => request[d].accepted \in verified[d]
        /\ row[d].state # "none" => row[d].accepted \in verified[d]

(* What a suspended processNext relies on. A row is claimed once in its      *)
(* life, so that no two of them work on one row, whatever the sweep does.    *)
Suspended(d) ==
    /\ mpc[d] # "idle" => row[d].state \in {"claimed", "integrated", "publishing", "failed"}
    /\ mpc[d] \in {"merge", "gates", "cas", "won", "lost"} => tries[d] <= maxCasRetries
    /\ mpc[d] \in {"merge", "gates", "cas"} => row[d].observed <= Tip(d)
    /\ mpc[d] = "gates" =>
         \/ row[d].integrated = row[d].observed
         \/ /\ row[d].integrated = row[d].observed + 1
            /\ \A i \in 1..row[d].observed : ~By(d, i)
    /\ mpc[d] = "cas" =>
         /\ row[d].integrated = row[d].observed + 1
         /\ row[d].integrated \in checked[d]
         /\ \A i \in 1..row[d].observed : ~By(d, i)
    /\ mpc[d] \in {"cas", "won", "lost"} => row[d].state = "publishing"
    /\ mpc[d] = "won" => Landed(d)

SuspendedInv == \A d \in Delegation : Suspended(d)

(* A commit of ours has a row, whose candidate it is, and was vetted there.  *)
LogInv ==
    \A d \in Delegation : \A i \in Positions(d) : By(d, i) =>
        /\ row[d].state \notin {"none", "queued"}
        /\ target[targetOf[d]][i].candidate = row[d].accepted
        /\ i \in checked[d]

SettledInv ==
    /\ RecordedHasLanded
    /\ \A d \in Delegation : row[d].state = "published" => dstate[d] # "integrating"

IInv ==
    /\ TableInv /\ QueueTypeOK /\ BootInv /\ CandidateInv /\ SuspendedInv
    /\ LogInv /\ NoLostUpdate /\ PublishedAtMostOnce /\ SettledInv

LEMMA InitHolds == Init => IInv
<1> SUFFICES ASSUME Init PROVE IInv
  OBVIOUS
<1> USE DEF Init, DelegationsInit
<1>1. TableInv
  BY DEF TableInv, TableTypeOK
<1>2. QueueTypeOK
  <2>1. NoRow \in Rows
    BY DEF NoRow, Rows, RowStates
  <2>2. NoRequest \in Requests
    BY DEF NoRequest, Requests
  <2>3. target \in [Target -> Seq(Commits)]
    OBVIOUS
  <2>4. 0 \in 0..MaxCrashes /\ 0 \in 0..maxCasRetries + 1
    BY DelegationsAssumption, MergeQueueAssumption
  <2> QED BY <2>1, <2>2, <2>3, <2>4 DEF QueueTypeOK, Phases
<1>3. \A d \in Delegation : row[d].state = "none" /\ request[d].at = "idle" /\ Positions(d) = {}
  BY MergeQueueAssumption DEF NoRow, NoRequest, Positions
<1>4. BootInv
  BY DEF BootInv
<1>5. CandidateInv /\ SuspendedInv /\ LogInv
  BY <1>3 DEF CandidateInv, SuspendedInv, Suspended, LogInv
<1>6. NoLostUpdate /\ PublishedAtMostOnce
  <2>1. \A t \in Target : DOMAIN target[t] = {}
    OBVIOUS
  <2> QED BY <1>3, <2>1 DEF NoLostUpdate, PublishedAtMostOnce, Positions
<1>7. SettledInv
  BY <1>3 DEF SettledInv, RecordedHasLanded
<1> QED BY <1>1, <1>2, <1>4, <1>5, <1>6, <1>7 DEF IInv

-----------------------------------------------------------------------------
(* A claim takes queued rows only, and starts at most one processNext each.  *)
LEMMA ClaimMoves ==
    ASSUME IInv, NEW claimed \in SUBSET Delegation, Claim(claimed),
           \A d \in claimed : row[d].state = "queued"
    PROVE  /\ row' \in [Delegation -> Rows]
           /\ \A d \in Delegation :
                \/ /\ row'[d] = row[d] /\ mpc'[d] = mpc[d] /\ tries'[d] = tries[d]
                   /\ dstate'[d] = dstate[d]
                \/ /\ row[d].state = "queued" /\ row'[d].accepted = row[d].accepted
                   /\ row'[d].created = row[d].created
                   /\ row'[d].observed = row[d].observed /\ row'[d].integrated = row[d].integrated
                   /\ \/ /\ row'[d].state = "claimed" /\ mpc'[d] = "observe" /\ tries'[d] = 1
                      \/ /\ row'[d].state = "failed" /\ mpc'[d] = mpc[d] /\ tries'[d] = tries[d]
                         /\ dstate'[d] = dstate[d]
           /\ DOMAIN mpc' = Delegation /\ mpc' = [d \in Delegation |-> mpc'[d]]
           /\ tries' = [d \in Delegation |-> tries'[d]]
<1>1. row \in [Delegation -> Rows] /\ dstate \in [Delegation -> DELEGATION_STATES \cup {"absent"}]
  BY DEF IInv, QueueTypeOK, TableInv, TableTypeOK
<1>2. ASSUME NEW d \in Delegation, NEW s \in {"claimed", "failed"}
      PROVE  [row[d] EXCEPT !.state = s] \in Rows
  <2>1. row[d] \in Rows
    BY <1>1
  <2> QED BY <2>1 DEF Rows, RowStates
<1> DEFINE ready == {d \in claimed : dstate[d] = "accepted"}
<1>3. ASSUME NEW d \in Delegation
      PROVE  /\ row'[d] = IF d \in ready THEN [row[d] EXCEPT !.state = "claimed"]
                         ELSE IF d \in claimed THEN [row[d] EXCEPT !.state = "failed"]
                         ELSE row[d]
             /\ mpc'[d] = IF d \in ready THEN "observe" ELSE mpc[d]
             /\ tries'[d] = IF d \in ready THEN 1 ELSE tries[d]
             /\ dstate'[d] = IF d \in claimed /\ dstate[d] = "accepted"
                            THEN "integrating" ELSE dstate[d]
  BY DEF Claim, BeginIntegration
<1>4. row' = [d \in Delegation |-> row'[d]] /\ DOMAIN mpc' = Delegation
      /\ mpc' = [d \in Delegation |-> mpc'[d]] /\ tries' = [d \in Delegation |-> tries'[d]]
  BY DEF Claim
<1>5. ASSUME NEW d \in Delegation PROVE row'[d] \in Rows
  BY <1>1, <1>2, <1>3
<1>6. row' \in [Delegation -> Rows]
  BY <1>4, <1>5
<1>7. ASSUME NEW d \in Delegation
      PROVE  \/ /\ row'[d] = row[d] /\ mpc'[d] = mpc[d] /\ tries'[d] = tries[d]
                /\ dstate'[d] = dstate[d]
             \/ /\ row[d].state = "queued" /\ row'[d].accepted = row[d].accepted
                /\ row'[d].created = row[d].created
                /\ row'[d].observed = row[d].observed /\ row'[d].integrated = row[d].integrated
                /\ \/ /\ row'[d].state = "claimed" /\ mpc'[d] = "observe" /\ tries'[d] = 1
                   \/ /\ row'[d].state = "failed" /\ mpc'[d] = mpc[d] /\ tries'[d] = tries[d]
                      /\ dstate'[d] = dstate[d]
  <2>1. CASE d \in ready
    <3>1. row[d] \in Rows /\ row'[d] = [row[d] EXCEPT !.state = "claimed"]
      BY <1>1, <1>3, <2>1
    <3>2. /\ row'[d].state = "claimed" /\ row'[d].accepted = row[d].accepted
          /\ row'[d].created = row[d].created
          /\ row'[d].observed = row[d].observed /\ row'[d].integrated = row[d].integrated
      BY <3>1 DEF Rows
    <3>3. row[d].state = "queued"
      BY <2>1
    <3> QED BY <1>3, <2>1, <3>2, <3>3
  <2>2. CASE d \in claimed \ ready
    <3>1. row[d] \in Rows /\ row'[d] = [row[d] EXCEPT !.state = "failed"]
      BY <1>1, <1>3, <2>2
    <3>2. /\ row'[d].state = "failed" /\ row'[d].accepted = row[d].accepted
          /\ row'[d].created = row[d].created
          /\ row'[d].observed = row[d].observed /\ row'[d].integrated = row[d].integrated
      BY <3>1 DEF Rows
    <3>3. row[d].state = "queued"
      BY <2>2
    <3> QED BY <1>3, <2>2, <3>2, <3>3
  <2>3. CASE d \notin claimed
    BY <1>3, <2>3
  <2> QED BY <2>1, <2>2, <2>3
<1> QED BY <1>4, <1>6, <1>7

LEMMA NextOneIsQueued ==
    ASSUME NEW t PROVE Next1(t) \subseteq {d \in Delegation : row[d].state = "queued"}
BY DEF Next1, InState

(* Reconciliation fails claimed and integrated rows, and moves nothing else. *)
LEMMA ReconcileMoves ==
    ASSUME IInv, NEW lost, Reconcile(lost)
    PROVE  /\ row' \in [Delegation -> Rows]
           /\ \A d \in Delegation :
                \/ row'[d] = row[d]
                \/ /\ row[d].state \in {"claimed", "integrated"} /\ row'[d].state = "failed"
                   /\ row'[d].accepted = row[d].accepted /\ row'[d].observed = row[d].observed
                   /\ row'[d].created = row[d].created
                   /\ row'[d].integrated = row[d].integrated
<1>1. row \in [Delegation -> Rows]
  BY DEF IInv, QueueTypeOK
<1>2. ASSUME NEW d \in Delegation
      PROVE  /\ [row[d] EXCEPT !.state = "failed"] \in Rows
             /\ [row[d] EXCEPT !.state = "failed"].state = "failed"
             /\ [row[d] EXCEPT !.state = "failed"].accepted = row[d].accepted
             /\ [row[d] EXCEPT !.state = "failed"].created = row[d].created
             /\ [row[d] EXCEPT !.state = "failed"].observed = row[d].observed
             /\ [row[d] EXCEPT !.state = "failed"].integrated = row[d].integrated
  <2>1. row[d] \in Rows
    BY <1>1
  <2> QED BY <2>1 DEF Rows, RowStates
<1>3. ASSUME NEW d \in Delegation
      PROVE  \/ row'[d] = row[d]
             \/ /\ row[d].state \in {"claimed", "integrated"}
                /\ row'[d] = [row[d] EXCEPT !.state = "failed"]
  BY DEF Reconcile
<1>4. row' = [d \in Delegation |-> row'[d]]
  BY DEF Reconcile
<1>5. ASSUME NEW d \in Delegation PROVE row'[d] \in Rows
  BY <1>1, <1>2, <1>3
<1>6. row' \in [Delegation -> Rows]
  BY <1>4, <1>5
<1> QED BY <1>2, <1>3, <1>6

-----------------------------------------------------------------------------
(* What a step does to the rows and to the refs, whichever action it is.     *)

RowMoves(d) ==
    \/ row'[d] = row[d]
    \/ /\ row[d].state = "none" /\ row'[d].state = "queued" /\ EnqueueMerge(d)
       /\ request[d].at = "insert" /\ row'[d].accepted = request[d].accepted
       /\ row'[d].created = 1 + Cardinality({e \in Delegation : row[e] # NoRow})
    \/ /\ row[d].state = "queued" /\ row'[d].state \in {"claimed", "failed"}
       /\ row'[d].accepted = row[d].accepted /\ row'[d].created = row[d].created
    \/ /\ row[d].state \in {"claimed", "integrated", "publishing", "failed"}
       /\ row'[d].state \notin {"none", "queued"}
       /\ row'[d].accepted = row[d].accepted /\ row'[d].created = row[d].created
       /\ row'[d].state = "published" => row'[d].integrated = row[d].integrated /\ Landed(d)

CasWrites(d) ==
    /\ mpc[d] = "cas" /\ Tip(d) = row[d].observed
    /\ Grows(targetOf[d], [by |-> d, candidate |-> row[d].accepted, base |-> row[d].observed])
    /\ UNCHANGED <<row, checked>>

RefMoves ==
    \/ UNCHANGED target
    \/ \E t \in Target : Grows(t, [by |-> Foreign, candidate |-> 0, base |-> Len(target[t])])
    \/ \E d \in Delegation : CasWrites(d)

LEMMA TipInNat ==
    ASSUME QueueTypeOK, NEW d \in Delegation
    PROVE  /\ targetOf[d] \in Target /\ target[targetOf[d]] \in Seq(Commits)
           /\ Tip(d) \in Nat /\ Positions(d) = 1..Tip(d)
BY MergeQueueAssumption DEF QueueTypeOK, Tip, Positions

LEMMA RowsMove ==
    ASSUME IInv, [Next]_vars
    PROVE  row' \in [Delegation -> Rows] /\ \A d \in Delegation : RowMoves(d)
<1> USE DEF RowMoves
<1>a. row \in [Delegation -> Rows] /\ QueueTypeOK
  BY DEF IInv, QueueTypeOK
<1>1. CASE UNCHANGED row
  BY <1>a, <1>1
<1>2. ASSUME NEW d \in Delegation, EnqueueMerge(d)
      PROVE  row' \in [Delegation -> Rows] /\ \A e \in Delegation : RowMoves(e)
  <2> DEFINE n == 1 + Cardinality({e \in Delegation : row[e] # NoRow})
             r == [NoRow EXCEPT !.state = "queued", !.accepted = request[d].accepted, !.created = n]
  <2>1. n \in Nat
    BY DelegationsAssumption, FS_Subset, FS_CardinalityType
  <2>2. request[d].accepted \in 0..3
    BY <1>a DEF QueueTypeOK, Requests
  <2>3. row' = [row EXCEPT ![d] = IF row[d].state = "none" THEN r ELSE row[d]]
        /\ request[d].at = "insert"
    BY <1>2 DEF EnqueueMerge
  <2> HIDE DEF n
  <2>4. r \in Rows /\ r.state = "queued" /\ r.accepted = request[d].accepted /\ r.created = n
    BY <2>1, <2>2 DEF NoRow, Rows, RowStates
  <2> HIDE DEF r
  <2>5. row'[d] = (IF row[d].state = "none" THEN r ELSE row[d])
        /\ \A e \in Delegation \ {d} : row'[e] = row[e]
    BY <1>a, <2>3
  <2>6. row' \in [Delegation -> Rows]
    BY <1>a, <2>3, <2>4
  <2>7. ASSUME NEW e \in Delegation PROVE RowMoves(e)
    BY <1>2, <2>3, <2>4, <2>5 DEF n
  <2> QED BY <2>6, <2>7
<1>3. ASSUME NEW claimed \in SUBSET Delegation, Claim(claimed),
             \A d \in claimed : row[d].state = "queued"
      PROVE  row' \in [Delegation -> Rows] /\ \A e \in Delegation : RowMoves(e)
  BY <1>3, ClaimMoves
<1>4. ASSUME NEW d \in Delegation, NEW s \in RowStates, NEW obs, NEW int, Sets(d, s, obs, int),
             row[d].state \in {"claimed", "integrated", "publishing", "failed"},
             s \notin {"none", "queued"},
             s = "published" => int = row[d].integrated /\ Landed(d)
      PROVE  row' \in [Delegation -> Rows] /\ \A e \in Delegation : RowMoves(e)
  BY <1>4 DEF Sets
<1>5. ASSUME NEW d \in Delegation, ProcessStep(d)
      PROVE  row' \in [Delegation -> Rows] /\ \A e \in Delegation : RowMoves(e)
  <2>1. CASE CasPublish(d) \/ ProcessThrows(d)
    BY <1>1, <2>1 DEF CasPublish, ProcessThrows
  <2>2. CASE ~(CasPublish(d) \/ ProcessThrows(d))
    <3>1. row[d].state \in {"claimed", "integrated", "publishing", "failed"}
      <4>1. mpc[d] # "idle"
        BY <1>5, <2>2 DEF ProcessStep, Observe, GiveUp, MergeOk, IntegratedEligible, Published,
           CasRefused
      <4> QED BY <4>1 DEF IInv, SuspendedInv, Suspended
    <3>2. CASE Observe(d)
      <4>1. Sets(d, row[d].state, Tip(d), row[d].integrated)
        BY <1>a, <3>2, ObserveSets, TipInNat
      <4>2. row[d].state \in RowStates
        BY <3>1 DEF RowStates
      <4> QED BY <1>4, <3>1, <4>1, <4>2
    <3>3. CASE MergeOk(d)
      <4>1. Sets(d, "integrated", row[d].observed,
                 row[d].observed + IF AlreadyUpToDate(d) THEN 0 ELSE 1)
        BY <1>a, <3>3, MergeSets
      <4>2. "integrated" \in RowStates
        BY DEF RowStates
      <4> QED BY <1>4, <3>1, <4>1, <4>2
    <3>4. CASE GiveUp(d) \/ IntegratedEligible(d) \/ CasRefused(d)
      <4>1. PICK s \in {"failed", "publishing", "claimed"} : RowState(d, s)
        BY <3>4 DEF GiveUp, IntegratedEligible, CasRefused
      <4>2. s \in RowStates
        BY DEF RowStates
      <4>3. Sets(d, s, row[d].observed, row[d].integrated)
        BY <1>a, <4>1, <4>2, RowStateSets
      <4> QED BY <1>4, <3>1, <4>2, <4>3
    <3>5. CASE Published(d)
      <4>1. "published" \in RowStates /\ RowState(d, "published") /\ Landed(d)
        BY <3>5 DEF RowStates, Published, IInv, SuspendedInv, Suspended
      <4>2. Sets(d, "published", row[d].observed, row[d].integrated)
        BY <1>a, <4>1, RowStateSets
      <4> QED BY <1>4, <3>1, <4>1, <4>2
    <3> QED BY <1>5, <2>2, <3>2, <3>3, <3>4, <3>5 DEF ProcessStep
  <2> QED BY <2>1, <2>2
<1>6. ASSUME NEW d \in Delegation, RecoverRow(d)
      PROVE  row' \in [Delegation -> Rows] /\ \A e \in Delegation : RowMoves(e)
  <2>1. row[d].state = "publishing"
    BY <1>6 DEF RecoverRow, IInv, BootInv
  <2>2. PICK s \in {"published", "failed"} : RowState(d, s) /\ (s = "published" => Landed(d))
    BY <1>6 DEF RecoverRow
  <2>3. s \in RowStates
    BY DEF RowStates
  <2>4. Sets(d, s, row[d].observed, row[d].integrated)
    BY <1>a, <2>2, <2>3, RowStateSets
  <2> QED BY <1>4, <2>1, <2>2, <2>3, <2>4
<1>7. ASSUME NEW lost, Reconcile(lost)
      PROVE  row' \in [Delegation -> Rows] /\ \A e \in Delegation : RowMoves(e)
  BY <1>7, ReconcileMoves
<1>8. ASSUME NEW d \in Delegation, ProcessNext(d)
      PROVE  row' \in [Delegation -> Rows] /\ \A e \in Delegation : RowMoves(e)
  <2>1. Next1(targetOf[d]) \in SUBSET Delegation
        /\ \A e \in Next1(targetOf[d]) : row[e].state = "queued"
    BY NextOneIsQueued
  <2> QED BY <1>3, <1>8, <2>1 DEF ProcessNext
<1>9. CASE FinishResume
  <2>1. UNION {Next1(t) : t \in Target} \in SUBSET Delegation
        /\ \A e \in UNION {Next1(t) : t \in Target} : row[e].state = "queued"
    BY NextOneIsQueued
  <2> QED BY <1>3, <1>9, <2>1 DEF FinishResume
<1>10. CASE Sweep \/ Restart
  BY <1>7, <1>10 DEF Sweep, Restart
<1>11. CASE \E d \in Delegation : ConfirmMerge(d) \/ RecoverAmbiguous(d) \/ Worker(d)
  BY <1>1, <1>11 DEF ConfirmMerge, RecoverAmbiguous, Worker, mergeVars
<1>12. CASE Crash \/ StartupResume \/ FinishMerging \/ UNCHANGED vars
  BY <1>1, <1>12 DEF Crash, StartupResume, FinishMerging, vars, mergeVars
<1>13. CASE \E t \in Target : ForeignCommit(t)
  BY <1>1, <1>13 DEF ForeignCommit
<1> QED BY <1>2, <1>5, <1>6, <1>8, <1>9, <1>10, <1>11, <1>12, <1>13 DEF Next

LEMMA RefsMove ==
    ASSUME IInv, [Next]_vars
    PROVE  RefMoves
<1>a. QueueTypeOK
  BY DEF IInv
<1>1. CASE UNCHANGED target
  BY <1>1 DEF RefMoves
<1>2. ASSUME NEW t \in Target, ForeignCommit(t) PROVE RefMoves
  <2>1. [by |-> Foreign, candidate |-> 0, base |-> Len(target[t])] \in Commits
    BY <1>a DEF QueueTypeOK, Commits
  <2>2. Grows(t, [by |-> Foreign, candidate |-> 0, base |-> Len(target[t])])
    BY <1>a, <1>2, <2>1, AppendGrows DEF QueueTypeOK, ForeignCommit
  <2> QED BY <2>2 DEF RefMoves
<1>3. ASSUME NEW d \in Delegation, CasPublish(d), ~UNCHANGED target PROVE RefMoves
  <2> DEFINE c == [by |-> d, candidate |-> row[d].accepted, base |-> row[d].observed]
  <2>1. /\ mpc[d] = "cas" /\ Tip(d) = row[d].observed /\ UNCHANGED <<row, checked>>
        /\ target' = [target EXCEPT ![targetOf[d]] = Append(@, c)]
    BY <1>3 DEF CasPublish
  <2>2. c \in Commits
    <3>1. row[d] \in Rows
      BY <1>a DEF QueueTypeOK
    <3> QED BY <3>1 DEF Rows, Commits
  <2> HIDE DEF c
  <2>3. targetOf[d] \in Target /\ target \in [Target -> Seq(Commits)]
    BY <1>a, TipInNat DEF QueueTypeOK
  <2>4. Grows(targetOf[d], c)
    BY <2>1, <2>2, <2>3, AppendGrows
  <2>5. CasWrites(d)
    BY <2>1, <2>4 DEF CasWrites, c
  <2> QED BY <2>5 DEF RefMoves
<1>4. ASSUME NEW d \in Delegation,
             \/ ConfirmMerge(d) \/ EnqueueMerge(d) \/ ProcessNext(d) \/ Observe(d) \/ GiveUp(d)
             \/ MergeOk(d) \/ IntegratedEligible(d) \/ Published(d) \/ CasRefused(d)
             \/ ProcessThrows(d) \/ RecoverRow(d) \/ RecoverAmbiguous(d) \/ Worker(d)
      PROVE  UNCHANGED target
  BY <1>4 DEF ConfirmMerge, EnqueueMerge, ProcessNext, Observe, GiveUp, MergeOk,
     IntegratedEligible, Published, CasRefused, ProcessThrows, RecoverRow, RecoverAmbiguous,
     Worker, mergeVars
<1>5. CASE Sweep \/ Crash \/ Restart \/ StartupResume \/ FinishResume \/ FinishMerging \/ UNCHANGED vars
  BY <1>1, <1>5 DEF Sweep, Crash, Restart, StartupResume, FinishResume, FinishMerging, vars, mergeVars
<1> QED BY <1>1, <1>2, <1>3, <1>4, <1>5 DEF Next, ProcessStep

(* Nothing is taken off a ref, and nothing of what was checked is forgotten. *)
Kept(d) ==
    /\ Positions(d) \subseteq Positions(d)'
    /\ \A i \in Positions(d) : target'[targetOf[d]][i] = target[targetOf[d]][i]
    /\ Tip(d) <= Tip(d)'

LEMMA RefsGrow ==
    ASSUME IInv, RefMoves
    PROVE  /\ target' \in [Target -> Seq(Commits)]
           /\ \A d \in Delegation : Kept(d)
<1>1. ASSUME NEW d \in Delegation, NEW t \in Target, NEW c, Grows(t, c) PROVE Kept(d)
  <2>1. /\ targetOf[d] \in Target /\ Tip(d) \in Nat /\ Positions(d) = 1..Tip(d)
    BY TipInNat DEF IInv
  <2>2. CASE targetOf[d] = t
    BY <1>1, <2>1, <2>2 DEF Grows, Kept, Tip, Positions
  <2>3. CASE targetOf[d] # t
    BY <1>1, <2>1, <2>3 DEF Grows, Kept, Tip, Positions
  <2> QED BY <2>2, <2>3
<1>2. ASSUME NEW d \in Delegation, UNCHANGED target PROVE Kept(d)
  <2>1. Tip(d) \in Nat
    BY TipInNat DEF IInv
  <2> QED BY <1>2, <2>1 DEF Kept, Tip, Positions
<1>3. target \in [Target -> Seq(Commits)]
  BY DEF IInv, QueueTypeOK
<1>4. CASE UNCHANGED target
  BY <1>2, <1>3, <1>4
<1>5. ASSUME NEW t \in Target, NEW c, Grows(t, c)
      PROVE  target' \in [Target -> Seq(Commits)] /\ \A d \in Delegation : Kept(d)
  BY <1>1, <1>5 DEF Grows
<1>6. ASSUME NEW d \in Delegation, CasWrites(d)
      PROVE  target' \in [Target -> Seq(Commits)] /\ \A e \in Delegation : Kept(e)
  <2>1. targetOf[d] \in Target
    BY MergeQueueAssumption
  <2> QED BY <1>5, <1>6, <2>1 DEF CasWrites
<1> QED BY <1>4, <1>5, <1>6 DEF RefMoves

LEMMA CheckedGrows ==
    ASSUME IInv, [Next]_vars
    PROVE  /\ checked' \in [Delegation -> SUBSET Nat]
           /\ \A d \in Delegation : checked[d] \subseteq checked'[d]
<1>a. checked \in [Delegation -> SUBSET Nat]
  BY DEF IInv, QueueTypeOK
<1>1. CASE UNCHANGED checked
  BY <1>a, <1>1
<1>2. ASSUME NEW d \in Delegation, IntegratedEligible(d)
      PROVE  /\ checked' \in [Delegation -> SUBSET Nat]
             /\ \A e \in Delegation : checked[e] \subseteq checked'[e]
  <2>1. row[d].integrated \in Nat
    BY DEF IInv, QueueTypeOK, Rows
  <2> QED BY <1>a, <1>2, <2>1 DEF IntegratedEligible
<1>3. ASSUME NEW d \in Delegation,
             \/ ConfirmMerge(d) \/ EnqueueMerge(d) \/ ProcessNext(d) \/ Observe(d) \/ GiveUp(d)
             \/ MergeOk(d) \/ CasPublish(d) \/ Published(d) \/ CasRefused(d)
             \/ ProcessThrows(d) \/ RecoverRow(d) \/ RecoverAmbiguous(d) \/ Worker(d)
      PROVE  UNCHANGED checked
  BY <1>3 DEF ConfirmMerge, EnqueueMerge, ProcessNext, Observe, GiveUp, MergeOk, CasPublish,
     Published, CasRefused, ProcessThrows, RecoverRow, RecoverAmbiguous, Worker, mergeVars
<1>4. CASE \E t \in Target : ForeignCommit(t)
  BY <1>1, <1>4 DEF ForeignCommit
<1>5. CASE Sweep \/ Crash \/ Restart \/ StartupResume \/ FinishResume \/ FinishMerging \/ UNCHANGED vars
  BY <1>1, <1>5 DEF Sweep, Crash, Restart, StartupResume, FinishResume, FinishMerging, vars, mergeVars
<1> QED BY <1>1, <1>2, <1>3, <1>4, <1>5 DEF Next, ProcessStep

-----------------------------------------------------------------------------
(* The refs: every new commit is a foreign one, or that of a delegation      *)
(* which has none there yet.                                                 *)

LEMMA NewCommit ==
    ASSUME IInv, RefMoves, NEW d \in Delegation, NEW i \in Positions(d)', By(d, i)'
    PROVE  \/ i \in Positions(d) /\ By(d, i) /\ target'[targetOf[d]][i] = target[targetOf[d]][i]
           \/ /\ CasWrites(d) /\ i = row[d].integrated /\ i \in checked[d]
              /\ target'[targetOf[d]][i].candidate = row[d].accepted
              /\ \A j \in Positions(d) : ~By(d, j)
<1>a. targetOf[d] \in Target /\ Tip(d) \in Nat /\ Positions(d) = 1..Tip(d)
  BY TipInNat DEF IInv
<1>b. Kept(d)
  BY RefsGrow
<1>1. CASE i \in Positions(d)
  BY <1>b, <1>1 DEF Kept, By
<1>2. CASE i \notin Positions(d)
  <2>1. ASSUME NEW t \in Target, NEW c, Grows(t, c)
        PROVE  targetOf[d] = t /\ i = Tip(d) + 1 /\ target'[t][i] = c
    <3>1. CASE targetOf[d] # t
      BY <1>a, <1>2, <2>1, <3>1 DEF Grows, Positions
    <3>2. CASE targetOf[d] = t
      BY <1>a, <1>2, <2>1, <3>2 DEF Grows, Positions, Tip
    <3> QED BY <3>1, <3>2
  <2>2. ~UNCHANGED target
    BY <1>2 DEF Positions
  <2>3. ASSUME NEW t \in Target,
               Grows(t, [by |-> Foreign, candidate |-> 0, base |-> Len(target[t])])
        PROVE  FALSE
    <3>1. target'[targetOf[d]][i].by = Foreign
      BY <2>1, <2>3
    <3> QED BY <3>1, MergeQueueAssumption DEF By
  <2>4. PICK e \in Delegation : CasWrites(e)
    BY <2>2, <2>3 DEF RefMoves
  <2>5. targetOf[e] \in Target
    BY MergeQueueAssumption
  <2>6. /\ targetOf[d] = targetOf[e] /\ i = Tip(d) + 1
        /\ target'[targetOf[d]][i] =
             [by |-> e, candidate |-> row[e].accepted, base |-> row[e].observed]
    BY <2>1, <2>4, <2>5 DEF CasWrites
  <2>7. e = d
    BY <2>6 DEF By
  <2>8. /\ Tip(d) = row[d].observed /\ row[d].integrated = row[d].observed + 1
        /\ row[d].integrated \in checked[d]
        /\ \A j \in 1..row[d].observed : ~By(d, j)
    BY <2>4, <2>7 DEF CasWrites, IInv, SuspendedInv, Suspended
  <2> QED BY <1>a, <2>4, <2>6, <2>7, <2>8
<1> QED BY <1>1, <1>2

LEMMA LogHolds == IInv /\ [Next]_vars => LogInv' /\ PublishedAtMostOnce'
<1> SUFFICES ASSUME IInv, [Next]_vars PROVE LogInv' /\ PublishedAtMostOnce'
  OBVIOUS
<1>a. RefMoves /\ \A d \in Delegation : RowMoves(d) /\ checked[d] \subseteq checked'[d]
  BY RefsMove, RowsMove, CheckedGrows
<1>1. LogInv'
  <2> SUFFICES ASSUME NEW d \in Delegation, NEW i \in Positions(d)', By(d, i)'
               PROVE  /\ row'[d].state \notin {"none", "queued"}
                      /\ target'[targetOf[d]][i].candidate = row'[d].accepted
                      /\ i \in checked'[d]
    BY DEF LogInv
  <2>1. CASE i \in Positions(d) /\ By(d, i) /\ target'[targetOf[d]][i] = target[targetOf[d]][i]
    <3>1. /\ row[d].state \notin {"none", "queued"}
          /\ target[targetOf[d]][i].candidate = row[d].accepted /\ i \in checked[d]
      BY <2>1 DEF IInv, LogInv
    <3> QED BY <1>a, <2>1, <3>1 DEF RowMoves
  <2>2. CASE /\ CasWrites(d) /\ i \in checked[d]
             /\ target'[targetOf[d]][i].candidate = row[d].accepted
    <3>1. row[d].state = "publishing"
      BY <2>2 DEF CasWrites, IInv, SuspendedInv, Suspended
    <3> QED BY <1>a, <2>2, <3>1 DEF CasWrites
  <2> QED BY <1>a, <2>1, <2>2, NewCommit
<1>2. PublishedAtMostOnce'
  <2> SUFFICES ASSUME NEW d \in Delegation, NEW i \in Positions(d)', NEW j \in Positions(d)',
                      By(d, i)', By(d, j)'
               PROVE  i = j
    BY DEF PublishedAtMostOnce, Positions, By
  <2>1. i \in Positions(d) /\ By(d, i) /\ j \in Positions(d) /\ By(d, j) => i = j
    BY DEF IInv, PublishedAtMostOnce, Positions, By
  <2>2. \/ i \in Positions(d) /\ By(d, i)
        \/ i = row[d].integrated /\ \A k \in Positions(d) : ~By(d, k)
    BY <1>a, NewCommit
  <2>3. \/ j \in Positions(d) /\ By(d, j)
        \/ j = row[d].integrated /\ \A k \in Positions(d) : ~By(d, k)
    BY <1>a, NewCommit
  <2> QED BY <2>1, <2>2, <2>3
<1> QED BY <1>1, <1>2

LEMMA BaseHolds == IInv /\ [Next]_vars => NoLostUpdate'
<1> SUFFICES ASSUME IInv, [Next]_vars, NEW u \in Target, NEW i \in DOMAIN target'[u]
             PROVE  target'[u][i].base = i - 1
  BY DEF NoLostUpdate
<1>1. target[u] \in Seq(Commits)
  BY DEF IInv, QueueTypeOK
<1>2. CASE i \in DOMAIN target[u] /\ target'[u][i] = target[u][i]
  BY <1>2 DEF IInv, NoLostUpdate
<1>3. ASSUME NEW t \in Target, NEW c, Grows(t, c), c.base = Len(target[t])
      PROVE  target'[u][i].base = i - 1
  <2>1. CASE u # t
    BY <1>2, <1>3, <2>1 DEF Grows
  <2>2. CASE u = t
    BY <1>1, <1>2, <1>3, <2>2 DEF Grows
  <2> QED BY <2>1, <2>2
<1>4. CASE UNCHANGED target
  BY <1>2, <1>4
<1>5. CASE \E d \in Delegation : CasWrites(d)
  <2>1. PICK d \in Delegation : CasWrites(d)
    BY <1>5
  <2>2. targetOf[d] \in Target /\ row[d].observed = Len(target[targetOf[d]])
    BY <2>1, MergeQueueAssumption DEF CasWrites, Tip
  <2> QED BY <1>3, <2>1, <2>2 DEF CasWrites
<1>6. CASE \E t \in Target : Grows(t, [by |-> Foreign, candidate |-> 0, base |-> Len(target[t])])
  BY <1>3, <1>6
<1> QED BY <1>4, <1>5, <1>6, RefsMove DEF RefMoves

-----------------------------------------------------------------------------
(* Requests and candidates.                                                  *)

LEMMA RequestsMove ==
    ASSUME IInv, [Next]_vars
    PROVE  /\ request' \in [Delegation -> Requests]
           /\ \A d \in Delegation :
                \/ request'[d] = request[d] \/ request'[d].at # "insert"
                \/ request'[d].accepted = reported[d] /\ dstate[d] = "accepted"
<1>a. request \in [Delegation -> Requests] /\ reported \in [Delegation -> 0..3]
  BY DEF IInv, QueueTypeOK, TableInv, TableTypeOK
<1>b. NoRequest \in Requests /\ NoRequest.at # "insert"
  BY DEF NoRequest, Requests
<1>1. CASE UNCHANGED request
  BY <1>a, <1>1
<1>2. ASSUME NEW d \in Delegation, NEW r \in Requests, request' = [request EXCEPT ![d] = r],
             r.at # "insert" \/ (r.accepted = reported[d] /\ dstate[d] = "accepted")
      PROVE  /\ request' \in [Delegation -> Requests]
             /\ \A e \in Delegation :
                  \/ request'[e] = request[e] \/ request'[e].at # "insert"
                  \/ request'[e].accepted = reported[e] /\ dstate[e] = "accepted"
  BY <1>a, <1>2
<1>3. ASSUME NEW d \in Delegation, ConfirmMerge(d)
      PROVE  \E r \in Requests : /\ request' = [request EXCEPT ![d] = r]
                                 /\ \/ r.at # "insert"
                                    \/ r.accepted = reported[d] /\ dstate[d] = "accepted"
  <2>1. [at |-> "insert", accepted |-> reported[d]] \in Requests
        /\ [at |-> "process", accepted |-> 0] \in Requests
    BY <1>a DEF Requests
  <2> QED BY <1>3, <2>1 DEF ConfirmMerge
<1>4. ASSUME NEW d \in Delegation, EnqueueMerge(d) \/ ProcessNext(d)
      PROVE  \E r \in Requests : request' = [request EXCEPT ![d] = r] /\ r.at # "insert"
  <2>1. [at |-> "process", accepted |-> 0] \in Requests
    BY DEF Requests
  <2> QED BY <1>4, <1>b, <2>1 DEF EnqueueMerge, ProcessNext
<1>5. CASE Crash
  BY <1>b, <1>5 DEF Crash
<1>6. ASSUME NEW d \in Delegation,
             \/ Observe(d) \/ GiveUp(d) \/ MergeOk(d) \/ IntegratedEligible(d) \/ CasPublish(d)
             \/ Published(d) \/ CasRefused(d) \/ ProcessThrows(d) \/ RecoverRow(d)
             \/ RecoverAmbiguous(d) \/ Worker(d)
      PROVE  UNCHANGED request
  BY <1>6 DEF Observe, GiveUp, MergeOk, IntegratedEligible, CasPublish, Published, CasRefused,
     ProcessThrows, RecoverRow, RecoverAmbiguous, Worker, mergeVars
<1>7. CASE \E t \in Target : ForeignCommit(t)
  BY <1>1, <1>7 DEF ForeignCommit
<1>8. CASE Sweep \/ Restart \/ StartupResume \/ FinishResume \/ FinishMerging \/ UNCHANGED vars
  BY <1>1, <1>8 DEF Sweep, Restart, StartupResume, FinishResume, FinishMerging, vars, mergeVars
<1> QED BY <1>1, <1>2, <1>3, <1>4, <1>5, <1>6, <1>7, <1>8 DEF Next, ProcessStep

LEMMA CandidatesHold == IInv /\ [Next]_vars => CandidateInv'
<1> SUFFICES ASSUME IInv, [Next]_vars, NEW d \in Delegation
             PROVE  /\ request'[d].at = "insert" => request'[d].accepted \in verified'[d]
                    /\ row'[d].state # "none" => row'[d].accepted \in verified'[d]
  BY DEF CandidateInv
<1>1. verified[d] \subseteq verified'[d]
  BY StepsOnTable, TableKeeps DEF IInv
<1>2. dstate[d] = "accepted" => reported[d] \in verified[d]
  BY DEF IInv, TableInv
<1>3. /\ request[d].at = "insert" => request[d].accepted \in verified[d]
      /\ row[d].state # "none" => row[d].accepted \in verified[d]
  BY DEF IInv, CandidateInv
<1>4. RowMoves(d)
  BY RowsMove
<1>5. \/ request'[d] = request[d] \/ request'[d].at # "insert"
      \/ request'[d].accepted = reported[d] /\ dstate[d] = "accepted"
  BY RequestsMove
<1>6. request'[d].at = "insert" => request'[d].accepted \in verified'[d]
  BY <1>1, <1>2, <1>3, <1>5
<1>7. row'[d].state # "none" => row'[d].accepted \in verified'[d]
  BY <1>1, <1>3, <1>4 DEF RowMoves
<1> QED BY <1>6, <1>7

-----------------------------------------------------------------------------
(* Rows in their final state.                                                *)

(* Who makes a delegation merged or integrating.                             *)
LEMMA SettledMoves ==
    ASSUME IInv, [Next]_vars, NEW d \in Delegation
    PROVE  /\ dstate'[d] = "merged" => dstate[d] = "merged" \/ row'[d].state = "published"
           /\ dstate'[d] = "integrating" =>
                \/ row[d].state = "queued" /\ row'[d].state # "published"
                \/ /\ dstate[d] = "integrating"
                   /\ row'[d].state = "published" => row[d].state = "published"
<1> DEFINE Goal ==
      /\ dstate'[d] = "merged" => dstate[d] = "merged" \/ row'[d].state = "published"
      /\ dstate'[d] = "integrating" =>
           \/ row[d].state = "queued" /\ row'[d].state # "published"
           \/ /\ dstate[d] = "integrating"
              /\ row'[d].state = "published" => row[d].state = "published"
<1>a. /\ dstate \in [Delegation -> DELEGATION_STATES \cup {"absent"}]
      /\ row \in [Delegation -> Rows]
  BY DEF IInv, TableInv, TableTypeOK, QueueTypeOK
<1>1. CASE dstate' = dstate /\ row' = row
  BY <1>1
<1>2. ASSUME NEW e \in Delegation, Worker(e) PROVE Goal
  <2>1. row' = row
    BY <1>2 DEF Worker, mergeVars
  <2>2. dstate'[d] = dstate[d] \/ dstate'[d] \notin {"merged", "integrating"}
    BY <1>a, <1>2 DEF Worker, WorkerStatement, Create, Cancel, StartAttempt, BlockAtCap,
       BeginVerification, AddReport, Accept, SettleFailure, Transition, Requeue
  <2> QED BY <2>1, <2>2
<1>3. CASE StartupResume
  <2>1. row' = row
    BY <1>3 DEF StartupResume, mergeVars
  <2>2. dstate'[d] = dstate[d] \/ dstate'[d] \notin {"merged", "integrating"}
    BY <1>3 DEF StartupResume, StartBatch
  <2> QED BY <2>1, <2>2
<1>4. ASSUME NEW lost, Reconcile(lost) PROVE Goal
  <2>1. dstate'[d] = dstate[d] \/ dstate'[d] \in {"queued", "blocked"}
    BY <1>4 DEF Reconcile, RequeueLost, Requeue
  <2>2. row'[d] = row[d] \/ row'[d].state = "failed"
    BY <1>4, ReconcileMoves
  <2> QED BY <2>1, <2>2
<1>5. ASSUME NEW claimed \in SUBSET Delegation, Claim(claimed),
             \A e \in claimed : row[e].state = "queued"
      PROVE  Goal
  <2>1. \/ row'[d] = row[d] /\ dstate'[d] = dstate[d]
        \/ row[d].state = "queued" /\ row'[d].state \in {"claimed", "failed"}
    BY <1>5, ClaimMoves
  <2>2. dstate'[d] = dstate[d] \/ dstate'[d] = "integrating"
    BY <1>5 DEF Claim, BeginIntegration
  <2> QED BY <2>1, <2>2
<1>6. ASSUME NEW e \in Delegation, NEW s \in {"published", "failed"}, RowState(e, s),
             FinishIntegration(e, IF s = "published" THEN "merged" ELSE "queued")
      PROVE  Goal
  <2>1. s \in RowStates
    BY DEF RowStates
  <2>2. Sets(e, s, row[e].observed, row[e].integrated)
    BY <1>a, <1>6, <2>1, RowStateSets
  <2>3. dstate' = [dstate EXCEPT ![e] = IF dstate[e] = "integrating"
                                        THEN IF s = "published" THEN "merged" ELSE "queued"
                                        ELSE dstate[e]]
    BY <1>6 DEF FinishIntegration, Transition
  <2>4. CASE d = e
    BY <1>a, <2>2, <2>3, <2>4 DEF Sets
  <2>5. CASE d # e
    BY <1>a, <2>2, <2>3, <2>5 DEF Sets
  <2> QED BY <2>4, <2>5
<1>7. ASSUME NEW e \in Delegation, ProcessStep(e) PROVE Goal
  <2>1. CASE GiveUp(e)
    BY <1>6, <2>1 DEF GiveUp
  <2>2. CASE Published(e)
    BY <1>6, <2>2 DEF Published
  <2>3. CASE Observe(e) \/ MergeOk(e) \/ IntegratedEligible(e) \/ CasPublish(e) \/ CasRefused(e)
             \/ ProcessThrows(e)
    <3>1. dstate' = dstate
      BY <2>3 DEF Observe, MergeOk, IntegratedEligible, CasPublish, CasRefused, ProcessThrows,
         shared, table
    <3>2. row'[d].state = "published" => row[d].state = "published"
      <4>1. ASSUME NEW s \in RowStates, s # "published", RowState(e, s)
            PROVE  row'[d].state = "published" => row[d].state = "published"
        <5>1. Sets(e, s, row[e].observed, row[e].integrated)
          BY <1>a, <4>1, RowStateSets
        <5> QED BY <4>1, <5>1 DEF Sets
      <4>2. CASE IntegratedEligible(e) \/ CasRefused(e)
        BY <4>1, <4>2 DEF IntegratedEligible, CasRefused, RowStates
      <4>3. CASE Observe(e)
        <5>1. Sets(e, row[e].state, Tip(e), row[e].integrated)
          BY <1>a, <4>3, ObserveSets, TipInNat DEF IInv
        <5> QED BY <5>1 DEF Sets
      <4>4. CASE MergeOk(e)
        <5>1. row'[e].state = "integrated" /\ \A f \in Delegation \ {e} : row'[f] = row[f]
          BY <1>a, <4>4, MergeSets DEF Sets
        <5> QED BY <5>1
      <4>5. CASE CasPublish(e) \/ ProcessThrows(e)
        BY <4>5 DEF CasPublish, ProcessThrows
      <4> QED BY <2>3, <4>2, <4>3, <4>4, <4>5
    <3> QED BY <3>1, <3>2
  <2> QED BY <1>7, <2>1, <2>2, <2>3 DEF ProcessStep
<1>8. ASSUME NEW e \in Delegation, RecoverRow(e) PROVE Goal
  <2>1. PICK found \in BOOLEAN : /\ RowState(e, IF found THEN "published" ELSE "failed")
                                /\ FinishIntegration(e, IF found THEN "merged" ELSE "queued")
    BY <1>8 DEF RecoverRow, Landed
  <2>2. CASE found
    BY <1>6, <2>1, <2>2
  <2>3. CASE ~found
    BY <1>6, <2>1, <2>3
  <2> QED BY <2>2, <2>3
<1>9. ASSUME NEW e \in Delegation, EnqueueMerge(e) PROVE Goal
  <2>1. dstate' = dstate
    BY <1>9 DEF EnqueueMerge, shared, table
  <2>2. row'[d] = row[d] \/ row'[d].state = "queued"
    <3>1. RowMoves(d)
      BY <1>9, RowsMove DEF Next
    <3>2. row'[d] = row[d] \/ row[d].state = "none"
      BY <1>a, <1>9 DEF EnqueueMerge
    <3> QED BY <3>1, <3>2 DEF RowMoves
  <2> QED BY <2>1, <2>2
<1>10. ASSUME NEW e \in Delegation, ProcessNext(e) PROVE Goal
  <2>1. Next1(targetOf[e]) \in SUBSET Delegation
        /\ \A f \in Next1(targetOf[e]) : row[f].state = "queued"
    BY NextOneIsQueued
  <2> QED BY <1>5, <1>10, <2>1 DEF ProcessNext
<1>11. CASE FinishResume
  <2>1. UNION {Next1(t) : t \in Target} \in SUBSET Delegation
        /\ \A f \in UNION {Next1(t) : t \in Target} : row[f].state = "queued"
    BY NextOneIsQueued
  <2> QED BY <1>5, <1>11, <2>1 DEF FinishResume
<1>12. CASE Sweep \/ Restart
  BY <1>4, <1>12 DEF Sweep, Restart
<1>13. CASE \/ \E e \in Delegation : ConfirmMerge(e) \/ RecoverAmbiguous(e)
            \/ \E t \in Target : ForeignCommit(t)
            \/ Crash \/ FinishMerging \/ UNCHANGED vars
  BY <1>1, <1>13 DEF ConfirmMerge, RecoverAmbiguous, ForeignCommit, Crash, FinishMerging, vars, shared,
     table, mergeVars
<1> QED BY <1>2, <1>3, <1>7, <1>8, <1>9, <1>10, <1>11, <1>12, <1>13 DEF Next

LEMMA SettledHolds == IInv /\ [Next]_vars => SettledInv'
<1> SUFFICES ASSUME IInv, [Next]_vars, NEW d \in Delegation
             PROVE  /\ row'[d].state = "published" => Landed(d)' /\ dstate'[d] # "integrating"
                    /\ dstate'[d] = "merged" => row'[d].state = "published"
  BY DEF SettledInv, RecordedHasLanded
<1>1. /\ row[d].state = "published" => Landed(d) /\ dstate[d] # "integrating"
      /\ dstate[d] = "merged" => row[d].state = "published"
  BY DEF IInv, SettledInv, RecordedHasLanded
<1>2. RowMoves(d) /\ Kept(d)
  BY RowsMove, RefsMove, RefsGrow
<1>3. row[d].state = "published" => row'[d] = row[d]
  BY <1>2 DEF RowMoves
<1>4. row'[d].state = "published" => Landed(d) /\ row'[d].integrated = row[d].integrated
  BY <1>1, <1>2 DEF RowMoves
<1>5. Landed(d) /\ row'[d].integrated = row[d].integrated => Landed(d)'
  BY <1>2 DEF Landed, Kept, Positions
<1> QED BY <1>1, <1>3, <1>4, <1>5, SettledMoves

-----------------------------------------------------------------------------
(* The suspended processNext.                                                *)

(* What others do leaves it what it relies on; so does the sweep, which may  *)
(* fail its row but not move what the row says of the target.                *)
LEMMA OthersLeave ==
    ASSUME IInv, [Next]_vars, NEW d \in Delegation,
           mpc'[d] = mpc[d], tries'[d] = tries[d],
           row'[d].observed = row[d].observed, row'[d].integrated = row[d].integrated,
           \/ row'[d].state = row[d].state
           \/ row[d].state \in {"claimed", "integrated"} /\ row'[d].state = "failed"
    PROVE  Suspended(d)'
<1>1. Suspended(d) /\ Kept(d) /\ checked[d] \subseteq checked'[d]
  BY RefsMove, RefsGrow, CheckedGrows DEF IInv, SuspendedInv
<1>2. /\ Tip(d) \in Nat /\ Tip(d)' \in Nat /\ Positions(d) = 1..Tip(d)
      /\ row[d].observed \in Nat
  <2>1. target' \in [Target -> Seq(Commits)] /\ targetOf[d] \in Target
    BY RefsMove, RefsGrow, MergeQueueAssumption
  <2>2. Tip(d)' \in Nat
    BY <2>1 DEF Tip
  <2> QED BY <2>2, TipInNat DEF IInv, QueueTypeOK, Rows
<1>3. mpc'[d] \in {"merge", "gates", "cas"} => row'[d].observed <= Tip(d)'
  BY <1>1, <1>2 DEF Suspended, Kept
<1>4. mpc[d] \in {"gates", "cas"} => \A i \in 1..row[d].observed : By(d, i)' = By(d, i)
  <2> SUFFICES ASSUME mpc[d] \in {"gates", "cas"}, NEW i \in 1..row[d].observed
               PROVE  By(d, i)' = By(d, i)
    OBVIOUS
  <2>1. i \in Positions(d)
    BY <1>1, <1>2 DEF Suspended
  <2> QED BY <1>1, <2>1 DEF Kept, By
<1>5. mpc'[d] = "won" => Landed(d)'
  BY <1>1 DEF Suspended, Landed, Kept, Positions
<1> QED BY <1>1, <1>3, <1>4, <1>5 DEF Suspended

LEMMA ProcessKeeps ==
    ASSUME IInv, [Next]_vars, NEW d \in Delegation, ProcessStep(d)
    PROVE  Suspended(d)'
<1>a. /\ row \in [Delegation -> Rows] /\ mpc[d] # "idle" /\ Suspended(d)
      /\ d \in DOMAIN mpc /\ d \in DOMAIN tries /\ d \in DOMAIN checked /\ tries[d] \in Nat
  BY DEF IInv, QueueTypeOK, SuspendedInv, ProcessStep, Observe, GiveUp, MergeOk,
     IntegratedEligible, CasPublish, Published, CasRefused, ProcessThrows
<1>b. /\ Tip(d) \in Nat /\ Positions(d) = 1..Tip(d) /\ targetOf[d] \in Target
      /\ row[d].observed \in Nat
  BY TipInNat DEF IInv, QueueTypeOK, Rows
<1>c. row[d].state \in {"claimed", "integrated", "publishing", "failed"}
  BY <1>a DEF Suspended
<1>1. CASE Observe(d)
  <2>1. Sets(d, row[d].state, Tip(d), row[d].integrated)
    BY <1>a, <1>b, <1>1, ObserveSets
  <2>2. mpc'[d] = "merge" /\ tries'[d] = tries[d] /\ tries[d] <= maxCasRetries
    BY <1>a, <1>1 DEF Observe, Goto
  <2>3. Tip(d)' = Tip(d)
    BY <1>1 DEF Observe, Tip
  <2> QED BY <1>b, <1>c, <2>1, <2>2, <2>3 DEF Sets, Suspended
<1>2. CASE GiveUp(d) \/ Published(d) \/ ProcessThrows(d)
  <2>1. mpc'[d] = "idle"
    BY <1>a, <1>2 DEF GiveUp, Published, ProcessThrows, Return, Goto
  <2> QED BY <2>1 DEF Suspended
<1>3. CASE MergeOk(d)
  <2> DEFINE n == row[d].observed + IF AlreadyUpToDate(d) THEN 0 ELSE 1
  <2>1. Sets(d, "integrated", row[d].observed, n)
    BY <1>a, <1>3, MergeSets
  <2>2. mpc'[d] = "gates" /\ tries'[d] = tries[d] /\ target' = target
    BY <1>a, <1>3 DEF MergeOk, Goto
  <2>3. tries[d] <= maxCasRetries /\ row[d].observed <= Tip(d)
    BY <1>a, <1>3 DEF MergeOk, Suspended
  <2>4. n = row[d].observed
        \/ (n = row[d].observed + 1 /\ \A i \in 1..row[d].observed : ~By(d, i))
    <3>1. CASE AlreadyUpToDate(d)
      BY <1>b, <3>1
    <3>2. CASE ~AlreadyUpToDate(d)
      <4>1. ASSUME NEW i \in 1..row[d].observed, By(d, i) PROVE FALSE
        <5>1. i \in Positions(d)
          BY <1>b, <2>3
        <5>2. target[targetOf[d]][i].candidate = row[d].accepted
          BY <4>1, <5>1 DEF IInv, LogInv
        <5> QED BY <3>2, <4>1, <5>2 DEF AlreadyUpToDate, By
      <4> QED BY <3>2, <4>1
    <3> QED BY <3>1, <3>2
  <2>5. /\ row'[d].observed = row[d].observed /\ row'[d].integrated = n
        /\ row'[d].state = "integrated"
    BY <2>1 DEF Sets
  <2>6. Tip(d)' = Tip(d) /\ \A i \in 1..row[d].observed : By(d, i)' = By(d, i)
    BY <2>2 DEF Tip, By
  <2> HIDE DEF n
  <2> QED BY <2>2, <2>3, <2>4, <2>5, <2>6 DEF Suspended
<1>4. CASE IntegratedEligible(d)
  <2>1. "publishing" \in RowStates /\ RowState(d, "publishing")
    BY <1>4 DEF IntegratedEligible, RowStates
  <2>2. Sets(d, "publishing", row[d].observed, row[d].integrated)
    BY <1>a, <2>1, RowStateSets
  <2>3. mpc'[d] = "cas" /\ tries'[d] = tries[d] /\ target' = target
        /\ row[d].integrated \in checked'[d]
    BY <1>a, <1>4 DEF IntegratedEligible, Goto
  <2>4. /\ tries[d] <= maxCasRetries /\ row[d].observed <= Tip(d)
        /\ row[d].integrated = row[d].observed + 1
        /\ \A i \in 1..row[d].observed : ~By(d, i)
    BY <1>a, <1>4 DEF IntegratedEligible, Suspended
  <2>5. Tip(d)' = Tip(d) /\ \A i \in 1..row[d].observed : By(d, i)' = By(d, i)
    BY <2>3 DEF Tip, By
  <2> QED BY <2>2, <2>3, <2>4, <2>5 DEF Sets, Suspended
<1>5. CASE CasPublish(d)
  <2>1. /\ mpc'[d] \in {"won", "lost"} /\ row' = row /\ tries' = tries
        /\ mpc'[d] = "won" => /\ Tip(d) = row[d].observed
                             /\ target' = [target EXCEPT ![targetOf[d]] = Append(@,
                                  [by |-> d, candidate |-> row[d].accepted, base |-> row[d].observed])]
    BY <1>a, <1>5 DEF CasPublish, Goto
  <2>2. mpc[d] = "cas"
    BY <1>5 DEF CasPublish
  <2>3. mpc'[d] = "won" => Landed(d)'
    <3> SUFFICES ASSUME mpc'[d] = "won" PROVE Landed(d)'
      OBVIOUS
    <3> DEFINE c == [by |-> d, candidate |-> row[d].accepted, base |-> row[d].observed]
    <3>1. c \in Commits /\ c.by = d
      <4>1. row[d] \in Rows
        BY <1>a
      <4> QED BY <4>1 DEF Rows, Commits
    <3>2. target' = [target EXCEPT ![targetOf[d]] = Append(@, c)]
      BY <2>1
    <3> HIDE DEF c
    <3>3. Grows(targetOf[d], c)
      BY <1>b, <3>1, <3>2, AppendGrows DEF IInv, QueueTypeOK
    <3>4. row'[d].integrated = Tip(d) + 1
      BY <1>a, <2>1, <2>2 DEF Suspended
    <3>5. Tip(d) + 1 \in DOMAIN target'[targetOf[d]] /\ target'[targetOf[d]][Tip(d) + 1] = c
      BY <1>b, <3>3 DEF Grows, Tip
    <3> QED BY <3>1, <3>4, <3>5 DEF Landed
  <2> QED BY <1>a, <2>1, <2>2, <2>3 DEF Suspended
<1>6. CASE CasRefused(d)
  <2>1. "claimed" \in RowStates /\ RowState(d, "claimed")
    BY <1>6 DEF CasRefused, RowStates
  <2>2. row'[d].state = "claimed"
    BY <1>a, <2>1, RowStateSets DEF Sets
  <2>3. mpc'[d] = "observe"
    BY <1>a, <1>6 DEF CasRefused, Goto
  <2> QED BY <2>2, <2>3 DEF Suspended
<1> QED BY <1>1, <1>2, <1>3, <1>4, <1>5, <1>6 DEF ProcessStep

(* Who moves the processNext of d.                                           *)
LEMMA OthersAway ==
    ASSUME IInv, NEW d \in Delegation, NEW e \in Delegation \ {d},
           ProcessStep(e) \/ RecoverRow(e) \/ EnqueueMerge(e)
    PROVE  row'[d] = row[d] /\ mpc'[d] = mpc[d] /\ tries'[d] = tries[d]
<1>a. /\ row \in [Delegation -> Rows] /\ DOMAIN mpc = Delegation /\ DOMAIN tries = Delegation
  BY DEF IInv, QueueTypeOK
<1>1. CASE Observe(e) \/ MergeOk(e) \/ IntegratedEligible(e) \/ CasPublish(e) \/ CasRefused(e)
           \/ RecoverRow(e) \/ EnqueueMerge(e)
  BY <1>a, <1>1 DEF Observe, MergeOk, IntegratedEligible, CasPublish, CasRefused, RecoverRow,
     EnqueueMerge, RowState, Goto
<1>2. CASE GiveUp(e) \/ Published(e) \/ ProcessThrows(e)
  BY <1>a, <1>2 DEF GiveUp, Published, ProcessThrows, RowState, Return, Goto
<1> QED BY <1>1, <1>2 DEF ProcessStep

LEMMA SuspendedHolds == IInv /\ [Next]_vars => SuspendedInv'
<1> SUFFICES ASSUME IInv, [Next]_vars, NEW d \in Delegation PROVE Suspended(d)'
  BY DEF SuspendedInv
<1>a. Suspended(d)
  BY DEF IInv, SuspendedInv
<1>1. CASE row'[d] = row[d] /\ mpc'[d] = mpc[d] /\ tries'[d] = tries[d]
  BY <1>1, OthersLeave
<1>2. ASSUME NEW e \in Delegation, ProcessStep(e) PROVE Suspended(d)'
  BY <1>1, <1>2, OthersAway, ProcessKeeps
<1>3. ASSUME NEW e \in Delegation, EnqueueMerge(e) \/ RecoverRow(e) PROVE Suspended(d)'
  <2>1. CASE e # d
    BY <1>1, <1>3, <2>1, OthersAway
  <2>2. CASE EnqueueMerge(d)
    <3>1. mpc' = mpc /\ tries' = tries /\ (row'[d] = row[d] \/ row[d].state = "none")
      BY <2>2 DEF EnqueueMerge, IInv, QueueTypeOK
    <3>2. row[d].state = "none" => mpc[d] = "idle"
      BY <1>a DEF Suspended
    <3> QED BY <1>1, <3>1, <3>2 DEF Suspended
  <2>3. CASE RecoverRow(d)
    <3>1. mpc'[d] = "idle"
      BY <2>3 DEF RecoverRow, IInv, BootInv
    <3> QED BY <3>1 DEF Suspended
  <2> QED BY <1>3, <2>1, <2>2, <2>3
<1>4. ASSUME NEW claimed \in SUBSET Delegation, Claim(claimed),
             \A e \in claimed : row[e].state = "queued"
      PROVE  Suspended(d)'
  <2>1. CASE row[d].state # "queued"
    BY <1>1, <1>4, <2>1, ClaimMoves
  <2>2. CASE row[d].state = "queued"
    <3>1. mpc[d] = "idle"
      BY <1>a, <2>2 DEF Suspended
    <3>2. \/ row'[d] = row[d] /\ mpc'[d] = mpc[d] /\ tries'[d] = tries[d]
          \/ row'[d].state = "claimed" /\ mpc'[d] = "observe"
          \/ mpc'[d] = "idle"
      BY <1>4, <3>1, ClaimMoves
    <3> QED BY <1>1, <3>2 DEF Suspended
  <2> QED BY <2>1, <2>2
<1>5. ASSUME NEW e \in Delegation, ProcessNext(e) PROVE Suspended(d)'
  <2>1. Next1(targetOf[e]) \in SUBSET Delegation
        /\ \A f \in Next1(targetOf[e]) : row[f].state = "queued"
    BY NextOneIsQueued
  <2> QED BY <1>4, <1>5, <2>1 DEF ProcessNext
<1>6. CASE FinishResume
  <2>1. UNION {Next1(t) : t \in Target} \in SUBSET Delegation
        /\ \A f \in UNION {Next1(t) : t \in Target} : row[f].state = "queued"
    BY NextOneIsQueued
  <2> QED BY <1>4, <1>6, <2>1 DEF FinishResume
<1>7. CASE Sweep \/ Restart
  <2>1. PICK lost : Reconcile(lost)
    BY <1>7 DEF Sweep, Restart
  <2>2. mpc' = mpc /\ tries' = tries
    BY <1>7 DEF Sweep, Restart
  <2>3. \/ row'[d] = row[d]
        \/ /\ row[d].state \in {"claimed", "integrated"} /\ row'[d].state = "failed"
           /\ row'[d].observed = row[d].observed /\ row'[d].integrated = row[d].integrated
    BY <2>1, ReconcileMoves
  <2> QED BY <1>1, <2>2, <2>3, OthersLeave
<1>8. CASE Crash
  <2>1. mpc'[d] = "idle"
    BY <1>8 DEF Crash
  <2> QED BY <2>1 DEF Suspended
<1>9. CASE \/ \E e \in Delegation : ConfirmMerge(e) \/ RecoverAmbiguous(e) \/ Worker(e)
           \/ \E t \in Target : ForeignCommit(t)
           \/ StartupResume \/ FinishMerging \/ UNCHANGED vars
  BY <1>1, <1>9 DEF ConfirmMerge, RecoverAmbiguous, Worker, ForeignCommit, StartupResume, FinishMerging,
     vars, mergeVars
<1> QED BY <1>2, <1>3, <1>5, <1>6, <1>7, <1>8, <1>9 DEF Next

-----------------------------------------------------------------------------
(* The boot sequence.                                                        *)

LEMMA BootHolds == IInv /\ [Next]_vars => BootInv'
<1> SUFFICES ASSUME IInv, [Next]_vars PROVE BootInv'
  OBVIOUS
<1>a. BootInv /\ \A d \in Delegation : RowMoves(d)
  BY RowsMove DEF IInv
<1>b. DOMAIN mpc = Delegation /\ DOMAIN request = Delegation
      /\ torecover \subseteq Delegation
  BY DEF IInv, QueueTypeOK
<1>1. ASSUME NEW e \in Delegation, ProcessStep(e) PROVE BootInv'
  <2>1. mpc[e] # "idle" /\ phase' = phase /\ UNCHANGED <<request, torecover>>
    BY <1>1 DEF ProcessStep, Observe, GiveUp, MergeOk, IntegratedEligible, CasPublish, Published,
       CasRefused, ProcessThrows, shared
  <2>2. phase \notin {"down", "recovering", "resuming"} /\ torecover = {}
    BY <1>a, <2>1 DEF BootInv
  <2> QED BY <1>a, <2>1, <2>2 DEF BootInv
<1>2. ASSUME NEW e \in Delegation, ConfirmMerge(e) \/ EnqueueMerge(e) \/ ProcessNext(e)
      PROVE  BootInv'
  <2>1. phase = "up"
    <3>1. CASE ConfirmMerge(e)
      BY <3>1 DEF ConfirmMerge
    <3>2. CASE EnqueueMerge(e) \/ ProcessNext(e)
      <4>1. request[e] # NoRequest
        BY <3>2 DEF EnqueueMerge, ProcessNext, NoRequest
      <4> QED BY <1>a, <4>1 DEF BootInv
    <3> QED BY <1>2, <3>1, <3>2
  <2>2. phase' = phase /\ torecover' = torecover /\ torecover = {}
    BY <1>a, <1>2, <2>1 DEF ConfirmMerge, EnqueueMerge, ProcessNext, shared, BootInv
  <2> QED BY <2>1, <2>2 DEF BootInv
<1>3. ASSUME NEW e \in Delegation, RecoverRow(e) PROVE BootInv'
  <2>1. /\ phase = "recovering" /\ phase' = phase /\ UNCHANGED <<request, mpc>>
        /\ torecover' = torecover \ {e}
    BY <1>3 DEF RecoverRow
  <2>2. ASSUME NEW d \in torecover' PROVE row'[d] = row[d]
    BY <1>3, <1>b, <2>1, OthersAway
  <2> QED BY <1>a, <2>1, <2>2 DEF BootInv
<1>4. ASSUME NEW e \in Delegation, RecoverAmbiguous(e) \/ Worker(e) PROVE BootInv'
  BY <1>a, <1>4 DEF RecoverAmbiguous, Worker, shared, mergeVars, BootInv
<1>5. CASE Sweep
  BY <1>a, <1>5 DEF Sweep, BootInv
<1>6. CASE Crash
  BY <1>6 DEF Crash, BootInv
<1>7. CASE Restart
  <2>1. PICK lost : Reconcile(lost)
    BY <1>7 DEF Restart
  <2>2. \A d \in Delegation : row[d].state = "publishing" => row'[d] = row[d]
    BY <2>1, ReconcileMoves
  <2>3. phase = "down" /\ phase' = "recovering" /\ UNCHANGED <<request, mpc>>
        /\ torecover' = {d \in Delegation : row[d].state = "publishing"}
    BY <1>7 DEF Restart
  <2> QED BY <1>a, <2>2, <2>3 DEF BootInv
<1>8. CASE StartupResume
  BY <1>a, <1>8 DEF StartupResume, mergeVars, BootInv
<1>9. CASE FinishResume
  BY <1>a, <1>9 DEF FinishResume, BootInv
<1>10. CASE FinishMerging
  BY <1>a, <1>10 DEF FinishMerging, mergeVars, BootInv
<1>11. CASE (\E t \in Target : ForeignCommit(t)) \/ UNCHANGED vars
  BY <1>a, <1>11 DEF ForeignCommit, vars, shared, mergeVars, BootInv
<1> QED BY <1>1, <1>2, <1>3, <1>4, <1>5, <1>6, <1>7, <1>8, <1>9, <1>10, <1>11 DEF Next

LEMMA QueueTypesHold == IInv /\ [Next]_vars => QueueTypeOK'
<1> SUFFICES ASSUME IInv, [Next]_vars PROVE QueueTypeOK'
  OBVIOUS
<1>a. /\ row' \in [Delegation -> Rows] /\ target' \in [Target -> Seq(Commits)]
      /\ checked' \in [Delegation -> SUBSET Nat] /\ request' \in [Delegation -> Requests]
  BY RowsMove, RefsMove, RefsGrow, CheckedGrows, RequestsMove
<1> DEFINE Control ==
      /\ phase \in Phases /\ crashes \in 0..MaxCrashes
      /\ mpc \in [Delegation -> {"idle", "observe", "merge", "gates", "cas", "won", "lost"}]
      /\ tries \in [Delegation -> 0..maxCasRetries + 1]
      /\ torecover \in SUBSET Delegation
<1> SUFFICES Control'
  BY <1>a DEF QueueTypeOK
<1>b. Control /\ crashes \in Nat /\ MaxCrashes \in Nat /\ maxCasRetries \in Nat \ {0}
  BY DelegationsAssumption, MergeQueueAssumption DEF IInv, QueueTypeOK
<1>1. ASSUME NEW d \in Delegation, ProcessStep(d) PROVE Control'
  <2>1. CASE CasRefused(d)
    <3>1. tries[d] <= maxCasRetries
      BY <2>1 DEF CasRefused, IInv, SuspendedInv, Suspended
    <3> QED BY <1>b, <2>1, <3>1 DEF CasRefused, Goto, shared
  <2>2. CASE Observe(d) \/ MergeOk(d) \/ IntegratedEligible(d) \/ CasPublish(d)
    BY <1>b, <2>2 DEF Observe, MergeOk, IntegratedEligible, CasPublish, Goto, shared
  <2>3. CASE GiveUp(d) \/ Published(d) \/ ProcessThrows(d)
    BY <1>b, <2>3 DEF GiveUp, Published, ProcessThrows, Return, Goto, shared
  <2> QED BY <1>1, <2>1, <2>2, <2>3 DEF ProcessStep
<1>2. ASSUME NEW claimed \in SUBSET Delegation, Claim(claimed),
             \A d \in claimed : row[d].state = "queued"
      PROVE  /\ mpc' \in [Delegation -> {"idle", "observe", "merge", "gates", "cas", "won", "lost"}]
             /\ tries' \in [Delegation -> 0..maxCasRetries + 1]
  <2>1. 1 \in 0..maxCasRetries + 1
    BY <1>b
  <2> QED BY <1>b, <1>2, <2>1 DEF Claim
<1>3. ASSUME NEW d \in Delegation, ProcessNext(d) PROVE Control'
  <2>1. Next1(targetOf[d]) \in SUBSET Delegation
        /\ \A f \in Next1(targetOf[d]) : row[f].state = "queued"
    BY NextOneIsQueued
  <2> QED BY <1>2, <1>3, <1>b, <2>1 DEF ProcessNext
<1>4. CASE FinishResume
  <2>1. UNION {Next1(t) : t \in Target} \in SUBSET Delegation
        /\ \A f \in UNION {Next1(t) : t \in Target} : row[f].state = "queued"
    BY NextOneIsQueued
  <2> QED BY <1>2, <1>4, <1>b, <2>1 DEF FinishResume, Phases
<1>5. CASE Crash
  BY <1>b, <1>5 DEF Crash, Phases
<1>6. CASE \E d \in Delegation :
             ConfirmMerge(d) \/ EnqueueMerge(d) \/ RecoverRow(d) \/ RecoverAmbiguous(d) \/ Worker(d)
  BY <1>b, <1>6 DEF ConfirmMerge, EnqueueMerge, RecoverRow, RecoverAmbiguous, Worker, shared,
     mergeVars
<1>7. CASE Sweep \/ Restart \/ StartupResume \/ FinishMerging
  BY <1>b, <1>7 DEF Sweep, Restart, StartupResume, FinishMerging, mergeVars, Phases
<1>8. CASE (\E t \in Target : ForeignCommit(t)) \/ UNCHANGED vars
  BY <1>b, <1>8 DEF ForeignCommit, vars, shared, mergeVars
<1> QED BY <1>1, <1>3, <1>4, <1>5, <1>6, <1>7, <1>8 DEF Next

-----------------------------------------------------------------------------
LEMMA NextHolds == IInv /\ [Next]_vars => IInv'
<1> SUFFICES ASSUME IInv, [Next]_vars PROVE IInv'
  OBVIOUS
<1>1. TableInv'
  BY StepsOnTable, TableKeeps DEF IInv
<1> QED BY <1>1, QueueTypesHold, BootHolds, CandidatesHold, SuspendedHolds, LogHolds, BaseHolds,
       SettledHolds DEF IInv

(* The inductive invariant: what rows, refs and suspended calls of           *)
(* processNext know of each other at every await, through crashes, recovery  *)
(* and the sweep.                                                            *)
THEOREM Invariance == Safety => []IInv
BY InitHolds, NextHolds, PTL DEF Safety

(* Every variable of the queue keeps its type; in particular the counter of  *)
(* CAS retries stays within its bound.                                       *)
THEOREM TypeCorrect == Safety => []TypeOK
<1>1. IInv => TypeOK
  BY DEF IInv, TypeOK, DelegationsTypeOK, TableInv, TableTypeOK, QueueTypeOK
<1> QED BY Invariance, <1>1, PTL

(* No commit of another writer is ever overwritten (casPublish).             *)
THEOREM NothingOverwritten == Safety => []NoLostUpdate
<1>1. IInv => NoLostUpdate
  BY DEF IInv
<1> QED BY Invariance, <1>1, PTL

(* A delegation is published at most once, also when git reported a landed   *)
(* update-ref as refused and the candidate is integrated again.              *)
THEOREM PublishedOnce == Safety => []PublishedAtMostOnce
<1>1. IInv => PublishedAtMostOnce
  BY DEF IInv
<1> QED BY Invariance, <1>1, PTL

(* What reaches a ref was verified as a candidate and again, merged, for the *)
(* very position it landed on (processNext).                                 *)
THEOREM PublishedVerified == Safety => []PublishedWasVerified
<1>1. IInv => PublishedWasVerified
  BY DEF IInv, LogInv, CandidateInv, PublishedWasVerified, Positions, By
<1> QED BY Invariance, <1>1, PTL

(* The row of a delegation names a candidate that a verification of it has   *)
(* accepted, also after the delegation was sent back and ran again (enqueue, *)
(* which reads the newest report, and the row it finds already there).       *)
THEOREM RowsNameVerified == Safety => []RowNamesVerified
<1>1. IInv => RowNamesVerified
  BY DEF IInv, CandidateInv, RowNamesVerified
<1> QED BY Invariance, <1>1, PTL

(* "published" and "merged" are claimed of commits only that are on the ref. *)
THEOREM RecordsAreTrue == Safety => []RecordedHasLanded
<1>1. IInv => RecordedHasLanded
  BY DEF IInv, SettledInv
<1> QED BY Invariance, <1>1, PTL

(* A published row is never written again, nor its delegation integrated     *)
(* again, by any retry, recovery or sweep.                                   *)
THEOREM PublishedStays == Safety => PublishedIsFinal
<1>1. IInv /\ [Next]_vars =>
        [\A d \in Delegation : row[d].state = "published" =>
            row'[d] = row[d] /\ dstate'[d] # "integrating"]_vars
  <2> SUFFICES ASSUME IInv, [Next]_vars, NEW d \in Delegation, row[d].state = "published"
               PROVE  row'[d] = row[d] /\ dstate'[d] # "integrating"
    OBVIOUS
  <2>1. row'[d] = row[d]
    BY RowsMove DEF RowMoves
  <2>2. dstate'[d] # "integrating"
    BY SettledMoves DEF IInv, SettledInv
  <2> QED BY <2>1, <2>2
<1> QED BY Invariance, <1>1, PTL DEF Safety, PublishedIsFinal

-----------------------------------------------------------------------------
(* The order of the queue. A row is inserted once, by the request of its own *)
(* delegation, and keeps the number it got then.                             *)

Entered == {d \in Delegation : row[d] # NoRow}

Numbered ==
    /\ \A d \in Delegation : row[d].state = "none" => row[d] = NoRow
    /\ \A d \in Entered : row[d].created \in 1..Cardinality(Entered)
    /\ \A d, e \in Entered : row[d].created = row[e].created => d = e

LEMMA InitNumbers == Init => Numbered
BY DEF Init, Numbered, Entered

LEMMA NumbersHold == IInv /\ Numbered /\ [Next]_vars => Numbered'
<1> SUFFICES ASSUME IInv, Numbered, [Next]_vars PROVE Numbered'
  OBVIOUS
<1>a. row \in [Delegation -> Rows] /\ row' \in [Delegation -> Rows]
      /\ \A d \in Delegation : RowMoves(d)
  BY RowsMove DEF IInv, QueueTypeOK
<1>b. NoRow.state = "none" /\ \A d \in Delegation : row[d].state = "none" <=> d \notin Entered
  BY DEF NoRow, Numbered, Entered
<1>c. Cardinality(Entered) \in Nat /\ IsFiniteSet(Entered)
  BY DelegationsAssumption, FS_Subset, FS_CardinalityType DEF DelegationsAssumption, Entered
<1>1. ASSUME NEW d \in Delegation, EnqueueMerge(d), row[d].state = "none" PROVE Numbered'
  <2>1. \A e \in Delegation \ {d} : row'[e] = row[e]
    BY <1>a, <1>1 DEF EnqueueMerge
  <2>2. row'[d].state = "queued" /\ row'[d].created = 1 + Cardinality(Entered)
    <3>1. row'[d] = [NoRow EXCEPT !.state = "queued", !.accepted = request[d].accepted,
                       !.created = 1 + Cardinality(Entered)]
      BY <1>a, <1>1 DEF EnqueueMerge, Entered
    <3> QED BY <3>1 DEF NoRow
  <2>3. Entered' = Entered \cup {d} /\ d \notin Entered
    BY <1>b, <1>1, <2>1, <2>2 DEF Entered, NoRow
  <2>4. Cardinality(Entered') = Cardinality(Entered) + 1
    BY <1>c, <2>3, FS_AddElement
  <2>5. \A e \in Delegation : row'[e].state = "none" => row'[e] = NoRow
    BY <2>1, <2>2 DEF Numbered
  <2>6. \A e \in Entered : row'[e].created = row[e].created /\ row[e].created \in 1..Cardinality(Entered)
    BY <2>1, <2>3 DEF Numbered, Entered
  <2>7. \A e \in Entered' : row'[e].created \in 1..Cardinality(Entered')
    BY <1>c, <2>2, <2>3, <2>4, <2>6
  <2>8. ASSUME NEW e \in Entered', NEW f \in Entered', row'[e].created = row'[f].created
        PROVE  e = f
    BY <1>c, <2>2, <2>3, <2>6, <2>8 DEF Numbered
  <2> QED BY <2>5, <2>7, <2>8 DEF Numbered
<1>2. ASSUME \A d \in Delegation : ~(EnqueueMerge(d) /\ row[d].state = "none") PROVE Numbered'
  <2>1. \A d \in Delegation :
          \/ row'[d] = row[d]
          \/ /\ row[d].state # "none" /\ row'[d].state # "none"
             /\ row'[d].created = row[d].created
    BY <1>a, <1>2 DEF RowMoves
  <2>2. Entered' = Entered /\ \A d \in Delegation : row'[d].created = row[d].created
    BY <1>b, <2>1 DEF Entered
  <2>3. \A d \in Delegation : row'[d].state = "none" => row'[d] = NoRow
    BY <2>1 DEF Numbered
  <2> QED BY <2>2, <2>3 DEF Numbered, Entered
<1> QED BY <1>1, <1>2

(* So there is one oldest entry: claimNextMerge claims at most one row.      *)
LEMMA NextOneIsOne ==
    ASSUME Numbered, QueueTypeOK, NEW t, NEW d \in Next1(t), NEW e \in Next1(t)
    PROVE  d = e
<1>1. d \in Entered /\ e \in Entered /\ row[d].created = row[e].created
  <2>1. /\ d \in Delegation /\ e \in Delegation
        /\ row[d].state = "queued" /\ row[e].state = "queued"
        /\ row[d].created <= row[e].created /\ row[e].created <= row[d].created
    BY DEF Next1, InState
  <2>2. row[d].created \in Nat /\ row[e].created \in Nat
    BY <2>1 DEF QueueTypeOK, Rows
  <2>3. NoRow.state # "queued"
    BY DEF NoRow
  <2> QED BY <2>1, <2>2, <2>3 DEF Entered
<1> QED BY <1>1 DEF Numbered

-----------------------------------------------------------------------------
(* What moves an accepted delegation: the claim of its row, nothing else. An *)
(* attempt starts from the queue of delegations.                             *)
AcceptedMoves(d) ==
    /\ attempts'[d] = attempts[d] \/ (dstate[d] = "queued" /\ dstate'[d] = "running")
    /\ dstate[d] = "accepted" /\ dstate'[d] # "accepted" =>
         /\ dstate'[d] = "integrating"
         /\ row[d].state = "queued" /\ row'[d].state = "claimed"
    /\ dstate'[d] \in {"integrating", "merged"} =>
         dstate[d] \in {"accepted", "integrating", "merged"}

LEMMA AcceptedMove ==
    ASSUME IInv, [Next]_vars, NEW d \in Delegation
    PROVE  AcceptedMoves(d)
<1>a. /\ dstate \in [Delegation -> DELEGATION_STATES \cup {"absent"}]
      /\ attempts \in [Delegation -> 0..3] /\ row \in [Delegation -> Rows]
  BY DEF IInv, TableInv, TableTypeOK, QueueTypeOK
<1>1. CASE UNCHANGED <<dstate, attempts>>
  BY <1>1 DEF AcceptedMoves
<1>2. ASSUME NEW e \in Delegation, Worker(e) PROVE AcceptedMoves(d)
  BY <1>a, <1>2 DEF AcceptedMoves, Worker, WorkerStatement, Create, Cancel, StartAttempt,
     BlockAtCap, BeginVerification, AddReport, Accept, SettleFailure, Transition, Requeue
<1>3. CASE StartupResume
  BY <1>a, <1>3 DEF AcceptedMoves, StartupResume, StartBatch
<1>4. CASE Sweep \/ Restart
  BY <1>a, <1>4 DEF AcceptedMoves, Sweep, Restart, Reconcile, RequeueLost, Requeue
<1>5. ASSUME NEW e \in Delegation, NEW to \in {"merged", "queued"}, FinishIntegration(e, to)
      PROVE  AcceptedMoves(d)
  BY <1>a, <1>5 DEF AcceptedMoves, FinishIntegration, Transition
<1>6. ASSUME NEW claimed \in SUBSET Delegation, Claim(claimed),
             \A e \in claimed : row[e].state = "queued"
      PROVE  AcceptedMoves(d)
  <2>1. attempts'[d] = attempts[d]
        /\ dstate'[d] = IF d \in claimed /\ dstate[d] = "accepted" THEN "integrating" ELSE dstate[d]
    BY <1>6 DEF Claim, BeginIntegration
  <2>2. CASE d \in claimed /\ dstate[d] = "accepted"
    <3>1. row'[d].state = "claimed"
      BY <1>a, <1>6, <2>1, <2>2, ClaimMoves
    <3> QED BY <1>6, <2>1, <2>2, <3>1 DEF AcceptedMoves
  <2>3. CASE ~(d \in claimed /\ dstate[d] = "accepted")
    BY <2>1, <2>3 DEF AcceptedMoves
  <2> QED BY <2>2, <2>3
<1>7. ASSUME NEW e \in Delegation, ProcessNext(e) PROVE AcceptedMoves(d)
  <2>1. Next1(targetOf[e]) \in SUBSET Delegation
        /\ \A f \in Next1(targetOf[e]) : row[f].state = "queued"
    BY NextOneIsQueued
  <2> QED BY <1>6, <1>7, <2>1 DEF ProcessNext
<1>8. CASE FinishResume
  <2>1. UNION {Next1(t) : t \in Target} \in SUBSET Delegation
        /\ \A f \in UNION {Next1(t) : t \in Target} : row[f].state = "queued"
    BY NextOneIsQueued
  <2> QED BY <1>6, <1>8, <2>1 DEF FinishResume
<1>9. ASSUME NEW e \in Delegation, GiveUp(e) \/ Published(e) \/ RecoverRow(e)
      PROVE  AcceptedMoves(d)
  BY <1>5, <1>9 DEF GiveUp, Published, RecoverRow
<1>10. ASSUME NEW e \in Delegation,
              \/ ConfirmMerge(e) \/ EnqueueMerge(e) \/ RecoverAmbiguous(e) \/ Observe(e)
              \/ MergeOk(e) \/ IntegratedEligible(e) \/ CasPublish(e) \/ CasRefused(e)
              \/ ProcessThrows(e)
       PROVE  UNCHANGED <<dstate, attempts>>
  BY <1>10 DEF ConfirmMerge, EnqueueMerge, RecoverAmbiguous, Observe, MergeOk,
     IntegratedEligible, CasPublish, CasRefused, ProcessThrows, shared, table
<1>11. CASE Crash \/ FinishMerging \/ UNCHANGED vars \/ \E t \in Target : ForeignCommit(t)
  BY <1>1, <1>11 DEF Crash, FinishMerging, vars, ForeignCommit, shared, table
<1> QED BY <1>1, <1>2, <1>3, <1>4, <1>7, <1>8, <1>9, <1>10, <1>11 DEF Next, ProcessStep

-----------------------------------------------------------------------------
(* Intent before effect. If no git command loses its answer, a processNext   *)
(* that is not past a successful update-ref has published nothing, and a     *)
(* commit of ours has a row that says where it is.                           *)

BeforeCas == {"observe", "merge", "gates", "cas", "lost"}

Unpublished(d) == \A i \in Positions(d) : ~By(d, i)

RecordInv ==
    \A d \in Delegation :
        /\ \A i \in Positions(d) : By(d, i) =>
             row[d].state \in {"publishing", "published"} /\ row[d].integrated = i
        /\ mpc[d] \in BeforeCas => Unpublished(d)

LEMMA CasIsOurs ==
    ASSUME IInv, [Next]_vars, NEW d \in Delegation, CasWrites(d)
    PROVE  CasPublish(d)
<1>a. /\ targetOf[d] \in Target /\ Tip(d) \in Nat /\ target[targetOf[d]] \in Seq(Commits)
  BY TipInNat DEF IInv
<1>b. /\ DOMAIN target'[targetOf[d]] # DOMAIN target[targetOf[d]]
      /\ target'[targetOf[d]][Tip(d) + 1].by = d
  BY <1>a DEF CasWrites, Grows, Tip
<1>1. ASSUME NEW t \in Target, NEW c, c.by # d, Grows(t, c) PROVE FALSE
  <2>1. targetOf[d] = t
    BY <1>a, <1>b, <1>1 DEF Grows
  <2> QED BY <1>a, <1>b, <1>1, <2>1 DEF Grows, Tip
<1>2. ASSUME NEW e \in Delegation, CasPublish(e) PROVE e = d
  <2> SUFFICES ASSUME e # d PROVE FALSE
    OBVIOUS
  <2> DEFINE c == [by |-> e, candidate |-> row[e].accepted, base |-> row[e].observed]
  <2>1. target' = [target EXCEPT ![targetOf[e]] = Append(@, c)]
    BY <1>2, <1>b DEF CasPublish
  <2>2. c \in Commits /\ c.by = e
    <3>1. row[e] \in Rows
      BY DEF IInv, QueueTypeOK
    <3> QED BY <3>1 DEF Rows, Commits
  <2> HIDE DEF c
  <2>3. targetOf[e] \in Target /\ target \in [Target -> Seq(Commits)]
    BY MergeQueueAssumption DEF IInv, QueueTypeOK
  <2> QED BY <1>1, <2>1, <2>2, <2>3, AppendGrows
<1>3. ASSUME NEW t \in Target, ForeignCommit(t) PROVE FALSE
  <2> DEFINE c == [by |-> Foreign, candidate |-> 0, base |-> Len(target[t])]
  <2>1. target' = [target EXCEPT ![t] = Append(@, c)] /\ target \in [Target -> Seq(Commits)]
    BY <1>3 DEF ForeignCommit, IInv, QueueTypeOK
  <2>2. c \in Commits /\ c.by # d
    BY <2>1, MergeQueueAssumption DEF Commits
  <2> HIDE DEF c
  <2> QED BY <1>1, <2>1, <2>2, AppendGrows
<1>4. CASE UNCHANGED target
  BY <1>b, <1>4
<1>5. ASSUME NEW e \in Delegation,
             \/ ConfirmMerge(e) \/ EnqueueMerge(e) \/ ProcessNext(e) \/ Observe(e) \/ GiveUp(e)
             \/ MergeOk(e) \/ IntegratedEligible(e) \/ Published(e) \/ CasRefused(e)
             \/ ProcessThrows(e) \/ RecoverRow(e) \/ RecoverAmbiguous(e) \/ Worker(e)
      PROVE  UNCHANGED target
  BY <1>5 DEF ConfirmMerge, EnqueueMerge, ProcessNext, Observe, GiveUp, MergeOk,
     IntegratedEligible, Published, CasRefused, ProcessThrows, RecoverRow, RecoverAmbiguous,
     Worker, mergeVars
<1>6. CASE Sweep \/ Crash \/ Restart \/ StartupResume \/ FinishResume \/ FinishMerging \/ UNCHANGED vars
  BY <1>4, <1>6 DEF Sweep, Crash, Restart, StartupResume, FinishResume, FinishMerging, vars, mergeVars
<1> QED BY <1>2, <1>3, <1>4, <1>5, <1>6 DEF Next, ProcessStep

(* A processNext starts from a queued row, and only an update-ref that is    *)
(* known to have landed ends its trying.                                     *)
LEMMA PcMoves ==
    ASSUME IInv, [Next]_vars, NEW d \in Delegation, mpc'[d] \in BeforeCas
    PROVE  mpc[d] \in BeforeCas \/ row[d].state = "queued"
<1>a. DOMAIN mpc = Delegation
  BY DEF IInv, QueueTypeOK
<1>1. CASE mpc'[d] = mpc[d]
  BY <1>1
<1>2. ASSUME NEW e \in Delegation, ProcessStep(e)
      PROVE  mpc[d] \in BeforeCas \/ row[d].state = "queued"
  <2>1. CASE e # d
    BY <1>1, <1>2, <2>1, OthersAway
  <2>2. CASE e = d
    BY <1>2, <1>a, <2>2 DEF ProcessStep, Observe, GiveUp, MergeOk, IntegratedEligible, CasPublish,
       Published, CasRefused, ProcessThrows, Return, Goto, BeforeCas
  <2> QED BY <2>1, <2>2
<1>3. ASSUME NEW claimed \in SUBSET Delegation, Claim(claimed),
             \A e \in claimed : row[e].state = "queued"
      PROVE  mpc[d] \in BeforeCas \/ row[d].state = "queued"
  BY <1>1, <1>3, ClaimMoves
<1>4. ASSUME NEW e \in Delegation, ProcessNext(e)
      PROVE  mpc[d] \in BeforeCas \/ row[d].state = "queued"
  <2>1. Next1(targetOf[e]) \in SUBSET Delegation
        /\ \A f \in Next1(targetOf[e]) : row[f].state = "queued"
    BY NextOneIsQueued
  <2> QED BY <1>3, <1>4, <2>1 DEF ProcessNext
<1>5. CASE FinishResume
  <2>1. UNION {Next1(t) : t \in Target} \in SUBSET Delegation
        /\ \A f \in UNION {Next1(t) : t \in Target} : row[f].state = "queued"
    BY NextOneIsQueued
  <2> QED BY <1>3, <1>5, <2>1 DEF FinishResume
<1>6. CASE Crash
  BY <1>6 DEF Crash, BeforeCas
<1>7. ASSUME NEW e \in Delegation,
             ConfirmMerge(e) \/ EnqueueMerge(e) \/ RecoverRow(e) \/ RecoverAmbiguous(e) \/ Worker(e)
      PROVE  mpc[d] \in BeforeCas \/ row[d].state = "queued"
  BY <1>1, <1>7 DEF ConfirmMerge, EnqueueMerge, RecoverRow, RecoverAmbiguous, Worker, mergeVars
<1>8. CASE \/ \E t \in Target : ForeignCommit(t)
           \/ Sweep \/ Restart \/ StartupResume \/ FinishMerging \/ UNCHANGED vars
  BY <1>1, <1>8 DEF ForeignCommit, Sweep, Restart, StartupResume, FinishMerging, vars, mergeVars
<1>9. ASSUME NEW e \in Delegation,
             \/ ConfirmMerge(e) \/ EnqueueMerge(e) \/ ProcessNext(e) \/ ProcessStep(e)
             \/ RecoverRow(e) \/ RecoverAmbiguous(e) \/ Worker(e)
      PROVE  mpc[d] \in BeforeCas \/ row[d].state = "queued"
  BY <1>2, <1>4, <1>7, <1>9
<1> QED BY <1>5, <1>6, <1>8, <1>9 DEF Next

(* The row of a commit on the ref keeps saying where it is.                  *)
LEMMA RecordKept ==
    ASSUME GitMayFail = FALSE, IInv, RecordInv, [Next]_vars, NEW d \in Delegation,
           NEW i \in Positions(d), By(d, i)
    PROVE  row'[d].state \in {"publishing", "published"} /\ row'[d].integrated = i
<1>a. /\ row[d].state \in {"publishing", "published"} /\ row[d].integrated = i
      /\ mpc[d] \notin BeforeCas /\ row \in [Delegation -> Rows]
  BY DEF RecordInv, Unpublished, IInv, QueueTypeOK
<1>1. CASE row'[d] = row[d]
  BY <1>a, <1>1
<1>2. ASSUME NEW e \in Delegation, ProcessStep(e) \/ RecoverRow(e) \/ EnqueueMerge(e)
      PROVE  row'[d].state \in {"publishing", "published"} /\ row'[d].integrated = i
  <2>1. CASE e # d
    BY <1>1, <1>2, <2>1, OthersAway
  <2>2. CASE e = d /\ ProcessStep(e)
    <3>1. Published(d) \/ row' = row
      BY <1>a, <2>2 DEF ProcessStep, Observe, GiveUp, MergeOk, IntegratedEligible, CasPublish,
         CasRefused, ProcessThrows, BeforeCas
    <3>2. CASE Published(d)
      <4>1. Sets(d, "published", row[d].observed, row[d].integrated)
        BY <1>a, <3>2, RowStateSets DEF Published, RowStates
      <4> QED BY <1>a, <4>1 DEF Sets
    <3> QED BY <1>1, <3>1, <3>2
  <2>3. CASE e = d /\ RecoverRow(e)
    <3>1. Landed(d)
      BY <1>a DEF Landed, Positions, By
    <3>2. RowState(d, "published")
      BY <2>3, <3>1 DEF RecoverRow
    <3>3. Sets(d, "published", row[d].observed, row[d].integrated)
      BY <1>a, <3>2, RowStateSets DEF RowStates
    <3> QED BY <1>a, <3>3 DEF Sets
  <2>4. CASE e = d /\ EnqueueMerge(e)
    BY <1>a, <1>1, <2>4 DEF EnqueueMerge
  <2> QED BY <1>2, <2>1, <2>2, <2>3, <2>4
<1>3. ASSUME NEW claimed \in SUBSET Delegation, Claim(claimed),
             \A e \in claimed : row[e].state = "queued"
      PROVE  row'[d] = row[d]
  BY <1>a, <1>3, ClaimMoves
<1>4. ASSUME NEW e \in Delegation, ProcessNext(e) PROVE row'[d] = row[d]
  <2>1. Next1(targetOf[e]) \in SUBSET Delegation
        /\ \A f \in Next1(targetOf[e]) : row[f].state = "queued"
    BY NextOneIsQueued
  <2> QED BY <1>3, <1>4, <2>1 DEF ProcessNext
<1>5. CASE FinishResume
  <2>1. UNION {Next1(t) : t \in Target} \in SUBSET Delegation
        /\ \A f \in UNION {Next1(t) : t \in Target} : row[f].state = "queued"
    BY NextOneIsQueued
  <2> QED BY <1>1, <1>3, <1>5, <2>1 DEF FinishResume
<1>6. CASE Sweep \/ Restart
  <2>1. PICK lost : Reconcile(lost)
    BY <1>6 DEF Sweep, Restart
  <2> QED BY <1>1, <1>a, <2>1, ReconcileMoves
<1>7. ASSUME NEW e \in Delegation, ConfirmMerge(e) \/ RecoverAmbiguous(e) \/ Worker(e)
      PROVE  row'[d] = row[d]
  BY <1>7 DEF ConfirmMerge, RecoverAmbiguous, Worker, mergeVars
<1>8. CASE \/ \E t \in Target : ForeignCommit(t)
           \/ Crash \/ StartupResume \/ FinishMerging \/ UNCHANGED vars
  BY <1>1, <1>8 DEF ForeignCommit, Crash, StartupResume, FinishMerging, vars, mergeVars
<1>9. ASSUME NEW e \in Delegation,
             \/ ConfirmMerge(e) \/ EnqueueMerge(e) \/ ProcessNext(e) \/ ProcessStep(e)
             \/ RecoverRow(e) \/ RecoverAmbiguous(e) \/ Worker(e)
      PROVE  row'[d].state \in {"publishing", "published"} /\ row'[d].integrated = i
  BY <1>1, <1>2, <1>4, <1>7, <1>9
<1> QED BY <1>5, <1>6, <1>8, <1>9 DEF Next

LEMMA RecordHolds ==
    ASSUME GitMayFail = FALSE
    PROVE  IInv /\ RecordInv /\ [Next]_vars => RecordInv'
<1> SUFFICES ASSUME IInv, RecordInv, [Next]_vars, NEW d \in Delegation
             PROVE  /\ \A i \in Positions(d)' : By(d, i)' =>
                         row'[d].state \in {"publishing", "published"} /\ row'[d].integrated = i
                    /\ mpc'[d] \in BeforeCas => Unpublished(d)'
  BY DEF RecordInv
<1>a. RefMoves
  BY RefsMove
<1>1. ASSUME NEW i \in Positions(d)', By(d, i)'
      PROVE  row'[d].state \in {"publishing", "published"} /\ row'[d].integrated = i
  <2>1. CASE i \in Positions(d) /\ By(d, i)
    BY <2>1, RecordKept
  <2>2. CASE CasWrites(d) /\ i = row[d].integrated
    BY <2>2 DEF CasWrites, IInv, SuspendedInv, Suspended
  <2> QED BY <1>1, <1>a, <2>1, <2>2, NewCommit
<1>2. ASSUME mpc'[d] \in BeforeCas, NEW i \in Positions(d)', By(d, i)' PROVE FALSE
  <2>1. CASE i \in Positions(d) /\ By(d, i)
    <3>1. row[d].state \notin {"none", "queued"} /\ mpc[d] \notin BeforeCas
      BY <2>1 DEF IInv, LogInv, RecordInv, Unpublished
    <3> QED BY <1>2, <3>1, PcMoves
  <2>2. CASE CasWrites(d)
    <3>1. CasPublish(d) /\ Tip(d) = row[d].observed
      BY <2>2, CasIsOurs DEF CasWrites
    <3>2. mpc'[d] = "won"
      BY <3>1 DEF CasPublish, Goto, IInv, QueueTypeOK
    <3> QED BY <1>2, <3>2 DEF BeforeCas
  <2> QED BY <1>2, <1>a, <2>1, <2>2, NewCommit
<1> QED BY <1>1, <1>2 DEF Unpublished

(* No crash, retry, recovery or sweep takes away the record of a commit that *)
(* is on the ref, if git's answers can be relied on (processNext's intent,   *)
(* recoverPublishing).                                                       *)
THEOREM LandedRecorded ==
    ASSUME GitMayFail = FALSE
    PROVE  Safety => []LandedIsRecorded
<1>1. Init => RecordInv
  <2> SUFFICES ASSUME Init, NEW d \in Delegation
               PROVE  Positions(d) = {} /\ mpc[d] \notin BeforeCas
    BY DEF RecordInv
  <2> QED BY MergeQueueAssumption DEF Init, Positions, BeforeCas
<1>2. IInv /\ RecordInv /\ [Next]_vars => RecordInv'
  BY RecordHolds
<1>3. RecordInv => LandedIsRecorded
  BY DEF RecordInv, LandedIsRecorded, Positions, By
<1> QED BY Invariance, <1>1, <1>2, <1>3, PTL DEF Safety

-----------------------------------------------------------------------------
(* The promise of module Publication, proved step by step from the inductive *)
(* invariant, whatever crashes, retries, sweeps and failing git commands do. *)

(* What the owner of the repository sees of the queue.                       *)
Names(commits) == [i \in DOMAIN commits |-> commits[i].by]
Log == [t \in Target |-> Names(target[t])]
Approved == {d \in Delegation : verified[d] # {}}
Merged == {d \in Delegation : dstate[d] = "merged"}

Writers == Delegation \cup {Foreign}

-----------------------------------------------------------------------------
LEMMA NamesOfCommits ==
    ASSUME NEW s \in Seq(Commits)
    PROVE  /\ Names(s) \in Seq(Writers) /\ Len(Names(s)) = Len(s)
           /\ \A i \in 1..Len(s) : Names(s)[i] = s[i].by
<1>1. DOMAIN s = 1..Len(s) /\ Len(s) \in Nat /\ \A i \in 1..Len(s) : s[i] \in Commits
  OBVIOUS
<1>2. \A i \in 1..Len(s) : s[i].by \in Writers
  BY <1>1 DEF Commits, Writers
<1> DEFINE n == Len(s)
<1>3. /\ n \in Nat /\ DOMAIN Names(s) = 1..n /\ Names(s) = [i \in 1..n |-> Names(s)[i]]
      /\ \A i \in 1..n : Names(s)[i] \in Writers /\ Names(s)[i] = s[i].by
  BY <1>1, <1>2 DEF Names
<1> HIDE DEF n
<1>4. Names(s) \in Seq(Writers)
  BY <1>3
<1>5. Len(Names(s)) = n
  BY <1>3, <1>4, LenProperties
<1> QED BY <1>3, <1>4, <1>5 DEF n

LEMMA NamesOfAppended ==
    ASSUME NEW s \in Seq(Commits), NEW c \in Commits
    PROVE  Names(Append(s, c)) = Append(Names(s), c.by)
<1> DEFINE a == Append(s, c)
           b == Append(Names(s), c.by)
<1>1. c.by \in Writers
  BY DEF Commits, Writers
<1>2. /\ a \in Seq(Commits) /\ Len(a) = Len(s) + 1 /\ Len(s) \in Nat
      /\ \A i \in 1..Len(s) : a[i] = s[i]
      /\ a[Len(s) + 1] = c
  BY AppendProperties
<1>3. /\ Names(s) \in Seq(Writers) /\ Len(Names(s)) = Len(s)
      /\ \A i \in 1..Len(s) : Names(s)[i] = s[i].by
  BY NamesOfCommits
<1>4. /\ b \in Seq(Writers) /\ Len(b) = Len(s) + 1
      /\ \A i \in 1..Len(s) : b[i] = Names(s)[i]
      /\ b[Len(s) + 1] = c.by
  BY <1>1, <1>3, AppendProperties
<1> HIDE DEF a, b
<1>5. /\ Names(a) \in Seq(Writers) /\ Len(Names(a)) = Len(a)
      /\ \A i \in 1..Len(a) : Names(a)[i] = a[i].by
  BY <1>2, NamesOfCommits
<1>6. ASSUME NEW i \in 1..Len(s) + 1 PROVE Names(a)[i] = b[i]
  <2>1. CASE i = Len(s) + 1
    BY <1>2, <1>4, <1>5, <2>1
  <2>2. CASE i \in 1..Len(s)
    BY <1>2, <1>3, <1>4, <1>5, <2>2
  <2> QED BY <1>2, <2>1, <2>2
<1>7. Names(a) = b
  BY <1>2, <1>4, <1>5, <1>6, SeqEqual
<1> QED BY <1>7 DEF a, b

(* A commit that a ref gains appears in the log under its writer's name.      *)
LEMMA LogGrows ==
    ASSUME target \in [Target -> Seq(Commits)], NEW t \in Target, NEW c \in Commits,
           target' = [target EXCEPT ![t] = Append(@, c)]
    PROVE  Log' = [Log EXCEPT ![t] = Append(@, c.by)]
<1>1. target'[t] = Append(target[t], c) /\ \A u \in Target \ {t} : target'[u] = target[u]
  OBVIOUS
<1>2. Names(target'[t]) = Append(Names(target[t]), c.by)
  BY <1>1, NamesOfAppended
<1> QED BY <1>1, <1>2 DEF Log

-----------------------------------------------------------------------------
(* The owner's view of the step: nothing, or one step of Publication.         *)
Hidden == Log' = Log /\ Approved' = Approved /\ checked' = checked /\ Merged' = Merged

OnLog(d) == \E i \in DOMAIN Log[targetOf[d]] : Log[targetOf[d]][i] = d

LEMMA HiddenStutters ==
    ASSUME Hidden
    PROVE  UNCHANGED Promise!vars
BY DEF Hidden, Promise!vars, Log, Names, Approved, Merged

LEMMA Approving ==
    ASSUME NEW d \in Delegation, Approved' = Approved \cup {d},
           Log' = Log, checked' = checked, Merged' = Merged
    PROVE  Promise!Next
BY DEF Promise!Next, Promise!Approve, Log, Names, Approved, Merged

LEMMA Vetting ==
    ASSUME NEW d \in Delegation, d \in Approved,
           NEW n \in 1..Len(Log[targetOf[d]]) + 1, checked' = [checked EXCEPT ![d] = @ \cup {n}],
           Log' = Log, Approved' = Approved, Merged' = Merged
    PROVE  Promise!Next
BY DEF Promise!Next, Promise!Vet, Log, Names, Approved, Merged

LEMMA Publishing ==
    ASSUME NEW d \in Delegation, ~OnLog(d), Len(Log[targetOf[d]]) + 1 \in checked[d],
           Log' = [Log EXCEPT ![targetOf[d]] = Append(@, d)],
           Approved' = Approved, checked' = checked, Merged' = Merged
    PROVE  Promise!Next
BY DEF Promise!Next, Promise!Publish, Promise!InLog, OnLog, Log, Names, Approved, Merged

LEMMA ForeignPublishing ==
    ASSUME NEW t \in Target, Log' = [Log EXCEPT ![t] = Append(@, Foreign)],
           Approved' = Approved, checked' = checked, Merged' = Merged
    PROVE  Promise!Next
BY DEF Promise!Next, Promise!ForeignCommit, Log, Names, Approved, Merged

LEMMA Reporting ==
    ASSUME NEW d \in Delegation, OnLog(d), Merged' = Merged \cup {d},
           Log' = Log, Approved' = Approved, checked' = checked
    PROVE  Promise!Next
BY DEF Promise!Next, Promise!Report, Promise!InLog, OnLog, Log, Names, Approved, Merged

(* The queue's own test of a landed commit is the owner's.                    *)
LEMMA LandedIsOnLog ==
    ASSUME QueueTypeOK, NEW d \in Delegation
    PROVE  /\ Len(Log[targetOf[d]]) = Tip(d)
           /\ OnLog(d) <=> \E i \in 1..Tip(d) : By(d, i)
           /\ Landed(d) => OnLog(d)
<1>1. targetOf[d] \in Target /\ target[targetOf[d]] \in Seq(Commits)
      /\ Tip(d) \in Nat /\ Positions(d) = 1..Tip(d)
  BY TipInNat
<1>2. Log[targetOf[d]] = Names(target[targetOf[d]])
  BY <1>1 DEF Log
<1>3. /\ Log[targetOf[d]] \in Seq(Writers) /\ Len(Log[targetOf[d]]) = Tip(d)
      /\ \A i \in 1..Tip(d) : Log[targetOf[d]][i] = target[targetOf[d]][i].by
  BY <1>1, <1>2, NamesOfCommits DEF Tip
<1>4. DOMAIN Log[targetOf[d]] = 1..Tip(d)
  BY <1>3
<1>5. OnLog(d) <=> \E i \in 1..Tip(d) : By(d, i)
  BY <1>3, <1>4 DEF OnLog, By
<1>6. Landed(d) => \E i \in 1..Tip(d) : By(d, i)
  BY <1>1 DEF Landed, By, Positions
<1> QED BY <1>3, <1>5, <1>6

-----------------------------------------------------------------------------
(* The statements on the delegations table: only a verdict approves, and only *)
(* the end of an integration merges.                                          *)
TableHidden == Approved' = Approved /\ Merged' = Merged

LEMMA SameTable == UNCHANGED <<dstate, verified>> => TableHidden
BY DEF TableHidden, Approved, Merged

LEMMA MovedTable ==
    ASSUME verified' = verified,
           \A d \in Delegation : dstate'[d] = "merged" <=> dstate[d] = "merged"
    PROVE  TableHidden
BY DEF TableHidden, Approved, Merged

LEMMA TransitionHides ==
    ASSUME TableInv, NEW d \in Delegation, NEW from, NEW to,
           Transition(d, from, to), "merged" \notin from, to # "merged",
           verified' = verified
    PROVE  TableHidden
<1>1. dstate \in [Delegation -> DELEGATION_STATES \cup {"absent"}]
  BY DEF TableInv, TableTypeOK
<1>2. \A e \in Delegation : dstate'[e] = "merged" <=> dstate[e] = "merged"
  BY <1>1 DEF Transition
<1> QED BY <1>2, MovedTable

LEMMA FinishMerges ==
    ASSUME TableInv, NEW d \in Delegation, FinishIntegration(d, "merged")
    PROVE  /\ Approved' = Approved
           /\ Merged' = Merged \/ Merged' = Merged \cup {d}
<1>1. dstate \in [Delegation -> DELEGATION_STATES \cup {"absent"}]
  BY DEF TableInv, TableTypeOK
<1> QED BY <1>1 DEF FinishIntegration, Transition, Approved, Merged

LEMMA WorkerShows ==
    ASSUME IInv, NEW d \in Delegation, WorkerStatement(d), UNCHANGED <<target, checked>>
    PROVE  [Promise!Next]_(Promise!vars)
<1>a. TableInv /\ Log' = Log /\ checked' = checked
  BY DEF IInv, Log
<1>b. dstate \in [Delegation -> DELEGATION_STATES \cup {"absent"}]
      /\ verified \in [Delegation -> SUBSET (1..3)] /\ attempts \in [Delegation -> 0..3]
  BY <1>a DEF TableInv, TableTypeOK
<1>1. CASE TableHidden
  BY <1>a, <1>1, HiddenStutters DEF TableHidden, Hidden
<1>2. CASE Create(d)
  BY <1>b, <1>1, <1>2, MovedTable DEF Create
<1>3. CASE Cancel(d) \/ StartAttempt(d) \/ BlockAtCap(d) \/ BeginVerification(d) \/ SettleFailure(d)
  BY <1>a, <1>1, <1>3, TransitionHides
  DEF Cancel, StartAttempt, BlockAtCap, BeginVerification, SettleFailure, Requeue
<1>4. CASE AddReport(d)
  BY <1>1, <1>4, SameTable DEF AddReport
<1>5. CASE Accept(d)
  <2>1. Approved' = Approved \cup {d}
    BY <1>b, <1>5 DEF Accept, Approved
  <2>2. Merged' = Merged
    BY <1>b, <1>5 DEF Accept, Transition, Merged
  <2> QED BY <1>a, <2>1, <2>2, Approving
<1> QED BY <1>2, <1>3, <1>4, <1>5 DEF WorkerStatement

LEMMA IntegrationShows ==
    ASSUME IInv, NEW d \in Delegation, Landed(d), FinishIntegration(d, "merged"),
           UNCHANGED <<target, checked>>
    PROVE  [Promise!Next]_(Promise!vars)
<1>1. Log' = Log /\ checked' = checked /\ OnLog(d) /\ TableInv
  BY LandedIsOnLog DEF IInv, Log
<1>2. Approved' = Approved
  BY <1>1, FinishMerges
<1>3. CASE Merged' = Merged
  BY <1>1, <1>2, <1>3, HiddenStutters DEF Hidden
<1>4. CASE Merged' = Merged \cup {d}
  BY <1>1, <1>2, <1>4, Reporting
<1> QED BY <1>1, <1>3, <1>4, FinishMerges

LEMMA QuietShows ==
    ASSUME TableHidden, UNCHANGED <<target, checked>>
    PROVE  [Promise!Next]_(Promise!vars)
<1>1. Hidden
  BY DEF TableHidden, Hidden, Log
<1> QED BY <1>1, HiddenStutters

LEMMA VerdictShows ==
    ASSUME IInv, NEW d \in Delegation, IntegratedEligible(d)
    PROVE  Promise!Next
<1>1. /\ mpc[d] = "gates" /\ row[d].integrated # row[d].observed
      /\ checked' = [checked EXCEPT ![d] = @ \cup {row[d].integrated}]
      /\ UNCHANGED <<dstate, verified, target>>
  BY DEF IntegratedEligible, shared, table
<1>2. /\ Suspended(d) /\ QueueTypeOK /\ row[d] \in Rows
      /\ row[d].state # "none" => row[d].accepted \in verified[d]
  BY DEF IInv, SuspendedInv, CandidateInv, QueueTypeOK
<1>3. d \in Approved
  BY <1>1, <1>2 DEF Suspended, Approved
<1>4. row[d].integrated \in 1..Tip(d) + 1 /\ Tip(d) = Len(Log[targetOf[d]])
  <2>1. Tip(d) \in Nat /\ Tip(d) = Len(Log[targetOf[d]])
    BY <1>2, TipInNat, LandedIsOnLog
  <2>2. row[d].observed \in Nat /\ row[d].observed <= Tip(d)
        /\ row[d].integrated = row[d].observed + 1
    BY <1>1, <1>2 DEF Suspended, Rows
  <2> QED BY <2>1, <2>2
<1>5. Log' = Log /\ TableHidden
  BY <1>1, SameTable DEF Log
<1> QED BY <1>1, <1>3, <1>4, <1>5, Vetting DEF TableHidden

LEMMA CasShows ==
    ASSUME IInv, NEW d \in Delegation, CasPublish(d)
    PROVE  [Promise!Next]_(Promise!vars)
<1>a. /\ mpc[d] = "cas" /\ UNCHANGED <<dstate, verified, row, checked>>
  BY DEF CasPublish, shared, table
<1>b. TableHidden
  BY <1>a, SameTable
<1>1. CASE UNCHANGED target
  BY <1>a, <1>b, <1>1, QuietShows
<1>2. CASE ~UNCHANGED target
  <2> DEFINE c == [by |-> d, candidate |-> row[d].accepted, base |-> row[d].observed]
  <2>1. /\ Tip(d) = row[d].observed
        /\ target' = [target EXCEPT ![targetOf[d]] = Append(@, c)]
    BY <1>2 DEF CasPublish
  <2>2. /\ Suspended(d) /\ QueueTypeOK /\ row[d] \in Rows
        /\ target \in [Target -> Seq(Commits)]
    BY DEF IInv, SuspendedInv, QueueTypeOK
  <2>3. c \in Commits /\ c.by = d /\ targetOf[d] \in Target
    BY <2>2, MergeQueueAssumption DEF Rows, Commits
  <2> HIDE DEF c
  <2>4. Log' = [Log EXCEPT ![targetOf[d]] = Append(@, d)]
    BY <2>1, <2>2, <2>3, LogGrows
  <2>5. ~OnLog(d) /\ Len(Log[targetOf[d]]) + 1 \in checked[d]
    BY <1>a, <2>1, <2>2, LandedIsOnLog DEF Suspended
  <2> QED BY <1>a, <1>b, <2>4, <2>5, Publishing DEF TableHidden
<1> QED BY <1>1, <1>2

LEMMA ForeignShows ==
    ASSUME IInv, NEW t \in Target, ForeignCommit(t)
    PROVE  Promise!Next
<1> DEFINE c == [by |-> Foreign, candidate |-> 0, base |-> Len(target[t])]
<1>1. /\ target \in [Target -> Seq(Commits)] /\ UNCHANGED <<dstate, verified, checked>>
      /\ target' = [target EXCEPT ![t] = Append(@, c)]
  BY DEF ForeignCommit, shared, table, IInv, QueueTypeOK
<1>2. c \in Commits /\ c.by = Foreign
  BY <1>1 DEF Commits
<1> HIDE DEF c
<1>3. Log' = [Log EXCEPT ![t] = Append(@, Foreign)]
  BY <1>1, <1>2, LogGrows
<1> QED BY <1>1, <1>3, SameTable, ForeignPublishing DEF TableHidden

LEMMA StepShows ==
    ASSUME IInv, [Next]_vars
    PROVE  [Promise!Next]_(Promise!vars)
<1>a. TableInv /\ dstate \in [Delegation -> DELEGATION_STATES \cup {"absent"}]
  BY DEF IInv, TableInv, TableTypeOK
<1>1. ASSUME NEW d \in Delegation, Worker(d) PROVE [Promise!Next]_(Promise!vars)
  BY <1>1, WorkerShows DEF Worker, mergeVars
<1>2. ASSUME NEW d \in Delegation,
             \/ ConfirmMerge(d) \/ EnqueueMerge(d) \/ RecoverAmbiguous(d) \/ Observe(d)
             \/ MergeOk(d) \/ CasRefused(d) \/ ProcessThrows(d)
      PROVE  [Promise!Next]_(Promise!vars)
  BY <1>2, QuietShows, SameTable DEF ConfirmMerge, EnqueueMerge, RecoverAmbiguous, Observe,
     MergeOk, CasRefused, ProcessThrows, shared, table
<1>3. ASSUME NEW claimed, Claim(claimed) PROVE TableHidden
  BY <1>a, <1>3, MovedTable DEF Claim, BeginIntegration
<1>4. ASSUME NEW d \in Delegation, ProcessNext(d) PROVE [Promise!Next]_(Promise!vars)
  BY <1>3, <1>4, QuietShows DEF ProcessNext
<1>5. ASSUME NEW d \in Delegation, FinishIntegration(d, "queued") PROVE TableHidden
  BY <1>a, <1>5, TransitionHides DEF FinishIntegration
<1>6. ASSUME NEW d \in Delegation, GiveUp(d) PROVE [Promise!Next]_(Promise!vars)
  BY <1>5, <1>6, QuietShows DEF GiveUp
<1>7. ASSUME NEW d \in Delegation, Published(d) PROVE [Promise!Next]_(Promise!vars)
  <2>1. Landed(d)
    BY <1>7 DEF Published, IInv, SuspendedInv, Suspended
  <2> QED BY <1>7, <2>1, IntegrationShows DEF Published
<1>8. ASSUME NEW d \in Delegation, RecoverRow(d) PROVE [Promise!Next]_(Promise!vars)
  <2>1. UNCHANGED <<target, checked>>
    BY <1>8 DEF RecoverRow
  <2>2. CASE FinishIntegration(d, "queued")
    BY <1>5, <2>1, <2>2, QuietShows
  <2>3. CASE Landed(d) /\ FinishIntegration(d, "merged")
    BY <2>1, <2>3, IntegrationShows
  <2> QED BY <1>8, <2>2, <2>3 DEF RecoverRow, Landed
<1>9. ASSUME NEW lost, Reconcile(lost), lost \subseteq Delegation PROVE TableHidden
  BY <1>a, <1>9, MovedTable DEF Reconcile, RequeueLost, Requeue
<1>10. CASE Sweep \/ Restart
  BY <1>9, <1>10, QuietShows DEF Sweep, Restart
<1>11. CASE StartupResume
  BY <1>a, <1>11, MovedTable, QuietShows DEF StartupResume, StartBatch, mergeVars
<1>12. CASE FinishResume
  BY <1>3, <1>12, QuietShows DEF FinishResume
<1>13. CASE Crash \/ FinishMerging \/ UNCHANGED vars
  BY <1>13, QuietShows, SameTable DEF Crash, FinishMerging, vars, shared, table, mergeVars
<1>14. ASSUME NEW d \in Delegation, ProcessStep(d) PROVE [Promise!Next]_(Promise!vars)
  BY <1>2, <1>6, <1>7, <1>14, VerdictShows, CasShows DEF ProcessStep
<1> QED BY <1>1, <1>2, <1>4, <1>8, <1>10, <1>11, <1>12, <1>13, <1>14, ForeignShows DEF Next

LEMMA InitShows == Init => Promise!Init
<1> SUFFICES ASSUME Init PROVE Promise!Init
  OBVIOUS
<1>1. \A t \in Target : Names(target[t]) = <<>>
  BY DEF Init, Names
<1>2. Log = [t \in Target |-> <<>>]
  BY <1>1 DEF Log
<1>3. Approved = {} /\ Merged = {}
  BY DEF Init, DelegationsInit, Approved, Merged
<1>4. checked = [d \in Delegation |-> {}]
  BY DEF Init
<1> QED BY <1>2, <1>3, <1>4 DEF Promise!Init, Log, Names, Approved, Merged

(* The promise to the owner of a repository: whatever crashes, retries,      *)
(* sweeps, competing writers and failing git commands there are, the refs    *)
(* receive each delegation at most once, made from a verified candidate and  *)
(* verified again on the head it extends; it is reported merged only then.   *)
THEOREM KeepsThePromise == Safety => ImplementsPublication
BY Invariance, InitShows, StepShows, PTL DEF Safety, ImplementsPublication, Promise!Spec

=============================================================================
