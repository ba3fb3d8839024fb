--------------------------- MODULE Progress_proofs ---------------------------
(***************************************************************************)
(* What holds of Progress for any sets and bounds.  ResponseLedger: any    *)
(* number of actions, targets, executors and workers, any durations and    *)
(* any number of crashes.  The ingestion's cycles, by the theorems about   *)
(* AlertIngestion.  The analyst's turns and the pages of their tools, by   *)
(* inductive invariants of their own.                                      *)
(***************************************************************************)
EXTENDS Progress, FiniteSetTheorems, TLAPS

Pc == {"idle", "entering", "incident", "target", "claimed", "authorized", "calling",
       "answered", "ended", "leaving", "resuming", "resumed", "verifying", "reverting",
       "verified", "batch", "undoing", "settling"}

Results == {"none", "accepted", "outcome_unknown", "failed_terminal", "success",
            "retryable", "rejected", "locked_out"}

\* The part of the type invariant about the rows and the processes.
RowsTyped ==
    /\ status \in [Action -> Status]
    /\ execution \in [Action -> Executor \cup {None}]
    /\ calls \in [Action -> 0 .. 2]

ProcsTyped ==
    /\ pc \in [Process -> Pc]
    /\ job \in [Process -> Action \cup {None}]
    /\ \A p \in Process : pc[p] \notin {"idle", "batch"} => job[p] \in Action
    /\ result \in [Process -> Results]
    /\ \A e \in Executor : pc[e] = "answered" => result[e] \in Contained \cup {"failed_terminal"}

\* An executor between its claim and its call holds the row under its execution id,
\* and no call was made before.
Fresh == {"approved", "claimed"}
Claimed(e) == pc[e] \in {"claimed", "authorized", "calling"}
ClaimsHeld ==
    /\ \A a \in Action : calls[a] <= 1
    /\ \A a \in Action : status[a] \in Fresh => calls[a] = 0
    /\ \A e \in Executor : Claimed(e) =>
          /\ execution[job[e]] = e
          /\ status[job[e]] = IF pc[e] = "calling" THEN "running" ELSE "claimed"
          /\ calls[job[e]] = 0

IInv == RowsTyped /\ ProcsTyped /\ ClaimsHeld

LEMMA InitIInv == Init => IInv
  BY ShapeAssumption
     DEF Init, IInv, RowsTyped, ProcsTyped, ClaimsHeld, Claimed, Fresh, Status, Pc, Process, Results

LEMMA ProcStep ==
  ASSUME RowsTyped, ProcsTyped, [Next]_vars
  PROVE  ProcsTyped'
<1> USE DEF ProcsTyped, Pc, Process, Results, Contained
<1>1. ASSUME NEW e \in Executor, NEW a \in Action,
             StartExecution(e, a) \/ StartVerification(e, a)
      PROVE  ProcsTyped'
  BY <1>1 DEF StartExecution, StartVerification, Start
<1>2. ASSUME NEW e \in Executor, ExecutorStep(e)
      PROVE  ProcsTyped'
  <2>1. CASE LockIncident(e) \/ LockTarget(e) \/ Claim(e) \/ ClaimRefused(e) \/ Authorize(e)
    BY <2>1 DEF LockIncident, LockTarget, Claim, ClaimRefused, Authorize, Goto
  <2>2. CASE AuthorizationRefused(e) \/ PreflightFails(e) \/ Begin(e) \/ Complete(e)
             \/ CompleteFails(e)
    BY <2>2 DEF AuthorizationRefused, PreflightFails, Begin, Complete, CompleteFails,
                Goto, Report
  <2>3. CASE CallProvider(e)
    BY <2>3 DEF CallProvider, Report, AfterCall
  <2>4. CASE Finish(e)
    BY <2>4 DEF Finish, Report
  <2>5. CASE Verify(e) \/ VerificationEnds(e) \/ VerificationFails(e) \/ Revert(e)
    BY <2>5 DEF Verify, VerificationEnds, VerificationFails, Revert, Goto
  <2>6. CASE IncidentConflict(e) \/ TargetConflict(e) \/ Leave(e) \/ LeaveVerification(e)
    BY <2>6 DEF IncidentConflict, TargetConflict, Leave, LeaveVerification, Stop
  <2> QED
    BY <1>2, <2>1, <2>2, <2>3, <2>4, <2>5, <2>6 DEF ExecutorStep
<1>3. ASSUME NEW w \in Worker, WorkerStep(w)
      PROVE  ProcsTyped'
  <2>1. CASE ClaimOverdue(w)
    BY <2>1 DEF ClaimOverdue
  <2>2. ASSUME NEW a \in Action, LockForRollback(w, a) \/ LockedOut(w, a)
        PROVE  ProcsTyped'
    BY <2>2 DEF LockForRollback, LockedOut, Start
  <2>3. CASE CallInverse(w)
    BY <2>3 DEF CallInverse, Report
  <2>4. CASE Settle(w)
    BY <2>4 DEF Settle, Stop
  <2> QED
    BY <1>3, <2>1, <2>2, <2>3, <2>4 DEF WorkerStep
<1>4. ASSUME NEW p \in Process, Crash(p)
      PROVE  ProcsTyped'
  BY <1>4 DEF Crash, Stop
<1>5. CASE Tick
  BY <1>5 DEF Tick
<1>6. CASE UNCHANGED vars
  BY <1>6 DEF vars, procs
<1> QED
  BY <1>1, <1>2, <1>3, <1>4, <1>5, <1>6 DEF Next

\* Only three steps make a row fresh or take it on, each as ClaimsHeld needs it.
LEMMA RowStep ==
  ASSUME RowsTyped, ProcsTyped, ClaimsHeld, [Next]_vars
  PROVE  RowsTyped' /\ ClaimsHeld'
<1> DEFINE Goal == RowsTyped' /\ ClaimsHeld'
<1> USE DEF RowsTyped, ProcsTyped, ClaimsHeld, Claimed, Fresh, Process, Status
<1>1. ASSUME NEW e \in Executor, NEW a \in Action,
             StartExecution(e, a) \/ StartVerification(e, a)
      PROVE  Goal
  BY <1>1 DEF StartExecution, StartVerification, Start, row, world
<1>2. ASSUME NEW e \in Executor, ExecutorStep(e)
      PROVE  Goal
  <2>1. CASE LockIncident(e) \/ LockTarget(e)
    BY <2>1 DEF LockIncident, LockTarget, Goto, row, world
  <2>2. CASE Claim(e)
    BY <2>2 DEF Claim, Claimable, Goto, world
  <2>3. CASE ClaimRefused(e) \/ Authorize(e) \/ AuthorizationRefused(e)
    BY <2>3 DEF ClaimRefused, Authorize, AuthorizationRefused, Goto, row, world
  <2>4. CASE PreflightFails(e) \/ CompleteFails(e)
    BY <2>4 DEF PreflightFails, CompleteFails, Report, row, world
  <2>5. CASE Begin(e)
    BY <2>5 DEF Begin, Goto, world
  <2>6. CASE CallProvider(e)
    BY <2>6 DEF CallProvider, Report, AfterCall, Saturated, row
  <2>7. CASE Complete(e)
    BY <2>7 DEF Complete, Outcome, Goto, Contained, world
  <2>8. CASE Finish(e)
    BY <2>8 DEF Finish, Report, world
  <2>9. CASE Verify(e) \/ VerificationEnds(e) \/ VerificationFails(e) \/ Revert(e)
    BY <2>9 DEF Verify, VerificationEnds, VerificationFails, Revert, Goto, row, world
  <2>10. CASE IncidentConflict(e) \/ TargetConflict(e) \/ Leave(e) \/ LeaveVerification(e)
    BY <2>10 DEF IncidentConflict, TargetConflict, Leave, LeaveVerification, Stop, row, world
  <2> QED
    BY <1>2, <2>1, <2>2, <2>3, <2>4, <2>5, <2>6, <2>7, <2>8, <2>9, <2>10 DEF ExecutorStep
<1>3. ASSUME NEW w \in Worker, WorkerStep(w)
      PROVE  Goal
  <2> USE ShapeAssumption
  <2>1. CASE ClaimOverdue(w)
    BY <2>1 DEF ClaimOverdue, Overdue, Stale, Eligible, world
  <2>2. ASSUME NEW a \in Action, LockForRollback(w, a) \/ LockedOut(w, a)
        PROVE  Goal
    BY <2>2 DEF LockForRollback, LockedOut, Start, row, world
  <2>3. CASE CallInverse(w)
    BY <2>3 DEF CallInverse, Report, row
  <2>4. CASE Settle(w)
    BY <2>4 DEF Settle, Stop, Holds, Verdict, world
  <2> QED
    BY <1>3, <2>1, <2>2, <2>3, <2>4 DEF WorkerStep
<1>4. ASSUME NEW p \in Process, Crash(p)
      PROVE  Goal
  BY <1>4 DEF Crash, Stop, row, world
<1>5. CASE Tick
  BY <1>5 DEF Tick, world
<1>6. CASE UNCHANGED vars
  BY <1>6 DEF vars, procs, row, world
<1> QED
  BY <1>1, <1>2, <1>3, <1>4, <1>5, <1>6 DEF Next

\* The invariant holds in every reachable state.
THEOREM Invariance == Spec => []IInv
<1>1. IInv /\ [Next]_vars => IInv'
  BY ProcStep, RowStep DEF IInv
<1> QED
  BY InitIInv, <1>1, PTL DEF Spec

\* Wazuh is asked at most once to apply an approved action.
THEOREM ForwardCallsAreUnique == Spec => []AtMostOneForwardCall
<1>1. IInv => AtMostOneForwardCall
  BY DEF IInv, ClaimsHeld, AtMostOneForwardCall
<1> QED
  BY Invariance, <1>1, PTL

-----------------------------------------------------------------------------
(* Verdicts.                                                               *)

\* A final status is changed by no step: each of the six writes of status starts
\* from a status that is not final.
THEOREM FinalVerdicts == Spec => VerdictsStand
<1> DEFINE Stands == \A a \in Action : status[a] \in Final => status'[a] = status[a]
<1>1. ASSUME IInv, [Next]_vars
      PROVE  Stands
  <2> USE <1>1 DEF IInv, RowsTyped, Final
  <2>1. ASSUME NEW e \in Executor, NEW a \in Action,
               StartExecution(e, a) \/ StartVerification(e, a)
        PROVE  Stands
    BY <2>1 DEF StartExecution, StartVerification, row
  <2>2. ASSUME NEW e \in Executor, ExecutorStep(e)
        PROVE  Stands
    <3>1. CASE Claim(e)
      BY <3>1 DEF Claim, Claimable
    <3>2. CASE Begin(e)
      BY <3>2 DEF Begin
    <3>3. CASE Complete(e)
      BY <3>3 DEF Complete
    <3>4. CASE Finish(e)
      BY <3>4 DEF Finish
    <3>5. CASE ~(Claim(e) \/ Begin(e) \/ Complete(e) \/ Finish(e))
      BY <2>2, <3>5 DEF ExecutorStep, LockIncident, IncidentConflict, LockTarget,
           TargetConflict, ClaimRefused, Authorize, AuthorizationRefused, PreflightFails,
           CallProvider, CompleteFails, Leave, Verify, VerificationEnds,
           VerificationFails, Revert, LeaveVerification, row
    <3> QED
      BY <3>1, <3>2, <3>3, <3>4, <3>5
  <2>3. ASSUME NEW w \in Worker, WorkerStep(w)
        PROVE  Stands
    <3>1. CASE ClaimOverdue(w)
      BY <3>1 DEF ClaimOverdue, Overdue, Stale, Eligible
    <3>2. CASE Settle(w)
      BY <3>2 DEF Settle, Holds
    <3>3. CASE ~(ClaimOverdue(w) \/ Settle(w))
      BY <2>3, <3>3 DEF WorkerStep, LockForRollback, LockedOut, CallInverse, row
    <3> QED
      BY <3>1, <3>2, <3>3
  <2>4. CASE Tick \/ UNCHANGED vars \/ \E p \in Process : Crash(p)
    BY <2>4 DEF Tick, vars, Crash, row
  <2> QED
    BY <1>1, <2>1, <2>2, <2>3, <2>4 DEF Next
<1>2. Stands => [\A a \in Action : status[a] \in Final => status'[a] = status[a]]_vars
  OBVIOUS
<1> QED
  BY Invariance, <1>1, <1>2, PTL DEF Spec, VerdictsStand

-----------------------------------------------------------------------------
(* Recovery.                                                               *)

\* The remaining types.  A row that is not given up has attempts left.
OthersTyped ==
    /\ expiresIn \in [Action -> -1 .. TTL]
    /\ claim \in [Action -> Worker \cup {None}]
    /\ claimAge \in [Action -> 0 .. LockTTL]
    /\ retries \in [Action -> 0 .. MaxRetries + 1]
    /\ \A a \in Action : status[a] \notin Final => retries[a] <= MaxRetries
    /\ gate \in [Action -> {"authorization", "execution", "observation",
                            "verification", "closed"}]
    /\ owner \in [Resource -> Process \cup {None}]
    /\ left \in [Resource -> Int]
    /\ lag \in [Process -> Nat]
    /\ todo \in [Worker -> SUBSET Action]
    /\ blocked \in SUBSET Target
    /\ undos \in [Action -> 0 .. MaxUndos]
    /\ crashes \in 0 .. MaxCrashes

\* A row past its call was called; one in a worker's batch is overdue as well, and
\* the row a worker has in hand belongs to its batch.
Before == {"approved", "claimed", "running"}
BatchesOverdue ==
    /\ \A a \in Action : status[a] \in Eligible \cup {"rollback_running"} => calls[a] = 1
    /\ \A e \in Executor : pc[e] = "answered" => calls[job[e]] = 1
    /\ \A w \in Worker : \A a \in todo[w] :
          status[a] \notin Before /\ expiresIn[a] = 0 /\ calls[a] = 1
    /\ \A w \in Worker : pc[w] \in {"undoing", "settling"} => job[w] \in todo[w]
    /\ \A w \in Worker : pc[w] \in {"idle", "batch", "undoing", "settling"}

RInv == IInv /\ OthersTyped /\ BatchesOverdue

LEMMA InitRInv == Init => RInv
  BY InitIInv, ShapeAssumption, TimeAssumption, BoundAssumption
     DEF Init, RInv, OthersTyped, BatchesOverdue, Never, Eligible, Before, Process, Resource

LEMMA OthersStep ==
  ASSUME IInv, OthersTyped, BatchesOverdue, [Next]_vars
  PROVE  OthersTyped'
<1> USE ShapeAssumption, TimeAssumption, BoundAssumption
    DEF IInv, RowsTyped, ProcsTyped, OthersTyped, Process, Resource, Final
<1>1. ASSUME NEW e \in Executor, NEW a \in Action,
             StartExecution(e, a) \/ StartVerification(e, a)
      PROVE  OthersTyped'
  BY <1>1 DEF StartExecution, StartVerification, Start, row, leases, world
<1>2. ASSUME NEW e \in Executor, ExecutorStep(e)
      PROVE  OthersTyped'
  <2>1. CASE LockIncident(e) \/ LockTarget(e)
    <3>0. job[e] \in Resource /\ TargetOf[job[e]] \in Resource
      BY <2>1 DEF LockIncident, LockTarget
    <3>1. PICK r \in Resource, n \in Int : Take(r, e, 0, n)
      <4>1. TargetLease \in Int /\ LockTTL \in Int
        BY DEF TargetLease
      <4> QED
        BY <2>1, <3>0, <4>1 DEF LockIncident, LockTarget
    <3>2. owner' \in [Resource -> Process \cup {None}] /\ left' \in [Resource -> Int]
      BY <3>1 DEF Take
    <3>3. UNCHANGED <<row, gate, lag, todo, world, crashes>>
      BY <2>1 DEF LockIncident, LockTarget, Goto
    <3> QED
      BY <3>2, <3>3 DEF row, world
  <2>2. CASE Claim(e)
    BY <2>2 DEF Claim, Claimable, Goto, leases, world
  <2>3. CASE ClaimRefused(e) \/ Authorize(e) \/ AuthorizationRefused(e)
    BY <2>3 DEF ClaimRefused, Authorize, AuthorizationRefused, Goto, row, leases, world
  <2>4. CASE PreflightFails(e) \/ CompleteFails(e)
    BY <2>4 DEF PreflightFails, CompleteFails, Report, row, leases, world
  <2>5. CASE Begin(e)
    BY <2>5 DEF Begin, Goto, leases, world
  <2>6. CASE CallProvider(e)
    BY <2>6 DEF CallProvider, Report, AfterCall, row, leases
  <2>7. CASE Complete(e)
    BY <2>7 DEF Complete, Outcome, Goto, Never, leases, world
  <2>8. CASE Finish(e)
    BY <2>8 DEF Finish, Report, leases, world
  <2>9. CASE Verify(e) \/ VerificationEnds(e) \/ VerificationFails(e) \/ Revert(e)
    BY <2>9 DEF Verify, VerificationEnds, VerificationFails, Revert, Goto, row, leases, world
  <2>10. CASE IncidentConflict(e) \/ TargetConflict(e) \/ Leave(e) \/ LeaveVerification(e)
    BY <2>10 DEF IncidentConflict, TargetConflict, Leave, LeaveVerification, Stop, Drop,
                 row, leases, world
  <2> QED
    BY <1>2, <2>1, <2>2, <2>3, <2>4, <2>5, <2>6, <2>7, <2>8, <2>9, <2>10 DEF ExecutorStep
<1>3. ASSUME NEW w \in Worker, WorkerStep(w)
      PROVE  OthersTyped'
  <2>1. CASE ClaimOverdue(w)
    BY <2>1 DEF ClaimOverdue, Overdue, Stale, Eligible, leases, world
  <2>2. ASSUME NEW a \in Action, LockForRollback(w, a)
        PROVE  OthersTyped'
    <3>1. owner' \in [Resource -> Process \cup {None}] /\ left' \in [Resource -> Int]
      BY <2>2 DEF LockForRollback, Take
    <3>2. UNCHANGED <<row, gate, lag, todo, world, crashes>>
      BY <2>2 DEF LockForRollback, Start
    <3> QED
      BY <3>1, <3>2 DEF row, world
  <2>3. ASSUME NEW a \in Action, LockedOut(w, a)
        PROVE  OthersTyped'
    BY <2>3 DEF LockedOut, row, leases, world
  <2>4. CASE CallInverse(w)
    BY <2>4 DEF CallInverse, Report, Saturated, row, leases
  <2>5. CASE Settle(w)
    <3> DEFINE a == job[w]
               n == Spent(result[w], retries[a])
    <3>1. a \in Action /\ w \in Process
      BY <2>5 DEF Settle
    <3>2. /\ claim' = claim /\ expiresIn' = expiresIn /\ claimAge' = claimAge
          /\ gate' = gate /\ UNCHANGED world /\ crashes' = crashes
      BY <2>5 DEF Settle
    <3>3. owner' \in [Resource -> Process \cup {None}] /\ left' \in [Resource -> Int]
      BY <2>5 DEF Settle, Drop
    <3>4. lag' \in [Process -> Nat] /\ todo' \in [Worker -> SUBSET Action]
      BY <2>5, <3>1 DEF Settle, Stop
    <3>5. /\ retries' \in [Action -> 0 .. MaxRetries + 1]
          /\ \A b \in Action : status'[b] \notin Final => retries'[b] <= MaxRetries
      <4>1. CASE Holds(w, a)
        <5>1. status' = [status EXCEPT ![a] = Verdict(result[w], n)]
              /\ retries' = [retries EXCEPT ![a] = n]
          BY <2>5, <4>1 DEF Settle
        <5>2. retries[a] <= MaxRetries
          BY <3>1, <4>1 DEF Holds
        <5>3. n \in 0 .. MaxRetries + 1
          BY <3>1, <5>2 DEF Spent
        <5>4. Verdict(result[w], n) \notin Final => n <= MaxRetries
          BY <3>1, <5>3 DEF Verdict
        <5> QED
          BY <3>1, <5>1, <5>3, <5>4
      <4>2. CASE ~Holds(w, a)
        BY <2>5, <4>2 DEF Settle
      <4> QED
        BY <4>1, <4>2
    <3> QED
      BY <3>2, <3>3, <3>4, <3>5 DEF world
  <2> QED
    BY <1>3, <2>1, <2>2, <2>3, <2>4, <2>5 DEF WorkerStep
<1>4. ASSUME NEW p \in Process, Crash(p)
      PROVE  OthersTyped'
  BY <1>4 DEF Crash, Stop, row, leases, world
<1>5. CASE Tick
  BY <1>5 DEF Tick, Saturated, world
<1>6. CASE UNCHANGED vars
  BY <1>6 DEF vars, procs, row, leases, world
<1> QED
  BY <1>1, <1>2, <1>3, <1>4, <1>5, <1>6 DEF Next

\* A step that leaves the rows, the calls and the workers alone, and answers no
\* executor, cannot disturb a batch.
LEMMA BatchFrame ==
  ASSUME BatchesOverdue,
         UNCHANGED <<status, expiresIn, calls, todo>>,
         \A w \in Worker : pc'[w] = pc[w] /\ job'[w] = job[w],
         \A e \in Executor : pc'[e] = "answered" => pc[e] = "answered" /\ job'[e] = job[e]
  PROVE  BatchesOverdue'
  BY DEF BatchesOverdue

LEMMA BatchStep ==
  ASSUME IInv, OthersTyped, BatchesOverdue, [Next]_vars
  PROVE  BatchesOverdue'
<1> USE ShapeAssumption DEF IInv, RowsTyped, ProcsTyped, OthersTyped, Process
<1>1. ASSUME NEW e \in Executor, NEW a \in Action,
             StartExecution(e, a) \/ StartVerification(e, a)
      PROVE  BatchesOverdue'
  <2>1. /\ UNCHANGED <<status, expiresIn, calls, todo>>
        /\ \A p \in Process \ {e} : pc'[p] = pc[p] /\ job'[p] = job[p]
        /\ pc'[e] # "answered"
    BY <1>1 DEF StartExecution, StartVerification, Start, row, world
  <2> QED
    BY <2>1, BatchFrame
<1>2. ASSUME NEW e \in Executor, ExecutorStep(e)
      PROVE  BatchesOverdue'
  <2> DEFINE Quiet == /\ UNCHANGED <<status, expiresIn, calls, todo>>
                      /\ \A p \in Process \ {e} : pc'[p] = pc[p] /\ job'[p] = job[p]
                      /\ pc'[e] # "answered"
             Writes == \/ Claim(e) \/ Begin(e) \/ CallProvider(e) \/ Complete(e) \/ Finish(e)
  <2>1. ASSUME Quiet PROVE BatchesOverdue'
    BY <2>1, BatchFrame
  <2>2. CASE LockIncident(e) \/ LockTarget(e)
    <3>1. Quiet
      BY <2>2 DEF LockIncident, LockTarget, Goto, row, world
    <3> QED
      BY <2>1, <3>1
  <2>3. CASE ClaimRefused(e) \/ Authorize(e) \/ AuthorizationRefused(e)
    <3>1. Quiet
      BY <2>3 DEF ClaimRefused, Authorize, AuthorizationRefused, Goto, row, world
    <3> QED
      BY <2>1, <3>1
  <2>4. CASE PreflightFails(e) \/ CompleteFails(e)
    <3>1. Quiet
      BY <2>4 DEF PreflightFails, CompleteFails, Report, row, world
    <3> QED
      BY <2>1, <3>1
  <2>5. CASE Verify(e) \/ VerificationEnds(e) \/ VerificationFails(e) \/ Revert(e)
    <3>1. Quiet
      BY <2>5 DEF Verify, VerificationEnds, VerificationFails, Revert, Goto, row, world
    <3> QED
      BY <2>1, <3>1
  <2>6. CASE IncidentConflict(e) \/ TargetConflict(e) \/ Leave(e) \/ LeaveVerification(e)
    <3>1. Quiet
      BY <2>6 DEF IncidentConflict, TargetConflict, Leave, LeaveVerification, Stop, row, world
    <3> QED
      BY <2>1, <3>1
  <2>7. CASE Claim(e)
    BY <2>7 DEF Claim, Claimable, Goto, world, BatchesOverdue, Before, Eligible
  <2>8. CASE Begin(e)
    BY <2>8 DEF Begin, Goto, world, BatchesOverdue, Before, Eligible
  <2>9. CASE CallProvider(e)
    <3> DEFINE a == job[e]
    <3>0. a \in Action /\ status[a] = "running" /\ calls[a] = 0
      BY <2>9 DEF CallProvider, ClaimsHeld, Claimed
    <3>1. calls' = [calls EXCEPT ![a] = 1]
      BY <2>9, <3>0 DEF CallProvider, Saturated
    <3>2. /\ UNCHANGED <<status, expiresIn, todo, job>>
          /\ \A p \in Process \ {e} : pc'[p] = pc[p]
      BY <2>9 DEF CallProvider, Report, row
    <3>3. \A f \in Executor : pc'[f] = "answered" => calls'[job'[f]] = 1
      BY <3>0, <3>1, <3>2 DEF BatchesOverdue
    <3>4. \A b \in Action : calls[b] = 1 => calls'[b] = 1
      BY <3>1
    <3>5. \A w \in Worker : pc'[w] = pc[w] /\ job'[w] = job[w] /\ todo'[w] \subseteq Action
      BY <3>2
    <3> QED
      BY <3>0, <3>2, <3>3, <3>4, <3>5 DEF BatchesOverdue, Eligible
  <2>10. CASE Complete(e)
    <3> DEFINE a == job[e]
    <3>1. /\ a \in Action /\ status[a] = "running"
          /\ UNCHANGED <<calls, todo, job>>
          /\ \A b \in Action \ {a} : status'[b] = status[b] /\ expiresIn'[b] = expiresIn[b]
          /\ \A p \in Process \ {e} : pc'[p] = pc[p]
          /\ pc'[e] # "answered"
      BY <2>10 DEF Complete, Goto, world
    <3>2. calls[a] = 1
      BY <2>10 DEF Complete, BatchesOverdue
    <3>3. \A w \in Worker : a \notin todo[w]
      BY <3>1 DEF BatchesOverdue, Before
    <3>4. status' \in [Action -> Status]
      BY <2>10 DEF Complete, Outcome, Contained, Status
    <3>5. \A w \in Worker : \A b \in todo'[w] :
             status'[b] \notin Before /\ expiresIn'[b] = 0 /\ calls'[b] = 1
      BY <3>1, <3>3 DEF BatchesOverdue
    <3>6. \A w \in Worker : pc'[w] = pc[w] /\ job'[w] = job[w] /\ todo'[w] = todo[w]
      BY <3>1
    <3>7. \A f \in Executor : pc'[f] = "answered" => calls'[job'[f]] = 1
      BY <3>1 DEF BatchesOverdue
    <3>8. \A b \in Action : status'[b] \in Eligible \cup {"rollback_running"} => calls'[b] = 1
      BY <3>1, <3>2 DEF BatchesOverdue
    <3> QED
      BY <3>5, <3>6, <3>7, <3>8 DEF BatchesOverdue
  <2>11. CASE Finish(e)
    <3>1. /\ UNCHANGED <<calls, todo, job, expiresIn>>
          /\ \A b \in Action : status'[b] \in {status[b], "failed_terminal"}
          /\ \A p \in Process \ {e} : pc'[p] = pc[p]
          /\ pc'[e] # "answered"
      BY <2>11 DEF Finish, Report, world
    <3>2. \A w \in Worker : pc'[w] = pc[w] /\ todo[w] \subseteq Action
      BY <3>1
    <3>3. \A f \in Executor : pc'[f] = "answered" => pc[f] = "answered"
      BY <3>1
    <3> QED
      BY <3>1, <3>2, <3>3 DEF BatchesOverdue, Eligible, Before
  <2> QED
    BY <1>2, <2>2, <2>3, <2>4, <2>5, <2>6, <2>7, <2>8, <2>9, <2>10, <2>11 DEF ExecutorStep
<1>3. ASSUME NEW w \in Worker, WorkerStep(w)
      PROVE  BatchesOverdue'
  <2> USE DEF BatchesOverdue, Before, Eligible
  <2>1. CASE ClaimOverdue(w)
    <3> DEFINE batch == {a \in Action : Overdue(a)}
    <3>1. /\ UNCHANGED <<expiresIn, calls, job>>
          /\ status' = [a \in Action |-> IF a \in batch THEN "rollback_running" ELSE status[a]]
          /\ todo' = [todo EXCEPT ![w] = batch]
          /\ pc' = [pc EXCEPT ![w] = "batch"]
      BY <2>1 DEF ClaimOverdue, world
    <3>2. \A a \in batch : expiresIn[a] = 0 /\ calls[a] = 1
      BY DEF Overdue, Stale
    <3>3. batch \subseteq Action
      OBVIOUS
    <3> HIDE DEF batch
    <3>4. \A e \in Executor : pc'[e] = "answered" => pc[e] = "answered"
      BY <3>1
    <3>5. \A v \in Worker : \A a \in todo'[v] :
             status'[a] \notin Before /\ expiresIn'[a] = 0 /\ calls'[a] = 1
      BY <3>1, <3>2, <3>3
    <3>6. \A v \in Worker : /\ pc'[v] \in {"undoing", "settling"} => job'[v] \in todo'[v]
                            /\ pc'[v] \in {"idle", "batch", "undoing", "settling"}
      BY <3>1
    <3>7. \A a \in Action : status'[a] \in Eligible \cup {"rollback_running"} => calls'[a] = 1
      BY <3>1, <3>2
    <3> QED
      BY <3>1, <3>4, <3>5, <3>6, <3>7
  <2>2. ASSUME NEW a \in Action, LockForRollback(w, a) \/ LockedOut(w, a)
        PROVE  BatchesOverdue'
    <3>1. /\ UNCHANGED <<status, expiresIn, calls, todo>> /\ a \in todo[w]
          /\ \A p \in Process \ {w} : pc'[p] = pc[p] /\ job'[p] = job[p]
          /\ pc'[w] \in {"undoing", "settling"} /\ job'[w] = a
      BY <2>2 DEF LockForRollback, LockedOut, Start, row, world
    <3>2. \A v \in Worker : pc'[v] \in {"undoing", "settling"} => job'[v] \in todo[v]
      BY <3>1
    <3>3. \A e \in Executor : pc'[e] = pc[e] /\ job'[e] = job[e]
      BY <3>1
    <3>4. \A v \in Worker : pc'[v] \in {"idle", "batch", "undoing", "settling"}
      BY <3>1
    <3> QED
      BY <3>1, <3>2, <3>3, <3>4
  <2>3. CASE CallInverse(w)
    <3>1. /\ UNCHANGED <<status, expiresIn, calls, todo, job>>
          /\ \A p \in Process \ {w} : pc'[p] = pc[p]
          /\ pc[w] = "undoing" /\ pc'[w] = "settling"
      BY <2>3 DEF CallInverse, Report, row
    <3>2. \A v \in Worker : pc'[v] \in {"undoing", "settling"} => pc[v] \in {"undoing", "settling"}
      BY <3>1
    <3>3. \A v \in Worker : pc'[v] \in {"idle", "batch", "undoing", "settling"}
      BY <3>1
    <3>4. \A e \in Executor : pc'[e] = pc[e]
      BY <3>1
    <3> QED
      BY <3>1, <3>2, <3>3, <3>4
  <2>4. CASE Settle(w)
    <3> DEFINE a == job[w]
    <3>1. /\ a \in Action /\ calls[a] = 1
          /\ calls' = calls /\ expiresIn' = expiresIn
          /\ \A p \in Process \ {w} : pc'[p] = pc[p] /\ job'[p] = job[p]
          /\ pc'[w] \in {"idle", "batch"}
          /\ todo' = [todo EXCEPT ![w] = @ \ {a}]
      BY <2>4 DEF Settle, Stop, world
    <3>2. \A b \in Action : \/ status'[b] = status[b]
                            \/ b = a /\ status'[b] \in Eligible \cup Final
      <4>1. Verdict(result[w], Spent(result[w], retries[a])) \in Eligible \cup Final
        BY DEF Verdict, Final
      <4>2. CASE Holds(w, a)
        BY <2>4, <4>1, <4>2 DEF Settle
      <4>3. CASE ~Holds(w, a)
        BY <2>4, <4>3 DEF Settle
      <4> QED
        BY <4>2, <4>3
    <3> HIDE DEF a
    <3>3. \A b \in Action : /\ status'[b] \in Before => status[b] \in Before
                            /\ status'[b] \in Eligible \cup {"rollback_running"} => calls'[b] = 1
      BY <3>1, <3>2 DEF Final
    <3>4. \A e \in Executor : pc'[e] = "answered" => calls'[job'[e]] = 1
      <4>1. \A e \in Executor : e \in Process \ {w}
        OBVIOUS
      <4> QED
        BY <3>1, <4>1
    <3>5. \A v \in Worker : /\ todo'[v] \subseteq todo[v]
                            /\ v # w => todo'[v] = todo[v] /\ pc'[v] = pc[v] /\ job'[v] = job[v]
      BY <3>1
    <3>6. \A v \in Worker : \A b \in todo'[v] :
             status'[b] \notin Before /\ expiresIn'[b] = 0 /\ calls'[b] = 1
      <4>1. \A v \in Worker : \A b \in todo'[v] : b \in todo[v] /\ b \in Action
        BY <3>5
      <4> QED
        BY <3>1, <3>3, <4>1
    <3>7. \A v \in Worker : /\ pc'[v] \in {"undoing", "settling"} => job'[v] \in todo'[v]
                            /\ pc'[v] \in {"idle", "batch", "undoing", "settling"}
      BY <3>1, <3>5
    <3> QED
      BY <3>3, <3>4, <3>6, <3>7
  <2> QED
    BY <1>3, <2>1, <2>2, <2>3, <2>4 DEF WorkerStep
<1>4. ASSUME NEW p \in Process, Crash(p)
      PROVE  BatchesOverdue'
  <2>1. /\ UNCHANGED <<status, expiresIn, calls>>
        /\ \A q \in Process \ {p} : pc'[q] = pc[q] /\ job'[q] = job[q]
        /\ pc'[p] = "idle"
        /\ \A w \in Worker : todo'[w] = IF w = p THEN {} ELSE todo[w]
    BY <1>4 DEF Crash, Stop, row, world
  <2>2. \A w \in Worker : /\ todo'[w] \subseteq todo[w]
                          /\ pc'[w] # "idle" => w # p /\ pc'[w] = pc[w] /\ job'[w] = job[w]
                                                /\ todo'[w] = todo[w]
    BY <2>1
  <2>3. \A e \in Executor : pc'[e] = "answered" => pc[e] = "answered" /\ job'[e] = job[e]
    BY <2>1
  <2> QED
    BY <2>1, <2>2, <2>3 DEF BatchesOverdue
<1>5. CASE Tick
  <2>1. UNCHANGED <<status, calls, todo, pc, job>>
    BY <1>5 DEF Tick, world
  <2>2. \A a \in Action : expiresIn[a] = 0 => expiresIn'[a] = 0
    BY <1>5 DEF Tick
  <2> QED
    BY <2>1, <2>2 DEF BatchesOverdue
<1>6. CASE UNCHANGED vars
  BY <1>6, BatchFrame DEF vars, procs, row, world
<1> QED
  BY <1>1, <1>2, <1>3, <1>4, <1>5, <1>6 DEF Next

LEMMA RecoveryInvariance == Spec => []RInv
<1>1. RInv /\ [Next]_vars => RInv'
  BY ProcStep, RowStep, OthersStep, BatchStep DEF RInv, IInv
<1> QED
  BY InitRInv, <1>1, PTL DEF Spec

\* Every variable keeps its type.
THEOREM TypeCorrect == Spec => []TypeOK
<1>1. RInv => TypeOK
  BY DEF RInv, IInv, RowsTyped, ProcsTyped, OthersTyped, TypeOK, Pc, Results
<1> QED
  BY RecoveryInvariance, <1>1, PTL

\* A worker only has rows in hand that were contained and whose time is over.
THEOREM RecoveryIsNeverEarly == Spec => []RecoveryWaitsForExpiry
<1>1. RInv => RecoveryWaitsForExpiry
  BY DEF RInv, BatchesOverdue, RecoveryWaitsForExpiry
<1> QED
  BY RecoveryInvariance, <1>1, PTL

-----------------------------------------------------------------------------
(***************************************************************************)
(* Rows, leases, workers and Wazuh together.  Two conditions are named     *)
(* where a theorem needs them; the runs show that it fails without them.   *)
(***************************************************************************)

\* Every operation is over before the leases it took can expire.
FasterThanLeases == MaxStall < LockTTL

\* No process dies and no write of the database raises.
Undisturbed == MaxCrashes = 0 /\ ~StoreMayFail

-----------------------------------------------------------------------------
(* What a step of one process leaves to the others.                        *)

Starts(e) == \E a \in Action : StartExecution(e, a) \/ StartVerification(e, a)

\* An executor moves only itself and, on the way from approval to a result, its row.
LEMMA ExecutorFrame ==
  ASSUME IInv, OthersTyped, NEW e \in Executor, ExecutorStep(e) \/ Starts(e)
  PROVE  /\ \A p \in Process \ {e} : /\ pc'[p] = pc[p] /\ job'[p] = job[p]
                                     /\ result'[p] = result[p] /\ lag'[p] = lag[p]
         /\ lag'[e] = IF pc'[e] = "idle" THEN 0 ELSE lag[e]
         /\ UNCHANGED <<todo, claim, claimAge, retries, undos, crashes>>
         /\ \A a \in Action : status'[a] # status[a] =>
               /\ status[a] \in Before
               /\ status'[a] \in Before \cup Contained \cup {"failed_terminal"}
<1> DEFINE Others == /\ \A p \in Process \ {e} : /\ pc'[p] = pc[p] /\ job'[p] = job[p]
                                                 /\ result'[p] = result[p] /\ lag'[p] = lag[p]
                     /\ lag'[e] = IF pc'[e] = "idle" THEN 0 ELSE lag[e]
           Rows   == UNCHANGED <<todo, claim, claimAge, retries, undos, crashes>>
           Moves  == \A a \in Action : status'[a] # status[a] =>
                        /\ status[a] \in Before
                        /\ status'[a] \in Before \cup Contained \cup {"failed_terminal"}
<1> USE DEF IInv, ProcsTyped, Process
<1>1. CASE Starts(e)
  BY <1>1 DEF Starts, StartExecution, StartVerification, Start, row, world
<1>2. CASE LockIncident(e) \/ LockTarget(e)
  BY <1>2 DEF LockIncident, LockTarget, Goto, row, world
<1>3. CASE ClaimRefused(e) \/ Authorize(e) \/ AuthorizationRefused(e)
  BY <1>3 DEF ClaimRefused, Authorize, AuthorizationRefused, Goto, row, world
<1>4. CASE PreflightFails(e) \/ CompleteFails(e)
  BY <1>4 DEF PreflightFails, CompleteFails, Report, row, world
<1>5. CASE CallProvider(e)
  BY <1>5 DEF CallProvider, Report, AfterCall, row
<1>6. CASE Verify(e) \/ VerificationEnds(e) \/ VerificationFails(e) \/ Revert(e)
  BY <1>6 DEF Verify, VerificationEnds, VerificationFails, Revert, Goto, row, world
<1>7. CASE IncidentConflict(e) \/ TargetConflict(e) \/ Leave(e) \/ LeaveVerification(e)
  <2>1. Stop(e) /\ UNCHANGED <<row, todo, world, crashes>>
    BY <1>7 DEF IncidentConflict, TargetConflict, Leave, LeaveVerification
  <2>2. lag \in [Process -> Nat]
    BY DEF OthersTyped
  <2>3. Others
    BY <2>1, <2>2 DEF Stop
  <2> QED
    BY <2>1, <2>3 DEF row, world
<1>8. CASE Claim(e)
  BY <1>8 DEF Claim, Claimable, Goto, world, RowsTyped, Before
<1>9. CASE Begin(e)
  BY <1>9 DEF Begin, Goto, world, RowsTyped, Before
<1>10. CASE Complete(e)
  <2>1. result[e] \in Contained \cup {"failed_terminal"}
    BY <1>10 DEF Complete
  <2>2. Others /\ Rows
    BY <1>10 DEF Complete, Goto, world
  <2>3. Moves
    BY <1>10, <2>1 DEF Complete, Outcome, RowsTyped, Before
  <2> QED
    BY <2>2, <2>3
<1>11. CASE Finish(e)
  <2>1. Others /\ Rows
    BY <1>11 DEF Finish, Report, world
  <2>2. Moves
    BY <1>11 DEF Finish, RowsTyped, Before
  <2> QED
    BY <2>1, <2>2
<1> QED
  BY <1>1, <1>2, <1>3, <1>4, <1>5, <1>6, <1>7, <1>8, <1>9, <1>10, <1>11 DEF ExecutorStep

\* A worker moves only itself and the rows of its batch.
LEMMA WorkerFrame ==
  ASSUME IInv, OthersTyped, NEW w \in Worker, WorkerStep(w)
  PROVE  /\ \A p \in Process \ {w} : /\ pc'[p] = pc[p] /\ job'[p] = job[p]
                                     /\ result'[p] = result[p] /\ lag'[p] = lag[p]
         /\ lag'[w] = IF pc'[w] = "idle" THEN 0 ELSE lag[w]
         /\ UNCHANGED <<execution, calls, crashes>>
<1>0. lag \in [Process -> Nat]
  BY DEF OthersTyped
<1> USE DEF IInv, ProcsTyped, Process
<1>1. CASE ClaimOverdue(w)
  BY <1>1 DEF ClaimOverdue, world
<1>2. ASSUME NEW a \in Action, LockForRollback(w, a) \/ LockedOut(w, a)
      PROVE  /\ \A p \in Process \ {w} : /\ pc'[p] = pc[p] /\ job'[p] = job[p]
                                         /\ result'[p] = result[p] /\ lag'[p] = lag[p]
             /\ lag'[w] = IF pc'[w] = "idle" THEN 0 ELSE lag[w]
             /\ UNCHANGED <<execution, calls, crashes>>
  BY <1>2 DEF LockForRollback, LockedOut, Start, row, world
<1>3. CASE CallInverse(w)
  BY <1>3 DEF CallInverse, Report, row
<1>4. CASE Settle(w)
  <2>1. UNCHANGED <<execution, calls, crashes>>
    BY <1>4 DEF Settle, world
  <2>2. CASE todo[w] = {job[w]}
    BY <1>0, <1>4, <2>1, <2>2 DEF Settle, Stop
  <2>3. CASE todo[w] # {job[w]}
    BY <1>4, <2>1, <2>3 DEF Settle
  <2> QED
    BY <2>2, <2>3
<1> QED
  BY <1>1, <1>2, <1>3, <1>4 DEF WorkerStep

\* The call of an executor is the first of its action, whose row it holds.
LEMMA CallIsFirst ==
  ASSUME IInv, NEW e \in Executor, CallProvider(e)
  PROVE  /\ job[e] \in Action /\ status[job[e]] = "running" /\ execution[job[e]] = e
         /\ calls[job[e]] = 0 /\ calls' = [calls EXCEPT ![job[e]] = 1]
<1>1. /\ job[e] \in Action /\ status[job[e]] = "running" /\ execution[job[e]] = e
      /\ calls[job[e]] = 0
  BY DEF IInv, ProcsTyped, ClaimsHeld, Claimed, CallProvider, Process
<1> QED
  BY <1>1 DEF CallProvider, Saturated

\* The steps that talk to Wazuh.
Calling == \/ \E e \in Executor : CallProvider(e) \/ Revert(e)
           \/ \E w \in Worker : CallInverse(w)

\* No other step moves Wazuh.
LEMMA QuietSteps ==
  ASSUME [Next]_vars, ~Calling
  PROVE  UNCHANGED world
<1>1. ASSUME NEW e \in Executor, NEW a \in Action,
             StartExecution(e, a) \/ StartVerification(e, a)
      PROVE  UNCHANGED world
  BY <1>1 DEF StartExecution, StartVerification
<1>2. ASSUME NEW e \in Executor, ExecutorStep(e)
      PROVE  UNCHANGED world
  BY <1>2 DEF ExecutorStep, Calling, LockIncident, IncidentConflict, LockTarget, TargetConflict,
     Claim, ClaimRefused, Authorize, AuthorizationRefused, PreflightFails, Begin, Complete,
     CompleteFails, Finish, Leave, Verify, VerificationEnds, VerificationFails, LeaveVerification
<1>3. ASSUME NEW w \in Worker, WorkerStep(w)
      PROVE  UNCHANGED world
  BY <1>3 DEF WorkerStep, Calling, ClaimOverdue, LockForRollback, LockedOut, Settle
<1>4. CASE Tick \/ UNCHANGED vars \/ \E p \in Process : Crash(p)
  BY <1>4 DEF Tick, vars, Crash
<1> QED
  BY <1>1, <1>2, <1>3, <1>4 DEF Next

-----------------------------------------------------------------------------
(* What a rolled-back row says of Wazuh.                                   *)

\* A target is blocked again only by another action than the one that was lifted.
OtherCalled(a) == \E b \in Action \ {a} : TargetOf[b] = TargetOf[a] /\ calls[b] > 0
Lifted(a) == TargetOf[a] \in blocked => OtherCalled(a)
LiftsStand ==
    /\ \A a \in Action : status[a] = "rolled_back" => Lifted(a)
    /\ \A w \in Worker : pc[w] = "settling" /\ result[w] = "success" => Lifted(job[w])

LInv == RInv /\ LiftsStand

\* A row becomes rolled back only by the success its worker reports.
LEMMA RolledBackByItsWorker ==
  ASSUME RInv, [Next]_vars, NEW a \in Action, status'[a] = "rolled_back"
  PROVE  \/ status[a] = "rolled_back"
         \/ \E w \in Worker : pc[w] = "settling" /\ result[w] = "success" /\ job[w] = a
<1> USE DEF RInv
<1>1. ASSUME NEW e \in Executor, ExecutorStep(e) \/ Starts(e)
      PROVE  status[a] = "rolled_back"
  BY <1>1, ExecutorFrame DEF Before, Contained
<1>2. ASSUME NEW w \in Worker, WorkerStep(w)
      PROVE  \/ status[a] = "rolled_back"
             \/ pc[w] = "settling" /\ result[w] = "success" /\ job[w] = a
  <2>1. CASE ClaimOverdue(w)
    BY <2>1 DEF ClaimOverdue
  <2>2. CASE Settle(w)
    BY <2>2 DEF Settle, Verdict, IInv, RowsTyped
  <2>3. CASE ~(ClaimOverdue(w) \/ Settle(w))
    BY <1>2, <2>3 DEF WorkerStep, LockForRollback, LockedOut, CallInverse, row
  <2> QED
    BY <2>1, <2>2, <2>3
<1>3. CASE Tick \/ UNCHANGED vars \/ \E p \in Process : Crash(p)
  BY <1>3 DEF Tick, vars, Crash, row
<1> QED
  BY <1>1, <1>2, <1>3 DEF Next, Starts

\* A worker reports a success only after the call that lifts the block.
LEMMA SuccessIsOfItsCall ==
  ASSUME RInv, [Next]_vars, NEW w \in Worker, ~CallInverse(w),
         pc'[w] = "settling", result'[w] = "success"
  PROVE  pc[w] = "settling" /\ result[w] = "success" /\ job'[w] = job[w]
<1> USE DEF RInv, IInv, ProcsTyped, Process
<1>1. ASSUME NEW e \in Executor, ExecutorStep(e) \/ Starts(e)
      PROVE  pc'[w] = pc[w] /\ result'[w] = result[w] /\ job'[w] = job[w]
  BY <1>1, ExecutorFrame, ShapeAssumption
<1>2. ASSUME NEW v \in Worker, v # w, WorkerStep(v)
      PROVE  pc'[w] = pc[w] /\ result'[w] = result[w] /\ job'[w] = job[w]
  BY <1>2, WorkerFrame
<1>3. ASSUME WorkerStep(w) PROVE FALSE
  <2>1. CASE ClaimOverdue(w)
    BY <2>1 DEF ClaimOverdue
  <2>2. ASSUME NEW a \in Action, LockForRollback(w, a) \/ LockedOut(w, a) PROVE FALSE
    BY <2>2 DEF LockForRollback, LockedOut, Start
  <2>3. CASE Settle(w)
    BY <2>3 DEF Settle, Stop
  <2> QED
    BY <1>3, <2>1, <2>2, <2>3 DEF WorkerStep
<1>4. ASSUME NEW p \in Process, Crash(p)
      PROVE  pc'[w] = pc[w] /\ result'[w] = result[w] /\ job'[w] = job[w]
  BY <1>4 DEF Crash, Stop
<1>5. CASE Tick \/ UNCHANGED vars
  BY <1>5 DEF Tick, vars, procs
<1> QED
  BY <1>1, <1>2, <1>3, <1>4, <1>5 DEF Next, Starts

LEMMA LiftsStep ==
  ASSUME LInv, [Next]_vars
  PROVE  LiftsStand'
<1> USE DEF LInv, RInv, IInv, RowsTyped, ProcsTyped, OthersTyped, Process
<1>1. ASSUME NEW e \in Executor, CallProvider(e)
      PROVE  LiftsStand'
  <2> DEFINE b == job[e]
  <2>1. /\ b \in Action /\ status[b] = "running" /\ calls[b] = 0
        /\ calls' = [calls EXCEPT ![b] = 1]
        /\ UNCHANGED status
        /\ blocked' \subseteq blocked \cup {TargetOf[b]}
    BY <1>1, CallIsFirst DEF CallProvider, row
  <2>2. ASSUME NEW a \in Action \ {b}, Lifted(a)
        PROVE  Lifted(a)'
    <3>1. \A c \in Action : calls[c] > 0 => calls'[c] > 0
      BY <2>1
    <3>2. OtherCalled(a) => OtherCalled(a)'
      BY <3>1 DEF OtherCalled
    <3>3. CASE TargetOf[b] = TargetOf[a]
      BY <2>1, <3>3 DEF Lifted, OtherCalled
    <3>4. CASE TargetOf[b] # TargetOf[a]
      BY <2>1, <2>2, <3>2, <3>4 DEF Lifted
    <3> QED
      BY <3>3, <3>4
  <2>3. \A w \in Worker : /\ pc'[w] = pc[w] /\ result'[w] = result[w] /\ job'[w] = job[w]
                          /\ pc[w] = "settling" => job[w] \in Action \ {b}
    BY <1>1, <2>1, ShapeAssumption DEF CallProvider, Report, BatchesOverdue, Before
  <2>4. \A a \in Action : status'[a] = "rolled_back" => Lifted(a)'
    BY <2>1, <2>2 DEF LiftsStand
  <2>5. ASSUME NEW w \in Worker, pc'[w] = "settling", result'[w] = "success"
        PROVE  Lifted(job[w])'
    BY <2>2, <2>3, <2>5 DEF LiftsStand
  <2> QED
    BY <2>3, <2>4, <2>5 DEF LiftsStand
<1>2. ASSUME NEW e \in Executor, Revert(e)
      PROVE  LiftsStand'
  <2>1. /\ UNCHANGED <<status, calls>> /\ blocked' \subseteq blocked
        /\ \A w \in Worker : pc'[w] = pc[w] /\ result'[w] = result[w] /\ job'[w] = job[w]
    BY <1>2, ShapeAssumption DEF Revert, Goto, row
  <2> QED
    BY <2>1 DEF LiftsStand, Lifted, OtherCalled
<1>3. ASSUME NEW w \in Worker, CallInverse(w)
      PROVE  LiftsStand'
  <2>1. /\ UNCHANGED <<status, calls, job>> /\ blocked' \subseteq blocked
        /\ \A v \in Worker \ {w} : pc'[v] = pc[v] /\ result'[v] = result[v]
        /\ result'[w] = "success" => TargetOf[job[w]] \notin blocked'
    BY <1>3 DEF CallInverse, Report, row
  <2> QED
    BY <2>1 DEF LiftsStand, Lifted, OtherCalled
<1>4. CASE ~Calling
  <2>1. UNCHANGED <<blocked, calls>>
    BY <1>4, QuietSteps DEF world
  <2>2. \A a : Lifted(a)' = Lifted(a)
    BY <2>1 DEF Lifted, OtherCalled
  <2>3. ASSUME NEW a \in Action, status'[a] = "rolled_back"
        PROVE  Lifted(a)
    BY <2>3, RolledBackByItsWorker DEF LiftsStand
  <2>4. ASSUME NEW w \in Worker, pc'[w] = "settling", result'[w] = "success"
        PROVE  Lifted(job[w]) /\ job'[w] = job[w]
    BY <1>4, <2>4, SuccessIsOfItsCall DEF LiftsStand, Calling
  <2>5. ASSUME NEW w \in Worker, pc'[w] = "settling", result'[w] = "success"
        PROVE  Lifted(job[w])'
    BY <2>2, <2>4, <2>5
  <2> QED
    BY <2>2, <2>3, <2>4, <2>5 DEF LiftsStand
<1> QED
  BY <1>1, <1>2, <1>3, <1>4 DEF Calling

LEMMA LiftsInvariance == Spec => []LInv
<1>1. Init => LiftsStand
  BY DEF Init, LiftsStand, Process
<1>2. LInv /\ [Next]_vars => LiftsStand'
  BY LiftsStep
<1> QED
  BY RecoveryInvariance, <1>1, <1>2, PTL DEF Spec, LInv

\* The row of a block that was lifted never claims a rollback that did not happen.
THEOREM RolledBackMeansLifted == Spec => []RolledBackIsLifted
<1>1. LInv => RolledBackIsLifted
  BY DEF LInv, LiftsStand, Lifted, OtherCalled, RolledBackIsLifted
<1> QED
  BY LiftsInvariance, <1>1, PTL

-----------------------------------------------------------------------------
(* One mutator per target.                                                 *)

LagsBounded == \A p \in Process : lag[p] <= MaxStall /\ (pc[p] = "idle" => lag[p] = 0)

LEMMA LagsStep ==
  ASSUME RInv, LagsBounded, [Next]_vars
  PROVE  LagsBounded'
<1> USE TimeAssumption DEF RInv, OthersTyped, LagsBounded, Process
<1>1. ASSUME NEW e \in Executor, ExecutorStep(e) \/ Starts(e)
      PROVE  LagsBounded'
  BY <1>1, ExecutorFrame
<1>2. ASSUME NEW w \in Worker, WorkerStep(w)
      PROVE  LagsBounded'
  BY <1>2, WorkerFrame
<1>3. ASSUME NEW p \in Process, Crash(p)
      PROVE  LagsBounded'
  <2>1. lag' = [lag EXCEPT ![p] = 0] /\ pc' = [pc EXCEPT ![p] = "idle"]
    BY <1>3 DEF Crash, Stop
  <2> QED
    BY <2>1 DEF IInv, ProcsTyped
<1>4. CASE Tick
  BY <1>4 DEF Tick
<1>5. CASE UNCHANGED vars
  BY <1>5 DEF vars, procs
<1> QED
  BY <1>1, <1>2, <1>3, <1>4, <1>5 DEF Next, Starts

LEMMA LagsInvariance == Spec => []LagsBounded
<1>1. Init => LagsBounded
  BY TimeAssumption DEF Init, LagsBounded
<1>2. RInv /\ LagsBounded /\ [Next]_vars => LagsBounded'
  BY LagsStep
<1> QED
  BY RecoveryInvariance, <1>1, <1>2, PTL DEF Spec

\* Between its target lease and its call, a process holds that lease, and has been
\* at work for longer than the lease has run.
Holding(p) == pc[p] \in {"target", "claimed", "authorized", "calling", "undoing"}
HoldsTarget(p, t) == owner[t] = p /\ left[t] + lag[p] >= LockTTL
TargetsHeld == \A p \in Process : Holding(p) => HoldsTarget(p, TargetOf[job[p]])

\* Nobody else can take a lease that is held like that, or drop it.
LEMMA LeaseKept ==
  ASSUME RInv, LagsBounded, FasterThanLeases,
         NEW p \in Process, NEW q \in Process, p # q, NEW t \in Target, HoldsTarget(p, t),
         \/ q \in Executor /\ (ExecutorStep(q) \/ Starts(q))
         \/ q \in Worker /\ WorkerStep(q)
  PROVE  owner'[t] = p /\ left'[t] = left[t]
<1> DEFINE Kept == owner'[t] = p /\ left'[t] = left[t]
<1> USE ShapeAssumption, TimeAssumption
    DEF RInv, IInv, ProcsTyped, OthersTyped, LagsBounded, HoldsTarget, FasterThanLeases, Resource
<1>1. t \in Resource /\ t \notin Action /\ left[t] \in Int
  OBVIOUS
<1>2. \A n \in Nat : ~(left[t] + n <= 0)
  OBVIOUS
<1>3. ASSUME NEW rs, Drop(rs, q) PROVE Kept
  BY <1>1, <1>3 DEF Drop
<1>4. ASSUME NEW r \in Resource, NEW ago, NEW n, r # t, Take(r, q, ago, n) PROVE Kept
  BY <1>1, <1>4 DEF Take
<1>5. ASSUME UNCHANGED leases PROVE Kept
  BY <1>5 DEF leases
<1>6. ASSUME q \in Executor, ExecutorStep(q) \/ Starts(q) PROVE Kept
  <2>1. CASE LockIncident(q)
    <3>1. job[q] \in Action /\ Take(job[q], q, 0, LockTTL)
      BY <2>1, <1>6 DEF LockIncident, Process
    <3> QED
      BY <3>1, <1>1, <1>4
  <2>2. CASE LockTarget(q)
    <3>1. ~Leased(TargetOf[job[q]], 0) /\ Take(TargetOf[job[q]], q, 0, TargetLease)
          /\ job[q] \in Action
      BY <2>2, <1>6 DEF LockTarget, Process
    <3>2. TargetOf[job[q]] # t
      BY <3>1, <1>1, <1>2 DEF Leased
    <3> QED
      BY <3>1, <3>2, <1>4
  <2>3. CASE TargetConflict(q) \/ Leave(q) \/ LeaveVerification(q)
    BY <2>3, <1>3 DEF TargetConflict, Leave, LeaveVerification
  <2>4. CASE ~(\/ LockIncident(q) \/ LockTarget(q) \/ TargetConflict(q) \/ Leave(q)
               \/ LeaveVerification(q))
    <3>1. UNCHANGED leases
      BY <1>6, <2>4 DEF ExecutorStep, Starts, StartExecution, StartVerification,
         IncidentConflict, Claim, ClaimRefused, Authorize, AuthorizationRefused,
         PreflightFails, Begin, CallProvider, Complete, CompleteFails, Finish, Verify,
         VerificationEnds, VerificationFails, Revert
    <3> QED
      BY <3>1, <1>5
  <2> QED
    BY <2>1, <2>2, <2>3, <2>4
<1>7. ASSUME q \in Worker, WorkerStep(q) PROVE Kept
  <2>1. ASSUME NEW a \in Action, LockForRollback(q, a) PROVE Kept
    <3>1. ~Leased(TargetOf[a], lag[q]) /\ Take(TargetOf[a], q, lag[q], LockTTL)
      BY <2>1 DEF LockForRollback
    <3>2. TargetOf[a] # t
      BY <3>1, <1>2 DEF Leased
    <3> QED
      BY <3>1, <3>2, <1>4
  <2>2. CASE Settle(q)
    BY <2>2, <1>3 DEF Settle
  <2>3. CASE ClaimOverdue(q) \/ CallInverse(q) \/ \E a \in Action : LockedOut(q, a)
    BY <2>3, <1>5 DEF ClaimOverdue, CallInverse, LockedOut
  <2> QED
    BY <1>7, <2>1, <2>2, <2>3 DEF WorkerStep
<1> QED
  BY <1>6, <1>7

LEMMA TargetsStep ==
  ASSUME RInv, LagsBounded, TargetsHeld, FasterThanLeases, [Next]_vars
  PROVE  TargetsHeld'
<1> USE DEF RInv, IInv, ProcsTyped, OthersTyped, Process
<1>0. \A p \in Process : Holding(p) => TargetOf[job[p]] \in Target
  BY ShapeAssumption DEF Holding
<1>1. ASSUME NEW e \in Executor, ExecutorStep(e) \/ Starts(e)
      PROVE  TargetsHeld'
  <2>1. ASSUME NEW p \in Process \ {e}, Holding(p)'
        PROVE  HoldsTarget(p, TargetOf[job[p]])'
    <3>1. pc'[p] = pc[p] /\ job'[p] = job[p] /\ lag'[p] = lag[p]
      BY <1>1, ExecutorFrame
    <3>2. Holding(p) /\ HoldsTarget(p, TargetOf[job[p]])
      BY <2>1, <3>1 DEF Holding, TargetsHeld
    <3>3. owner'[TargetOf[job[p]]] = p /\ left'[TargetOf[job[p]]] = left[TargetOf[job[p]]]
      BY <1>0, <1>1, <3>2, LeaseKept
    <3> QED
      BY <3>1, <3>2, <3>3 DEF HoldsTarget
  <2>2. ASSUME Holding(e)'
        PROVE  HoldsTarget(e, TargetOf[job[e]])'
    <3>1. CASE LockTarget(e)
      <4> DEFINE t == TargetOf[job[e]]
      <4>1. t \in Resource /\ TargetLease \in Nat /\ TargetLease >= LockTTL
        BY <3>1, ShapeAssumption, TimeAssumption DEF LockTarget, Resource, TargetLease
      <4>2. Take(t, e, 0, TargetLease) /\ UNCHANGED <<job, lag>>
        BY <3>1 DEF LockTarget, Goto
      <4>3. owner'[t] = e /\ left'[t] = TargetLease
        BY <4>1, <4>2 DEF Take
      <4> QED
        BY <4>1, <4>2, <4>3, TimeAssumption DEF HoldsTarget
    <3>2. CASE Claim(e) \/ Authorize(e) \/ Begin(e)
      <4>1. Holding(e) /\ UNCHANGED <<owner, left, job, lag>>
        BY <3>2 DEF Claim, Authorize, Begin, Goto, leases, Holding
      <4> QED
        BY <4>1 DEF TargetsHeld, HoldsTarget
    <3>3. CASE ~(LockTarget(e) \/ Claim(e) \/ Authorize(e) \/ Begin(e))
      <4>1. CASE Starts(e) \/ LockIncident(e)
        BY <2>2, <4>1 DEF Starts, StartExecution, StartVerification, Start, LockIncident,
                          Goto, Holding
      <4>2. CASE IncidentConflict(e) \/ TargetConflict(e) \/ Leave(e) \/ LeaveVerification(e)
        BY <2>2, <4>2 DEF IncidentConflict, TargetConflict, Leave, LeaveVerification, Stop,
                          Holding
      <4>3. CASE ClaimRefused(e) \/ AuthorizationRefused(e) \/ PreflightFails(e)
                 \/ CompleteFails(e) \/ Complete(e)
        BY <2>2, <4>3 DEF ClaimRefused, AuthorizationRefused, PreflightFails, CompleteFails,
                          Complete, Goto, Report, Holding
      <4>4. CASE CallProvider(e) \/ Finish(e)
        BY <2>2, <4>4 DEF CallProvider, Finish, Report, AfterCall, Holding
      <4>5. CASE Verify(e) \/ VerificationEnds(e) \/ VerificationFails(e) \/ Revert(e)
        BY <2>2, <4>5 DEF Verify, VerificationEnds, VerificationFails, Revert, Goto, Holding
      <4> QED
        BY <1>1, <3>3, <4>1, <4>2, <4>3, <4>4, <4>5 DEF ExecutorStep
    <3> QED
      BY <3>1, <3>2, <3>3
  <2> QED
    BY <2>1, <2>2 DEF TargetsHeld
<1>2. ASSUME NEW w \in Worker, WorkerStep(w)
      PROVE  TargetsHeld'
  <2>1. ASSUME NEW p \in Process \ {w}, Holding(p)'
        PROVE  HoldsTarget(p, TargetOf[job[p]])'
    <3>1. pc'[p] = pc[p] /\ job'[p] = job[p] /\ lag'[p] = lag[p]
      BY <1>2, WorkerFrame
    <3>2. Holding(p) /\ HoldsTarget(p, TargetOf[job[p]])
      BY <2>1, <3>1 DEF Holding, TargetsHeld
    <3>3. owner'[TargetOf[job[p]]] = p /\ left'[TargetOf[job[p]]] = left[TargetOf[job[p]]]
      BY <1>0, <1>2, <3>2, LeaseKept
    <3> QED
      BY <3>1, <3>2, <3>3 DEF HoldsTarget
  <2>2. ASSUME Holding(w)'
        PROVE  HoldsTarget(w, TargetOf[job[w]])'
    <3>1. ASSUME NEW a \in Action, LockForRollback(w, a)
          PROVE  HoldsTarget(w, TargetOf[job[w]])'
      <4> DEFINE t == TargetOf[a]
      <4>1. t \in Resource
        BY ShapeAssumption DEF Resource
      <4>2. Take(t, w, lag[w], LockTTL) /\ lag' = lag /\ job'[w] = a
        BY <3>1 DEF LockForRollback, Start
      <4>3. owner'[t] = w /\ left'[t] = LockTTL - lag[w]
        BY <4>1, <4>2 DEF Take
      <4> QED
        BY <4>2, <4>3, TimeAssumption DEF HoldsTarget
    <3>2. CASE ClaimOverdue(w) \/ CallInverse(w) \/ Settle(w) \/ \E a \in Action : LockedOut(w, a)
      BY <2>2, <3>2 DEF ClaimOverdue, CallInverse, Report, Settle, Stop, LockedOut, Holding
    <3> QED
      BY <1>2, <3>1, <3>2 DEF WorkerStep
  <2> QED
    BY <2>1, <2>2 DEF TargetsHeld
<1>3. ASSUME NEW p \in Process, Crash(p)
      PROVE  TargetsHeld'
  <2>1. \A q \in Process : Holding(q)' => /\ Holding(q) /\ job'[q] = job[q] /\ lag'[q] = lag[q]
    BY <1>3 DEF Crash, Stop, Holding
  <2>2. UNCHANGED <<owner, left>>
    BY <1>3 DEF Crash, leases
  <2> QED
    BY <2>1, <2>2 DEF TargetsHeld, HoldsTarget
<1>4. CASE Tick
  <2>1. ASSUME NEW p \in Process, Holding(p)'
        PROVE  HoldsTarget(p, TargetOf[job[p]])'
    <3> DEFINE t == TargetOf[job[p]]
    <3>1. Holding(p) /\ job' = job /\ pc[p] # "idle"
      BY <1>4, <2>1 DEF Tick, Holding
    <3>2. t \in Resource /\ HoldsTarget(p, t)
      BY <1>0, <3>1 DEF Resource, TargetsHeld
    <3>3. lag[p] < MaxStall /\ lag'[p] = lag[p] + 1
      BY <1>4, <3>1 DEF Tick
    <3>4. left[t] > 1 /\ left[t] \in Int /\ lag[p] \in Nat
      BY <3>2, <3>3, TimeAssumption DEF HoldsTarget, FasterThanLeases
    <3>5. owner'[t] = owner[t] /\ left'[t] = left[t] - 1
      BY <1>4, <3>2, <3>4, TimeAssumption DEF Tick
    <3> QED
      BY <3>1, <3>2, <3>3, <3>4, <3>5, TimeAssumption DEF HoldsTarget
  <2> QED
    BY <2>1 DEF TargetsHeld
<1>5. CASE UNCHANGED vars
  BY <1>5 DEF vars, procs, leases, TargetsHeld, HoldsTarget, Holding
<1> QED
  BY <1>1, <1>2, <1>3, <1>4, <1>5 DEF Next, Starts

\* While every operation is over before its leases can expire, an execution and a
\* recovery never talk to Wazuh about one target at once.
THEOREM MutatorsAreAlone ==
  ASSUME FasterThanLeases
  PROVE  Spec => []OneMutatorPerTarget
<1>1. Init => TargetsHeld
  BY DEF Init, TargetsHeld, Holding
<1>2. RInv /\ LagsBounded /\ TargetsHeld /\ [Next]_vars => TargetsHeld'
  BY TargetsStep, FasterThanLeases
<1>3. TargetsHeld => OneMutatorPerTarget
  BY DEF TargetsHeld, HoldsTarget, Holding, OneMutatorPerTarget, Touching
<1> QED
  BY RecoveryInvariance, LagsInvariance, <1>1, <1>2, <1>3, PTL DEF Spec

-----------------------------------------------------------------------------
(* No block without a row that says so.                                    *)

\* The block of an action that was called, and of no other action of its target, is
\* in the books: its row can be recovered, or its executor has the answer in hand.
Answering(a) == \E e \in Executor : /\ pc[e] = "answered" /\ job[e] = a
                                    /\ result[e] \in Contained
                                    /\ status[a] = "running" /\ execution[a] = e
BlocksCalled == \A t \in blocked : \E b \in Action : TargetOf[b] = t /\ calls[b] > 0
BlocksOnRecord ==
    \A a \in Action : calls[a] > 0 /\ ~Lifted(a) => status[a] \in Recoverable \/ Answering(a)

\* What only the calls of executors can change.
LEMMA CallsStep ==
  ASSUME [Next]_vars, ~\E e \in Executor : CallProvider(e)
  PROVE  calls' = calls /\ blocked' \subseteq blocked
<1>1. CASE ~Calling
  BY <1>1, QuietSteps DEF world
<1>2. ASSUME NEW e \in Executor, Revert(e)
      PROVE  calls' = calls /\ blocked' \subseteq blocked
  BY <1>2 DEF Revert
<1>3. ASSUME NEW w \in Worker, CallInverse(w)
      PROVE  calls' = calls /\ blocked' \subseteq blocked
  BY <1>3 DEF CallInverse
<1> QED
  BY <1>1, <1>2, <1>3 DEF Calling

LEMMA BlocksCalledStep ==
  ASSUME RInv, BlocksCalled, [Next]_vars
  PROVE  BlocksCalled'
<1> USE DEF RInv, IInv, RowsTyped, ProcsTyped, Process
<1>1. ASSUME NEW e \in Executor, CallProvider(e)
      PROVE  BlocksCalled'
  <2> DEFINE b == job[e]
  <2>1. b \in Action /\ blocked' \subseteq blocked \cup {TargetOf[b]}
    BY <1>1 DEF CallProvider
  <2>2. calls' = [calls EXCEPT ![b] = 1]
    BY <1>1, CallIsFirst
  <2>3. \A c \in Action : calls[c] > 0 => calls'[c] > 0
    BY <2>1, <2>2
  <2>4. calls'[b] > 0
    BY <2>1, <2>2
  <2> HIDE DEF b
  <2> QED
    BY <2>1, <2>3, <2>4 DEF BlocksCalled
<1>2. CASE ~\E e \in Executor : CallProvider(e)
  BY <1>2, CallsStep DEF BlocksCalled
<1> QED
  BY <1>1, <1>2

\* The row of a call on the way stays with its executor until the answer is written.
LEMMA AnswersStep ==
  ASSUME RInv, Undisturbed, [Next]_vars, NEW a \in Action, Answering(a),
         ~\E e \in Executor : CallProvider(e)
  PROVE  status'[a] \in Recoverable \/ Answering(a)'
<1> USE DEF RInv, IInv, RowsTyped, ProcsTyped, OthersTyped, Process
<1>1. PICK f \in Executor : /\ pc[f] = "answered" /\ job[f] = a /\ result[f] \in Contained
                            /\ status[a] = "running" /\ execution[a] = f
  BY DEF Answering
<1> DEFINE Same == /\ pc'[f] = pc[f] /\ job'[f] = job[f] /\ result'[f] = result[f]
                   /\ status'[a] = status[a] /\ execution'[a] = execution[a]
<1>2. ASSUME Same PROVE Answering(a)'
  BY <1>1, <1>2 DEF Answering
<1>3. ASSUME NEW e \in Executor, ExecutorStep(e) \/ Starts(e)
      PROVE  status'[a] \in Recoverable \/ Same
  <2>1. CASE Complete(e)
    <3>1. CASE job[e] = a
      <4>1. e = f
        BY <1>1, <2>1, <3>1 DEF Complete
      <4>2. status'[a] = result[f]
        BY <2>1, <3>1, <4>1 DEF Complete, Outcome
      <4> QED
        BY <1>1, <4>2 DEF Recoverable, Eligible, Contained
    <3>2. CASE job[e] # a
      BY <1>1, <2>1, <3>2 DEF Complete, Goto
    <3> QED
      BY <3>1, <3>2
  <2>2. CASE Finish(e)
    <3>1. e # f
      BY <1>1, <2>2 DEF Finish
    <3>2. status'[a] = status[a]
      BY <1>1, <2>2, <3>1 DEF Finish
    <3>3. pc'[f] = pc[f] /\ job'[f] = job[f] /\ result'[f] = result[f] /\ execution' = execution
      BY <2>2, <3>1 DEF Finish, Report
    <3> QED
      BY <3>2, <3>3
  <2>3. CASE Claim(e) \/ Begin(e)
    BY <1>1, <2>3 DEF Claim, Claimable, Begin, Goto
  <2>4. CASE ~(Complete(e) \/ Finish(e) \/ Claim(e) \/ Begin(e))
    <3>1. e # f
      BY <1>1, <1>3, <2>4 DEF Starts, StartExecution, StartVerification, ExecutorStep,
         LockIncident, IncidentConflict, LockTarget, TargetConflict, ClaimRefused, Authorize,
         AuthorizationRefused, PreflightFails, CallProvider, CompleteFails, Leave, Verify,
         VerificationEnds, VerificationFails, Revert, LeaveVerification, Undisturbed
    <3>2. pc'[f] = pc[f] /\ job'[f] = job[f] /\ result'[f] = result[f]
      BY <1>3, <3>1, ExecutorFrame
    <3>3. UNCHANGED <<status, execution>>
      BY <1>3, <2>4 DEF Starts, StartExecution, StartVerification, ExecutorStep,
         LockIncident, IncidentConflict, LockTarget, TargetConflict, ClaimRefused, Authorize,
         AuthorizationRefused, PreflightFails, CallProvider, CompleteFails, Leave, Verify,
         VerificationEnds, VerificationFails, Revert, LeaveVerification, row
    <3> QED
      BY <3>2, <3>3
  <2> QED
    BY <2>1, <2>2, <2>3, <2>4
<1>4. ASSUME NEW w \in Worker, WorkerStep(w)
      PROVE  status'[a] \in Recoverable \/ Same
  <2>1. pc'[f] = pc[f] /\ job'[f] = job[f] /\ result'[f] = result[f] /\ execution' = execution
    BY <1>4, WorkerFrame, ShapeAssumption
  <2>2. status'[a] = status[a]
    <3>1. CASE ClaimOverdue(w)
      BY <1>1, <3>1 DEF ClaimOverdue, Overdue, Stale, Eligible
    <3>2. CASE Settle(w)
      BY <1>1, <3>2 DEF Settle, Holds
    <3>3. CASE ~(ClaimOverdue(w) \/ Settle(w))
      BY <1>4, <3>3 DEF WorkerStep, LockForRollback, LockedOut, CallInverse, row
    <3> QED
      BY <3>1, <3>2, <3>3
  <2> QED
    BY <2>1, <2>2
<1>5. ASSUME NEW p \in Process, Crash(p) PROVE FALSE
  <2>1. crashes \in 0 .. 0 /\ crashes < 0
    BY <1>5 DEF Undisturbed, Crash
  <2> QED
    BY <2>1
<1>6. ASSUME Tick \/ UNCHANGED vars PROVE Same
  BY <1>6 DEF Tick, vars, procs, row
<1> QED
  BY <1>2, <1>3, <1>4, <1>5, <1>6 DEF Next, Starts

\* A recoverable row stays recoverable, unless its block was lifted.
LEMMA RecoverableStep ==
  ASSUME LInv, [Next]_vars, NEW a \in Action, status[a] \in Recoverable
  PROVE  status'[a] \in Recoverable \/ status'[a] = "rolled_back"
<1> USE DEF LInv, RInv, IInv, RowsTyped
<1>1. ASSUME NEW e \in Executor, ExecutorStep(e) \/ Starts(e)
      PROVE  status'[a] = status[a]
  BY <1>1, ExecutorFrame DEF Before, Recoverable, Eligible
<1>2. ASSUME NEW w \in Worker, WorkerStep(w)
      PROVE  status'[a] \in Recoverable \/ status'[a] = "rolled_back"
  <2>1. CASE ClaimOverdue(w)
    BY <2>1 DEF ClaimOverdue, Recoverable
  <2>2. CASE Settle(w)
    BY <2>2 DEF Settle, Verdict, Recoverable, Eligible
  <2>3. CASE ~(ClaimOverdue(w) \/ Settle(w))
    BY <1>2, <2>3 DEF WorkerStep, LockForRollback, LockedOut, CallInverse, row
  <2> QED
    BY <2>1, <2>2, <2>3
<1>3. CASE Tick \/ UNCHANGED vars \/ \E p \in Process : Crash(p)
  BY <1>3 DEF Tick, vars, Crash, row
<1> QED
  BY <1>1, <1>2, <1>3 DEF Next, Starts

LEMMA RecordStep ==
  ASSUME LInv, LInv', BlocksCalled, BlocksOnRecord, Undisturbed, [Next]_vars
  PROVE  BlocksOnRecord'
<1> USE DEF LInv, RInv, IInv, RowsTyped, ProcsTyped, Process
<1>1. ASSUME NEW e \in Executor, CallProvider(e), NEW a \in Action,
             calls'[a] > 0, ~Lifted(a)'
      PROVE  status'[a] \in Recoverable \/ Answering(a)'
  <2> DEFINE b == job[e]
  <2>1. b \in Action /\ status[b] = "running" /\ calls[b] = 0 /\ execution[b] = e
    BY <1>1, CallIsFirst
  <2>2. /\ calls' = [calls EXCEPT ![b] = 1] /\ UNCHANGED <<status, execution, job>>
        /\ blocked' \subseteq blocked \cup {TargetOf[b]}
    BY <1>1, CallIsFirst DEF CallProvider, Report, row
  <2>3. \A c \in Action : calls[c] > 0 => calls'[c] > 0
    BY <2>1, <2>2
  <2>4. CASE a = b
    <3>1. ~\E c \in Action : TargetOf[c] = TargetOf[a] /\ calls[c] > 0
      BY <1>1, <2>1, <2>3, <2>4 DEF Lifted, OtherCalled
    <3>2. TargetOf[a] \notin blocked /\ TargetOf[a] \in blocked'
      BY <1>1, <3>1 DEF BlocksCalled, Lifted
    <3>3. result'[e] \in Contained /\ pc'[e] = "answered"
      BY <1>1, <2>4, <3>2 DEF CallProvider, Report, AfterCall, Contained
    <3> QED
      BY <2>1, <2>2, <2>4, <3>3 DEF Answering
  <2>5. CASE a # b
    <3>1. TargetOf[b] # TargetOf[a]
      BY <1>1, <2>1, <2>2, <2>5 DEF Lifted, OtherCalled
    <3>2. calls[a] > 0 /\ ~Lifted(a)
      BY <1>1, <2>1, <2>2, <2>3, <2>5, <3>1 DEF Lifted, OtherCalled
    <3>3. CASE status[a] \in Recoverable
      BY <2>2, <3>3
    <3>4. ASSUME Answering(a) PROVE Answering(a)'
      <4>1. PICK f \in Executor : /\ pc[f] = "answered" /\ job[f] = a
                                  /\ result[f] \in Contained
                                  /\ status[a] = "running" /\ execution[a] = f
        BY <3>4 DEF Answering
      <4>2. f # e
        BY <2>5, <4>1
      <4>3. pc'[f] = pc[f] /\ result'[f] = result[f]
        BY <1>1, <4>2 DEF CallProvider, Report
      <4> QED
        BY <2>2, <4>1, <4>3 DEF Answering
    <3> QED
      BY <3>2, <3>3, <3>4 DEF BlocksOnRecord
  <2> QED
    BY <2>4, <2>5
<1>2. ASSUME ~\E e \in Executor : CallProvider(e), NEW a \in Action,
             calls'[a] > 0, ~Lifted(a)'
      PROVE  status'[a] \in Recoverable \/ Answering(a)'
  <2>1. calls[a] > 0 /\ ~Lifted(a)
    BY <1>2, CallsStep DEF Lifted, OtherCalled
  <2>2. CASE Answering(a)
    BY <1>2, <2>2, AnswersStep
  <2>3. CASE status[a] \in Recoverable
    <3>1. status'[a] # "rolled_back"
      BY <1>2 DEF LiftsStand
    <3> QED
      BY <2>3, <3>1, RecoverableStep
  <2> QED
    BY <2>1, <2>2, <2>3 DEF BlocksOnRecord
<1> QED
  BY <1>1, <1>2 DEF BlocksOnRecord

\* As long as no process dies and every write succeeds, a block that nobody works on
\* any more has a row that can still be recovered, or that says it was given up.
THEOREM BlocksAreOnRecord ==
  ASSUME Undisturbed
  PROVE  Spec => []NoOrphanedBlock
<1>1. Init => BlocksCalled /\ BlocksOnRecord
  BY DEF Init, BlocksCalled, BlocksOnRecord
<1>2. LInv /\ LInv' /\ BlocksCalled /\ BlocksOnRecord /\ [Next]_vars
        => BlocksCalled' /\ BlocksOnRecord'
  BY RecordStep, BlocksCalledStep, Undisturbed DEF LInv
<1>3. LInv /\ BlocksOnRecord => NoOrphanedBlock
  <2> SUFFICES ASSUME LInv, BlocksOnRecord, NEW a \in Action, calls[a] > 0,
                      TargetOf[a] \in blocked,
                      \A b \in Action \ {a} : TargetOf[b] = TargetOf[a] => calls[b] = 0,
                      \A p \in Process : job[p] # a
               PROVE  status[a] \in Recoverable
    BY DEF NoOrphanedBlock
  <2>1. ~Lifted(a)
    BY DEF Lifted, OtherCalled
  <2>2. ~Answering(a)
    BY DEF Answering, Process
  <2> QED
    BY <2>1, <2>2 DEF BlocksOnRecord
<1> QED
  BY LiftsInvariance, <1>1, <1>2, <1>3, PTL DEF Spec

-----------------------------------------------------------------------------
(* The attempts of the recovery.                                           *)

\* A worker holds the claim of every row of its batch, since no longer than it has
\* been at work: nobody finds one of them stale.
BatchesHeld ==
    \A w \in Worker : \A a \in todo[w] :
        /\ pc[w] # "idle"
        /\ status[a] = "rollback_running" /\ claim[a] = w /\ claimAge[a] <= lag[w]

LEMMA HeldStep ==
  ASSUME RInv, LagsBounded, FasterThanLeases, BatchesHeld, [Next]_vars
  PROVE  BatchesHeld'
<1> USE ShapeAssumption, TimeAssumption
    DEF RInv, IInv, RowsTyped, ProcsTyped, OthersTyped, Process
<1>1. ASSUME NEW e \in Executor, ExecutorStep(e) \/ Starts(e)
      PROVE  BatchesHeld'
  <2>1. /\ UNCHANGED <<todo, claim, claimAge>>
        /\ \A w \in Worker : pc'[w] = pc[w] /\ lag'[w] = lag[w]
        /\ \A a \in Action : status[a] = "rollback_running" => status'[a] = status[a]
    BY <1>1, ExecutorFrame DEF Before
  <2> QED
    BY <2>1 DEF BatchesHeld
<1>2. ASSUME NEW w \in Worker, WorkerStep(w)
      PROVE  BatchesHeld'
  <2>0. \A v \in Worker \ {w} : pc'[v] = pc[v] /\ lag'[v] = lag[v]
    BY <1>2, WorkerFrame
  <2>1. CASE ClaimOverdue(w)
    <3> DEFINE batch == {a \in Action : Overdue(a)}
    <3>1. /\ status' = [a \in Action |-> IF a \in batch THEN "rollback_running" ELSE status[a]]
          /\ claim' = [a \in Action |-> IF a \in batch THEN w ELSE claim[a]]
          /\ claimAge' = [a \in Action |-> IF a \in batch THEN 0 ELSE claimAge[a]]
          /\ todo' = [todo EXCEPT ![w] = batch]
          /\ pc' = [pc EXCEPT ![w] = "batch"]
          /\ lag' = lag
      BY <2>1 DEF ClaimOverdue
    <3>2. ASSUME NEW v \in Worker, NEW a \in todo[v] PROVE a \notin batch
      <4>1. status[a] = "rollback_running" /\ claimAge[a] < LockTTL /\ a \in Action
        BY DEF BatchesHeld, LagsBounded, FasterThanLeases
      <4> QED
        BY <4>1 DEF Overdue, Stale, Eligible
    <3>3. batch \subseteq Action
      OBVIOUS
    <3> HIDE DEF batch
    <3>4. ASSUME NEW v \in Worker \ {w}, NEW a \in todo'[v]
          PROVE  /\ pc'[v] # "idle" /\ status'[a] = "rollback_running"
                 /\ claim'[a] = v /\ claimAge'[a] <= lag'[v]
      <4>1. a \in todo[v] /\ a \in Action /\ a \notin batch
        BY <3>1, <3>2
      <4> QED
        BY <2>0, <3>1, <4>1 DEF BatchesHeld
    <3>5. ASSUME NEW a \in todo'[w]
          PROVE  /\ pc'[w] # "idle" /\ status'[a] = "rollback_running"
                 /\ claim'[a] = w /\ claimAge'[a] <= lag'[w]
      BY <3>1, <3>3, <3>5
    <3> QED
      BY <3>4, <3>5 DEF BatchesHeld
  <2>2. CASE CallInverse(w) \/ \E a \in Action : LockForRollback(w, a) \/ LockedOut(w, a)
    <3>1. UNCHANGED <<status, claim, claimAge, todo, lag>> /\ pc'[w] # "idle"
      BY <2>2 DEF CallInverse, LockForRollback, LockedOut, Start, Report, row
    <3> QED
      BY <2>0, <3>1 DEF BatchesHeld
  <2>3. CASE Settle(w)
    <3> DEFINE a == job[w]
    <3>1. a \in todo[w] /\ a \in Action
      BY <2>3 DEF Settle, BatchesOverdue
    <3>2. /\ UNCHANGED <<claim, claimAge>> /\ todo' = [todo EXCEPT ![w] = @ \ {a}]
          /\ \A b \in Action \ {a} : status'[b] = status[b]
      BY <2>3 DEF Settle
    <3>3. todo[w] # {a} => pc'[w] = "batch" /\ lag' = lag
      BY <2>3 DEF Settle
    <3> HIDE DEF a
    <3>4. ASSUME NEW v \in Worker, NEW b \in todo'[v]
          PROVE  /\ b \in todo[v] /\ b \in Action \ {a}
                 /\ pc'[v] # "idle" /\ lag'[v] = lag[v]
      <4>1. b \in todo[v] /\ b \in Action
        BY <3>2
      <4>2. CASE v = w
        BY <3>1, <3>2, <3>3, <4>1, <4>2
      <4>3. CASE v # w
        BY <2>0, <3>1, <4>1, <4>3 DEF BatchesHeld
      <4> QED
        BY <4>2, <4>3
    <3> QED
      BY <3>2, <3>4 DEF BatchesHeld
  <2> QED
    BY <1>2, <2>1, <2>2, <2>3 DEF WorkerStep
<1>3. ASSUME NEW p \in Process, Crash(p)
      PROVE  BatchesHeld'
  <2>1. /\ UNCHANGED <<status, claim, claimAge>>
        /\ \A w \in Worker : todo'[w] = IF w = p THEN {} ELSE todo[w]
        /\ \A w \in Worker \ {p} : pc'[w] = pc[w] /\ lag'[w] = lag[w]
    BY <1>3 DEF Crash, Stop, row
  <2> QED
    BY <2>1 DEF BatchesHeld
<1>4. CASE Tick
  <2>1. /\ UNCHANGED <<status, claim, todo, pc>>
        /\ \A w \in Worker : pc[w] # "idle" => lag'[w] = lag[w] + 1
    BY <1>4 DEF Tick
  <2>2. \A a \in Action : claimAge'[a] <= claimAge[a] + 1
    BY <1>4 DEF Tick, Saturated
  <2>3. \A a \in Action : claimAge[a] \in Int /\ claimAge'[a] \in Int
    BY <1>4 DEF Tick, Saturated
  <2>4. ASSUME NEW w \in Worker, NEW a \in todo[w], claimAge[a] <= lag[w], pc[w] # "idle"
        PROVE  claimAge'[a] <= lag'[w]
    BY <2>1, <2>2, <2>3, <2>4
  <2> QED
    BY <2>1, <2>4 DEF BatchesHeld
<1>5. CASE UNCHANGED vars
  BY <1>5 DEF vars, procs, row, BatchesHeld
<1> QED
  BY <1>1, <1>2, <1>3, <1>4, <1>5 DEF Next, Starts

\* An inverse call is counted when its worker settles the row: until then, or for
\* good when it succeeded, the count is one behind.  Each crash may lose one more.
Undone(a) == \/ status[a] = "rolled_back"
             \/ \E w \in Worker : pc[w] = "settling" /\ job[w] = a /\ result[w] # "locked_out"
Counted(a) == \/ undos[a] <= retries[a] + crashes
              \/ undos[a] <= retries[a] + 1 + crashes /\ Undone(a)
AttemptsCounted ==
    \A a \in Action : Counted(a) /\ (status[a] = "rolled_back" => retries[a] <= MaxRetries)

\* Nobody else has a row that a worker has in hand.
LEMMA InOneHand ==
  ASSUME RInv, BatchesHeld, NEW v \in Worker, NEW w \in Worker,
         pc[v] = "settling", pc[w] \in {"undoing", "settling"}, job[v] = job[w]
  PROVE  v = w
<1>1. job[v] \in todo[v] /\ job[w] \in todo[w]
  BY DEF RInv, BatchesOverdue
<1> QED
  BY <1>1 DEF BatchesHeld

LEMMA AttemptsStep ==
  ASSUME RInv, BatchesHeld, AttemptsCounted, [Next]_vars
  PROVE  AttemptsCounted'
<1>0. /\ crashes \in Nat /\ retries \in [Action -> Nat] /\ undos \in [Action -> Nat]
      /\ status \in [Action -> Status] /\ pc \in [Process -> Pc]
      /\ \A p \in Process : pc[p] \notin {"idle", "batch"} => job[p] \in Action
  BY BoundAssumption DEF RInv, IInv, RowsTyped, ProcsTyped, OthersTyped
<1>1. ASSUME NEW e \in Executor, ExecutorStep(e) \/ Starts(e)
      PROVE  AttemptsCounted'
  <2>1. /\ UNCHANGED <<retries, undos, crashes>>
        /\ \A w \in Worker : pc'[w] = pc[w] /\ job'[w] = job[w] /\ result'[w] = result[w]
    BY <1>1, ExecutorFrame, ShapeAssumption DEF RInv, Process
  <2>2. \A a \in Action : /\ status'[a] = "rolled_back" => status[a] = "rolled_back"
                          /\ status[a] = "rolled_back" => status'[a] = "rolled_back"
    BY <1>1, ExecutorFrame DEF RInv, Before, Contained
  <2>3. \A a \in Action : Undone(a) => Undone(a)'
    BY <2>1, <2>2 DEF Undone
  <2> QED
    BY <2>1, <2>2, <2>3 DEF AttemptsCounted, Counted
<1>2. ASSUME NEW w \in Worker, WorkerStep(w)
      PROVE  AttemptsCounted'
  <2>0. /\ \A v \in Worker \ {w} : pc'[v] = pc[v] /\ job'[v] = job[v] /\ result'[v] = result[v]
        /\ crashes' = crashes
    BY <1>2, WorkerFrame DEF RInv, Process
  <2>1. CASE ClaimOverdue(w) \/ \E a \in Action : LockForRollback(w, a) \/ LockedOut(w, a)
    <3>1. UNCHANGED <<retries, undos>> /\ pc[w] # "settling"
      BY <2>1 DEF ClaimOverdue, LockForRollback, LockedOut, row, world
    <3>2. \A a \in Action : /\ status'[a] = "rolled_back" => status[a] = "rolled_back"
                            /\ status[a] = "rolled_back" => status'[a] = "rolled_back"
      BY <2>1 DEF ClaimOverdue, Overdue, Stale, Eligible, LockForRollback, LockedOut, row
    <3>3. \A a \in Action : Undone(a) => Undone(a)'
      BY <2>0, <3>1, <3>2 DEF Undone
    <3> QED
      BY <2>0, <3>1, <3>2, <3>3 DEF AttemptsCounted, Counted
  <2>2. CASE CallInverse(w)
    <3>0. PICK a \in Action : a = job[w]
      BY <1>0, <2>2 DEF CallInverse, Process
    <3>1. /\ pc[w] = "undoing" /\ pc'[w] = "settling" /\ job'[w] = a
          /\ result'[w] # "locked_out"
          /\ UNCHANGED <<status, retries>>
      BY <1>0, <2>2, <3>0 DEF CallInverse, Report, row, RInv, IInv, ProcsTyped, Process
    <3>2. undos'[a] \in Nat /\ undos'[a] <= undos[a] + 1
      BY <1>0, <2>2, <3>0, BoundAssumption DEF CallInverse, Saturated
    <3>3. \A b \in Action \ {a} : undos'[b] = undos[b]
      BY <1>0, <2>2, <3>0 DEF CallInverse
    <3>4. ~Undone(a)
      <4>1. status[a] = "rollback_running"
        BY <3>0, <3>1 DEF RInv, BatchesOverdue, BatchesHeld
      <4>2. \A v \in Worker : ~(pc[v] = "settling" /\ job[v] = a)
        BY <3>0, <3>1, InOneHand
      <4> QED
        BY <4>1, <4>2 DEF Undone
    <3>5. undos'[a] <= retries[a] + 1 + crashes
      BY <1>0, <3>2, <3>4 DEF AttemptsCounted, Counted
    <3>6. Counted(a)'
      BY <2>0, <3>1, <3>5 DEF Counted, Undone
    <3>7. ASSUME NEW b \in Action \ {a} PROVE Counted(b)'
      <4>1. Undone(b) => Undone(b)'
        BY <2>0, <3>0, <3>1 DEF Undone
      <4> QED
        BY <2>0, <3>1, <3>3, <4>1 DEF AttemptsCounted, Counted
    <3>8. \A b \in Action : Counted(b)'
      BY <3>6, <3>7
    <3> QED
      BY <3>1, <3>8 DEF AttemptsCounted
  <2>3. CASE Settle(w)
    <3>0. PICK a \in Action : a = job[w]
      BY <1>0, <2>3 DEF Settle, Process
    <3>1. pc[w] = "settling" /\ a \in todo[w]
      BY <2>3, <3>0 DEF Settle, RInv, BatchesOverdue
    <3>2. status[a] = "rollback_running" /\ Holds(w, a)
      BY <3>1 DEF BatchesHeld, Holds
    <3>3. retries[a] <= MaxRetries
      BY <3>2 DEF RInv, OthersTyped, Final
    <3>4. PICK n : n = Spent(result[w], retries[a])
      OBVIOUS
    <3>5. /\ status' = [status EXCEPT ![a] = Verdict(result[w], n)]
          /\ retries' = [retries EXCEPT ![a] = n]
          /\ undos' = undos
      BY <2>3, <3>0, <3>2, <3>4 DEF Settle, world
    <3>6. undos[a] <= retries[a] + 1 + crashes
      BY <1>0 DEF AttemptsCounted, Counted
    <3>7. Counted(a)' /\ (status'[a] = "rolled_back" => retries'[a] <= MaxRetries)
      <4>1. CASE result[w] = "success"
        <5>1. status'[a] = "rolled_back" /\ retries'[a] = retries[a]
          BY <1>0, <3>4, <3>5, <4>1 DEF Spent, Verdict
        <5> QED
          BY <2>0, <3>3, <3>5, <3>6, <5>1 DEF Counted, Undone
      <4>2. CASE result[w] # "success"
        <5>1. status'[a] # "rolled_back" /\ retries'[a] = retries[a] + 1
          BY <1>0, <3>4, <3>5, <4>2 DEF Spent, Verdict
        <5> QED
          BY <2>0, <3>5, <3>6, <5>1 DEF Counted
      <4> QED
        BY <4>1, <4>2
    <3>8. ASSUME NEW b \in Action \ {a}
          PROVE  Counted(b)' /\ (status'[b] = "rolled_back" => retries'[b] <= MaxRetries)
      <4>1. status'[b] = status[b] /\ retries'[b] = retries[b]
        BY <1>0, <3>5
      <4>2. Undone(b) => Undone(b)'
        BY <2>0, <3>0, <4>1 DEF Undone
      <4> QED
        BY <2>0, <3>5, <4>1, <4>2 DEF AttemptsCounted, Counted
    <3>9. \A b \in Action : Counted(b)' /\ (status'[b] = "rolled_back" => retries'[b] <= MaxRetries)
      BY <3>7, <3>8
    <3> QED
      BY <3>9 DEF AttemptsCounted
  <2> QED
    BY <1>2, <2>1, <2>2, <2>3 DEF WorkerStep
<1>3. ASSUME NEW p \in Process, Crash(p)
      PROVE  AttemptsCounted'
  <2>1. UNCHANGED <<status, retries, undos>> /\ crashes' = crashes + 1
    BY <1>3 DEF Crash, row, world
  <2>2. \A a \in Action : undos[a] <= retries[a] + 1 + crashes
    BY <1>0 DEF AttemptsCounted, Counted
  <2> QED
    BY <1>0, <2>1, <2>2 DEF AttemptsCounted, Counted
<1>4. CASE Tick \/ UNCHANGED vars
  BY <1>4 DEF Tick, vars, procs, row, world, AttemptsCounted, Counted, Undone
<1> QED
  BY <1>1, <1>2, <1>3, <1>4 DEF Next, Starts

AInv == RInv /\ LagsBounded /\ BatchesHeld /\ AttemptsCounted

LEMMA AttemptsInvariance ==
  ASSUME FasterThanLeases
  PROVE  Spec => []AInv
<1>1. Init => BatchesHeld /\ AttemptsCounted
  BY BoundAssumption DEF Init, BatchesHeld, AttemptsCounted, Counted
<1>2. AInv /\ [Next]_vars => BatchesHeld' /\ AttemptsCounted'
  BY HeldStep, AttemptsStep, FasterThanLeases DEF AInv
<1> QED
  BY RecoveryInvariance, LagsInvariance, <1>1, <1>2, PTL DEF Spec, AInv

\* The inverse of an action is sent at most once per attempt the budget allows, and
\* once more for every process that died.
CrashesCostOneAttempt == \A a \in Action : undos[a] <= MaxRetries + 1 + crashes

THEOREM AttemptsPerCrash ==
  ASSUME FasterThanLeases
  PROVE  Spec => []CrashesCostOneAttempt
<1>1. AInv => CrashesCostOneAttempt
  <2> SUFFICES ASSUME AInv, NEW a \in Action
               PROVE  undos[a] <= MaxRetries + 1 + crashes
    BY DEF CrashesCostOneAttempt
  <2> USE BoundAssumption DEF AInv, RInv, OthersTyped
  <2>1. crashes \in Nat /\ retries[a] \in 0 .. MaxRetries + 1 /\ undos[a] \in Nat
    OBVIOUS
  <2>2. CASE undos[a] <= retries[a] + crashes
    BY <2>1, <2>2
  <2>3. CASE undos[a] <= retries[a] + 1 + crashes /\ Undone(a)
    <3>1. retries[a] <= MaxRetries
      <4>1. CASE status[a] = "rolled_back"
        BY <4>1 DEF AttemptsCounted
      <4>2. ASSUME NEW w \in Worker, pc[w] = "settling", job[w] = a
            PROVE  status[a] \notin Final
        BY <4>2 DEF BatchesOverdue, BatchesHeld, Final
      <4> QED
        BY <2>3, <4>1, <4>2 DEF Undone
    <3> QED
      BY <2>1, <2>3, <3>1
  <2> QED
    BY <2>2, <2>3 DEF AttemptsCounted, Counted
<1> QED
  BY AttemptsInvariance, <1>1, PTL

\* Without a crash the budget bounds the calls of the recovery.
THEOREM AttemptsAreBounded ==
  ASSUME FasterThanLeases, MaxCrashes = 0
  PROVE  Spec => []RollbackAttemptsBounded
<1>1. RInv /\ CrashesCostOneAttempt => RollbackAttemptsBounded
  <2> SUFFICES ASSUME RInv, CrashesCostOneAttempt
               PROVE  RollbackAttemptsBounded
    OBVIOUS
  <2>1. crashes = 0
    BY DEF RInv, OthersTyped
  <2> QED
    BY <2>1, BoundAssumption DEF CrashesCostOneAttempt, RollbackAttemptsBounded
<1> QED
  BY RecoveryInvariance, AttemptsPerCrash, <1>1, PTL

-----------------------------------------------------------------------------
(* Turns: what a call or a stop leaves behind, and who asked for it.       *)

\* Outside "tools" no call is under way.
CallsInTools == \A t \in Turn : at[t] # "tools" => \A c \in Call : call[t][c].pc = "none"
CallsAsk == \A t \in Turn : \A c \in Call : call[t][c].pc # "none" => call[t][c].query \in Query
OutcomesSeen == \A t \in Turn :
    /\ \A c \in Call : call[t][c].outcome \in seen[t] \cup {None}
    /\ \A k \in Tool : last[t][k] \in seen[t] \cup {None}
AnsweredAtEnd == \A t \in Turn :
    /\ answer[t] # None => at[t] = "done"
    /\ at[t] \in {"new", "client"} => evidence[t] = {}
Budgets == \A t \in Turn : used[t] = Cardinality(Turns!Executing(t)) + spent[t] /\ used[t] <= Limit

\* Where turns follow each other and the client is built, the registered event is the
\* running turn's own, and it is set only by someone who asked while the turn ran.
Alone == ~Overlapping /\ ~ClientFails
EventIsOwn == Alone => \A t \in Turn :
    /\ Turns!Running(t) <=> registered = t
    /\ Turns!Running(t) => event[t] = t
    /\ at[t] = "new" => t \notin signalled
StopsWereAsked == Alone => \A t \in Turn :
    /\ Turns!Running(t) /\ t \in signalled => t \in asked
    /\ "stopped" \in seen[t] => t \in asked
    /\ answer[t] = "user_stopped" => t \in asked

TurnInv ==
    /\ Turns!TypeOK /\ CallsInTools /\ CallsAsk /\ OutcomesSeen /\ AnsweredAtEnd /\ Budgets
    /\ Turns!CompleteMeansAnswered /\ Turns!EvidenceSurvivesInterruption
    /\ EventIsOwn /\ StopsWereAsked

CallPc == {"none", "check", "lookup", "reserve", "execute", "over"}

\* The turns' finite sets are the sets the library's theorems are about.
LEMMA SameFinite == \A S : Turns!IsFiniteSet(S) <=> IsFiniteSet(S)
  BY DEF IsFiniteSet, Turns!IsFiniteSet
LEMMA SameCount == \A S : Turns!Cardinality(S) = Cardinality(S)
  BY DEF Cardinality, Turns!Cardinality

\* A call c of turn t reaches p with outcome o, and no other call moves.
CallAt(t, c, p, o) ==
    /\ call' \in [Turn -> [Call -> Turns!CallRecord]]
    /\ call'[t][c].pc = p /\ call'[t][c].outcome = o /\ call'[t][c].query = call[t][c].query
    /\ \A d \in Call : d # c => call'[t][d] = call[t][d]
    /\ \A u \in Turn : u # t => call'[u] = call[u]
\* What turn t has seen grows by the outcomes O.
SeenGrows(t, O) ==
    /\ seen' \in [Turn -> SUBSET Turns!Outcome]
    /\ seen'[t] = seen[t] \cup O
    /\ \A u \in Turn : u # t => seen'[u] = seen[u]

LEMMA CallBecomes ==
  ASSUME Turns!TypeOK, NEW t \in Turn, NEW c \in Call, NEW p \in CallPc, Turns!Becomes(t, c, p)
  PROVE  CallAt(t, c, p, call[t][c].outcome)
<1>1. PICK r : r = [call[t][c] EXCEPT !.pc = p]
  OBVIOUS
<1>2. call[t][c] \in Turns!CallRecord /\ call \in [Turn -> [Call -> Turns!CallRecord]]
  BY DEF Turns!TypeOK
<1>3. r \in Turns!CallRecord /\ r.pc = p /\ r.outcome = call[t][c].outcome
      /\ r.query = call[t][c].query
  BY <1>1, <1>2 DEF Turns!CallRecord, CallPc
<1>4. PICK f : f = [call[t] EXCEPT ![c] = r]
  OBVIOUS
<1>5. f \in [Call -> Turns!CallRecord] /\ f[c] = r /\ \A d \in Call : d # c => f[d] = call[t][d]
  BY <1>2, <1>3, <1>4
<1>6. call' = [call EXCEPT ![t] = f]
  BY <1>1, <1>4 DEF Turns!Becomes
<1> QED
  BY <1>2, <1>3, <1>5, <1>6 DEF CallAt

LEMMA CallSettles ==
  ASSUME Turns!TypeOK, NEW t \in Turn, NEW c \in Call, NEW o \in Turns!Outcome,
         Turns!Settles(t, c, o)
  PROVE  CallAt(t, c, "over", o) /\ SeenGrows(t, {o})
<1>1. PICK r : r = [call[t][c] EXCEPT !.pc = "over", !.outcome = o]
  OBVIOUS
<1>2. call[t][c] \in Turns!CallRecord /\ call \in [Turn -> [Call -> Turns!CallRecord]]
  BY DEF Turns!TypeOK
<1>3. r \in Turns!CallRecord /\ r.pc = "over" /\ r.outcome = o
      /\ r.query = call[t][c].query
  BY <1>1, <1>2 DEF Turns!CallRecord
<1>4. PICK f : f = [call[t] EXCEPT ![c] = r]
  OBVIOUS
<1>5. f \in [Call -> Turns!CallRecord] /\ f[c] = r /\ \A d \in Call : d # c => f[d] = call[t][d]
  BY <1>2, <1>3, <1>4
<1>6. call' = [call EXCEPT ![t] = f]
  BY <1>1, <1>2, <1>4 DEF Turns!Settles
<1>7. CallAt(t, c, "over", o)
  BY <1>2, <1>3, <1>5, <1>6 DEF CallAt
<1>8. SeenGrows(t, {o})
  BY DEF SeenGrows, Turns!Settles, Turns!TypeOK
<1> QED
  BY <1>7, <1>8

\* What the four steps of a call have in common.
Elsewhere(t) ==
    /\ UNCHANGED <<registered, signalled, asked, at, event, rounds, last, spoke, draft, answer>>
    /\ cache' \in [Turn -> SUBSET Query] /\ evidence' \in [Turn -> SUBSET Query]
    /\ \A u \in Turn : u # t => evidence'[u] = evidence[u]
Moves(t, c, p, o, S) ==
    /\ CallAt(t, c, p, o) /\ SeenGrows(t, S) /\ Elsewhere(t)
    /\ p \in CallPc \ {"none"} /\ S \subseteq Turns!Outcome /\ o \in S \cup {call[t][c].outcome}
    /\ call[t][c].pc # "none" /\ ("stopped" \in S => event[t] \in signalled)

LEMMA NothingSeen ==
  ASSUME Turns!TypeOK, NEW t \in Turn, UNCHANGED seen
  PROVE  SeenGrows(t, {})
BY DEF SeenGrows, Turns!TypeOK

LEMMA NothingGathered ==
  ASSUME Turns!TypeOK, NEW t \in Turn, UNCHANGED <<cache, evidence>>,
         UNCHANGED <<registered, signalled, asked, at, event, rounds, last, spoke, draft, answer>>
  PROVE  Elsewhere(t)
BY DEF Elsewhere, Turns!TypeOK

LEMMA CheckMoves ==
  ASSUME Turns!TypeOK, NEW t \in Turn, NEW c \in Call, Turns!Check(t, c)
  PROVE  (\E p, o, S : Moves(t, c, p, o, S)) /\ call[t][c].pc = "check" /\ UNCHANGED <<used, spent>>
         /\ call'[t][c].pc \in {"over", "lookup"}
<1>1. /\ call[t][c].pc = "check" /\ UNCHANGED <<used, spent, cache, evidence>>
      /\ UNCHANGED <<registered, signalled, asked, at, event, rounds, last, spoke, draft, answer>>
  BY DEF Turns!Check, Turns!stops
<1>2. Elsewhere(t)
  BY <1>1, NothingGathered
<1>3. CASE Turns!Stopped(t)
  <2>1. CallAt(t, c, "over", "stopped") /\ SeenGrows(t, {"stopped"})
    <3>1. Turns!Settles(t, c, "stopped")
      BY <1>3 DEF Turns!Check
    <3> QED
      BY <3>1, CallSettles DEF Turns!Outcome
  <2>2. Moves(t, c, "over", "stopped", {"stopped"})
    BY <1>1, <1>2, <1>3, <2>1 DEF Moves, CallPc, Turns!Outcome, Turns!Stopped
  <2> QED
    BY <1>1, <2>1, <2>2 DEF CallAt
<1>4. CASE ~Turns!Stopped(t)
  <2>1. CallAt(t, c, "lookup", call[t][c].outcome) /\ SeenGrows(t, {})
    <3>1. Turns!Becomes(t, c, "lookup") /\ UNCHANGED seen
      BY <1>4 DEF Turns!Check
    <3> QED
      BY <3>1, CallBecomes, NothingSeen DEF CallPc
  <2>2. Moves(t, c, "lookup", call[t][c].outcome, {})
    BY <1>1, <1>2, <2>1 DEF Moves, CallPc
  <2> QED
    BY <1>1, <2>1, <2>2 DEF CallAt
<1> QED
  BY <1>3, <1>4

LEMMA LookupMoves ==
  ASSUME Turns!TypeOK, NEW t \in Turn, NEW c \in Call, Turns!Lookup(t, c)
  PROVE  (\E p, o, S : Moves(t, c, p, o, S)) /\ call[t][c].pc = "lookup" /\ UNCHANGED <<used, spent>>
         /\ call'[t][c].pc \in {"over", "reserve"}
<1>1. /\ call[t][c].pc = "lookup" /\ UNCHANGED <<used, spent, cache, evidence>>
      /\ UNCHANGED <<registered, signalled, asked, at, event, rounds, last, spoke, draft, answer>>
  BY DEF Turns!Lookup, Turns!stops
<1>2. Elsewhere(t)
  BY <1>1, NothingGathered
<1>3. CASE Turns!Settles(t, c, "cache_hit")
  <2>1. CallAt(t, c, "over", "cache_hit") /\ SeenGrows(t, {"cache_hit"})
    BY <1>3, CallSettles DEF Turns!Outcome
  <2>2. Moves(t, c, "over", "cache_hit", {"cache_hit"})
    BY <1>1, <1>2, <2>1 DEF Moves, CallPc, Turns!Outcome
  <2> QED
    BY <1>1, <2>1, <2>2 DEF CallAt
<1>4. CASE Turns!Becomes(t, c, "reserve") /\ UNCHANGED seen
  <2>1. CallAt(t, c, "reserve", call[t][c].outcome) /\ SeenGrows(t, {})
    BY <1>4, CallBecomes, NothingSeen DEF CallPc
  <2>2. Moves(t, c, "reserve", call[t][c].outcome, {})
    BY <1>1, <1>2, <2>1 DEF Moves, CallPc
  <2> QED
    BY <1>1, <2>1, <2>2 DEF CallAt
<1> QED
  BY <1>3, <1>4 DEF Turns!Lookup

LEMMA ReserveMoves ==
  ASSUME Turns!TypeOK, NEW t \in Turn, NEW c \in Call, Turns!Reserve(t, c)
  PROVE  /\ \E p, o, S : Moves(t, c, p, o, S)
         /\ call[t][c].pc = "reserve" /\ UNCHANGED spent
         /\ \/ UNCHANGED used /\ call'[t][c].pc = "over"
            \/ used[t] < Limit /\ used' = [used EXCEPT ![t] = @ + 1] /\ call'[t][c].pc = "execute"
<1>1. /\ call[t][c].pc = "reserve" /\ UNCHANGED <<spent, cache, evidence>>
      /\ UNCHANGED <<registered, signalled, asked, at, event, rounds, last, spoke, draft, answer>>
  BY DEF Turns!Reserve, Turns!stops
<1>2. Elsewhere(t)
  BY <1>1, NothingGathered
<1>3. CASE Turns!Settles(t, c, "rejected") /\ UNCHANGED used
  <2>1. CallAt(t, c, "over", "rejected") /\ SeenGrows(t, {"rejected"})
    BY <1>3, CallSettles DEF Turns!Outcome
  <2>2. Moves(t, c, "over", "rejected", {"rejected"})
    BY <1>1, <1>2, <2>1 DEF Moves, CallPc, Turns!Outcome
  <2> QED
    BY <1>1, <1>3, <2>1, <2>2 DEF CallAt
<1>4. CASE ~Turns!Full(t) /\ Turns!Becomes(t, c, "execute") /\ used' = [used EXCEPT ![t] = @ + 1]
           /\ UNCHANGED seen
  <2>1. CallAt(t, c, "execute", call[t][c].outcome) /\ SeenGrows(t, {})
    BY <1>4, CallBecomes, NothingSeen DEF CallPc
  <2>2. Moves(t, c, "execute", call[t][c].outcome, {})
    BY <1>1, <1>2, <2>1 DEF Moves, CallPc
  <2>3. used[t] < Limit
    BY <1>4, TurnAssumption DEF Turns!Full, Turns!TypeOK, Turns!LimitAssumption
  <2> QED
    BY <1>1, <1>4, <2>1, <2>2, <2>3 DEF CallAt
<1> QED
  BY <1>3, <1>4 DEF Turns!Reserve

LEMMA ExecuteMoves ==
  ASSUME Turns!TypeOK, CallsAsk, NEW t \in Turn, NEW c \in Call, Turns!Execute(t, c)
  PROVE  /\ \E p, o, S : Moves(t, c, p, o, S)
         /\ call[t][c].pc = "execute" /\ call'[t][c].pc = "over"
         /\ \E r \in {0, 1} : /\ used' = [used EXCEPT ![t] = @ - r]
                              /\ spent' = [spent EXCEPT ![t] = @ + (1 - r)]
<1>1. PICK o \in {"success", "validation", "failure"} :
        /\ Turns!Settles(t, c, o)
        /\ used' = [used EXCEPT ![t] = @ - Turns!Refund(o)]
        /\ spent' = [spent EXCEPT ![t] = @ + (IF o = "validation" THEN 0 ELSE 1)]
        /\ cache' = [cache EXCEPT ![t] = IF o = "success" THEN @ \cup {call[t][c].query} ELSE @]
        /\ evidence' = [evidence EXCEPT ![t] = IF o = "success" THEN @ \cup {call[t][c].query} ELSE @]
  BY DEF Turns!Execute
<1>2. call[t][c].pc = "execute"
      /\ UNCHANGED <<registered, signalled, asked, at, event, rounds, last, spoke, draft, answer>>
  BY DEF Turns!Execute, Turns!stops
<1>3. CallAt(t, c, "over", o) /\ SeenGrows(t, {o})
  BY <1>1, CallSettles DEF Turns!Outcome
<1>4. Elsewhere(t)
  <2>1. call[t][c].query \in Query
    BY <1>2 DEF CallsAsk
  <2> QED
    BY <1>1, <1>2, <2>1 DEF Elsewhere, Turns!TypeOK
<1>5. Moves(t, c, "over", o, {o})
  BY <1>1, <1>2, <1>3, <1>4 DEF Moves, CallPc, Turns!Outcome
<1>6. \E r \in {0, 1} : used' = [used EXCEPT ![t] = @ - r] /\ spent' = [spent EXCEPT ![t] = @ + (1 - r)]
  <2>1. CASE o = "validation"
    BY <1>1, <2>1 DEF Turns!Refund
  <2>2. CASE o # "validation"
    BY <1>1, <2>2 DEF Turns!Refund
  <2> QED
    BY <2>1, <2>2
<1> QED
  BY <1>2, <1>3, <1>5, <1>6 DEF CallAt

LEMMA CallMovesKeep ==
  ASSUME TurnInv, NEW t \in Turn, NEW c \in Call, NEW p, NEW o, NEW S, Moves(t, c, p, o, S)
  PROVE  /\ CallsInTools' /\ CallsAsk' /\ OutcomesSeen' /\ AnsweredAtEnd' /\ EventIsOwn'
         /\ StopsWereAsked' /\ Turns!CompleteMeansAnswered' /\ Turns!EvidenceSurvivesInterruption'
<1> USE TurnAssumption DEF Turns!NoneAssumption
<1>1. at[t] = "tools"
  BY DEF TurnInv, CallsInTools, Moves
<1>2. answer[t] = None
  BY <1>1 DEF TurnInv, AnsweredAtEnd
<1>3. /\ UNCHANGED <<registered, signalled, asked, at, event, rounds, last, spoke, draft, answer>>
      /\ \A u \in Turn : u # t => evidence'[u] = evidence[u]
  BY DEF Moves, Elsewhere
<1>4. /\ \A d \in Call : d # c => call'[t][d] = call[t][d]
      /\ \A u \in Turn : u # t => call'[u] = call[u]
      /\ call'[t][c].query = call[t][c].query /\ call[t][c].pc # "none"
      /\ call'[t][c].outcome = o /\ o \in S \cup {call[t][c].outcome}
  BY DEF Moves, CallAt
<1>5. seen'[t] = seen[t] \cup S /\ \A u \in Turn : u # t => seen'[u] = seen[u]
  BY DEF Moves, SeenGrows
<1>6. CallsInTools'
  BY <1>1, <1>3, <1>4 DEF TurnInv, CallsInTools
<1>7. CallsAsk'
  BY <1>4 DEF TurnInv, CallsAsk
<1>8. OutcomesSeen'
  <2>1. ASSUME NEW u \in Turn, NEW d \in Call
        PROVE  call'[u][d].outcome \in seen'[u] \cup {None}
    BY <1>4, <1>5 DEF TurnInv, OutcomesSeen
  <2>2. ASSUME NEW u \in Turn, NEW k \in Tool
        PROVE  last'[u][k] \in seen'[u] \cup {None}
    BY <1>3, <1>5 DEF TurnInv, OutcomesSeen
  <2> QED
    BY <2>1, <2>2 DEF OutcomesSeen
<1>9. AnsweredAtEnd'
  BY <1>1, <1>3 DEF TurnInv, AnsweredAtEnd
<1>10. EventIsOwn'
  BY <1>3 DEF TurnInv, EventIsOwn, Turns!Running
<1>11. StopsWereAsked'
  <2>1. ASSUME Alone, "stopped" \in S
        PROVE  t \in asked
    BY <1>1, <2>1 DEF TurnInv, EventIsOwn, StopsWereAsked, Turns!Running, Moves
  <2> QED
    BY <1>3, <1>5, <2>1 DEF TurnInv, StopsWereAsked, Turns!Running
<1>12. Turns!CompleteMeansAnswered'
  BY <1>3 DEF TurnInv, Turns!CompleteMeansAnswered
<1>13. Turns!EvidenceSurvivesInterruption'
  <2>1. answer'[t] # "raised"
    BY <1>2, <1>3 DEF Turns!Result
  <2> QED
    BY <1>3, <2>1 DEF TurnInv, Turns!EvidenceSurvivesInterruption
<1> QED
  BY <1>6, <1>7, <1>8, <1>9, <1>10, <1>11, <1>12, <1>13

LEMMA CallMovesTyped ==
  ASSUME Turns!TypeOK, NEW t \in Turn, NEW c \in Call, NEW p, NEW o, NEW S, Moves(t, c, p, o, S),
         used' \in [Turn -> Int], spent' \in [Turn -> Nat]
  PROVE  Turns!TypeOK'
BY DEF Moves, CallAt, SeenGrows, Elsewhere, Turns!TypeOK

\* The calls that execute, by what one call does.
LEMMA ExecutingMoves ==
  ASSUME Turns!TypeOK, NEW t \in Turn, NEW c \in Call, NEW p, NEW o, CallAt(t, c, p, o)
  PROVE  /\ IsFiniteSet(Turns!Executing(t))
         /\ p # "execute" /\ call[t][c].pc # "execute" => Turns!Executing(t)' = Turns!Executing(t)
         /\ p = "execute" /\ call[t][c].pc # "execute" =>
              Cardinality(Turns!Executing(t)') = Cardinality(Turns!Executing(t)) + 1
         /\ p # "execute" /\ call[t][c].pc = "execute" =>
              Cardinality(Turns!Executing(t)') = Cardinality(Turns!Executing(t)) - 1
         /\ \A u \in Turn : u # t => Turns!Executing(u)' = Turns!Executing(u)
<1>1. IsFiniteSet(Turns!Executing(t))
  <2>1. Turns!Executing(t) \subseteq Call
    BY DEF Turns!Executing
  <2>2. IsFiniteSet(Call)
    BY TurnAssumption, SameFinite DEF Turns!FiniteAssumption
  <2> QED
    BY <2>1, <2>2, FS_Subset
<1>2. /\ \A d \in Call : d # c => call'[t][d] = call[t][d]
      /\ \A u \in Turn : u # t => call'[u] = call[u] 
      /\ call'[t][c].pc = p
  BY DEF CallAt
<1>3. p = "execute" => Turns!Executing(t)' = Turns!Executing(t) \cup {c}
  BY <1>2 DEF Turns!Executing
<1>4. p # "execute" => Turns!Executing(t)' = Turns!Executing(t) \ {c}
  BY <1>2 DEF Turns!Executing
<1>5. c \in Turns!Executing(t) <=> call[t][c].pc = "execute"
  BY DEF Turns!Executing
<1>6. Cardinality(Turns!Executing(t)) \in Nat
  BY <1>1, FS_CardinalityType
<1>7. p = "execute" /\ call[t][c].pc # "execute" =>
        Cardinality(Turns!Executing(t)') = Cardinality(Turns!Executing(t)) + 1
  BY <1>1, <1>3, <1>5, FS_AddElement
<1>8. p # "execute" /\ call[t][c].pc = "execute" =>
        Cardinality(Turns!Executing(t)') = Cardinality(Turns!Executing(t)) - 1
  BY <1>1, <1>4, <1>5, FS_RemoveElement
<1>9. \A u \in Turn : u # t => Turns!Executing(u)' = Turns!Executing(u)
  BY <1>2 DEF Turns!Executing
<1> QED
  BY <1>1, <1>4, <1>5, <1>7, <1>8, <1>9

\* One budget that changes, by what one call adds to it.
LEMMA OneBudget ==
  ASSUME Budgets, NEW t \in Turn,
         used'[t] = Cardinality(Turns!Executing(t)') + spent'[t] /\ used'[t] <= Limit,
         \A u \in Turn : u # t => /\ Turns!Executing(u)' = Turns!Executing(u)
                                  /\ used'[u] = used[u] /\ spent'[u] = spent[u]
  PROVE  Budgets'
<1>1. ASSUME NEW u \in Turn
      PROVE  used'[u] = Cardinality(Turns!Executing(u)') + spent'[u] /\ used'[u] <= Limit
  <2>1. CASE u = t
    BY <2>1
  <2>2. CASE u # t
    BY <2>2 DEF Budgets
  <2> QED
    BY <2>1, <2>2
<1> QED
  BY <1>1 DEF Budgets

LEMMA CallKeepsBudgets ==
  ASSUME TurnInv, NEW t \in Turn, NEW c \in Call,
         Turns!Check(t, c) \/ Turns!Lookup(t, c) \/ Turns!Reserve(t, c) \/ Turns!Execute(t, c)
  PROVE  Budgets' /\ used' \in [Turn -> Int] /\ spent' \in [Turn -> Nat]
         /\ \E p, o, S : Moves(t, c, p, o, S)
<1>1. Turns!TypeOK /\ CallsAsk /\ Budgets
  BY DEF TurnInv
<1>2. PICK p, o, S : Moves(t, c, p, o, S)
  BY <1>1, CheckMoves, LookupMoves, ReserveMoves, ExecuteMoves
<1>3. CallAt(t, c, p, o) /\ p = call'[t][c].pc
  BY <1>2 DEF Moves, CallAt
<1>4. PICK n \in Nat : n = Cardinality(Turns!Executing(t))
  BY <1>1, <1>3, ExecutingMoves, FS_CardinalityType
<1>5. /\ used \in [Turn -> Int] /\ spent \in [Turn -> Nat] /\ Limit \in Nat
      /\ used[t] = n + spent[t] /\ used[t] <= Limit
  BY <1>1, <1>4, TurnAssumption DEF Turns!TypeOK, Turns!LimitAssumption, Budgets
<1>6. \A u \in Turn : u # t => Turns!Executing(u)' = Turns!Executing(u)
  BY <1>1, <1>3, ExecutingMoves
<1>7. CASE UNCHANGED <<used, spent>> /\ p # "execute" /\ call[t][c].pc # "execute"
  <2>1. Turns!Executing(t)' = Turns!Executing(t)
    BY <1>1, <1>3, <1>7, ExecutingMoves
  <2>2. used'[t] = Cardinality(Turns!Executing(t)') + spent'[t] /\ used'[t] <= Limit
    BY <1>4, <1>5, <1>7, <2>1
  <2>3. Budgets'
    BY <1>1, <1>6, <1>7, <2>2, OneBudget
  <2> QED
    BY <1>2, <1>5, <1>7, <2>3
<1>8. CASE /\ used[t] < Limit /\ used' = [used EXCEPT ![t] = @ + 1] /\ UNCHANGED spent
           /\ p = "execute" /\ call[t][c].pc # "execute"
  <2>1. used'[t] = used[t] + 1 /\ spent'[t] = spent[t]
        /\ \A u \in Turn : u # t => used'[u] = used[u] /\ spent'[u] = spent[u]
    BY <1>5, <1>8
  <2>2. Cardinality(Turns!Executing(t)') = n + 1
    BY <1>1, <1>3, <1>4, <1>8, ExecutingMoves
  <2>3. used'[t] = Cardinality(Turns!Executing(t)') + spent'[t] /\ used'[t] <= Limit
    BY <1>5, <1>8, <2>1, <2>2
  <2>4. Budgets'
    BY <1>1, <1>6, <2>1, <2>3, OneBudget
  <2> QED
    BY <1>2, <1>5, <1>8, <2>4
<1>9. CASE /\ p # "execute" /\ call[t][c].pc = "execute"
           /\ \E r \in {0, 1} : /\ used' = [used EXCEPT ![t] = @ - r]
                                /\ spent' = [spent EXCEPT ![t] = @ + (1 - r)]
  <2>1. PICK r \in {0, 1} : /\ used' = [used EXCEPT ![t] = @ - r]
                            /\ spent' = [spent EXCEPT ![t] = @ + (1 - r)]
    BY <1>9
  <2>2. used'[t] = used[t] - r /\ spent'[t] = spent[t] + (1 - r)
        /\ \A u \in Turn : u # t => used'[u] = used[u] /\ spent'[u] = spent[u]
    BY <1>5, <2>1
  <2>3. Cardinality(Turns!Executing(t)') = n - 1
    BY <1>1, <1>3, <1>4, <1>9, ExecutingMoves
  <2>4. used'[t] = Cardinality(Turns!Executing(t)') + spent'[t] /\ used'[t] <= Limit
    BY <1>5, <2>2, <2>3
  <2>5. Budgets'
    BY <1>1, <1>6, <2>2, <2>4, OneBudget
  <2> QED
    BY <1>2, <1>5, <2>1, <2>5
<1>10. CASE Turns!Check(t, c) \/ Turns!Lookup(t, c)
  BY <1>1, <1>3, <1>7, <1>10, CheckMoves, LookupMoves
<1>11. CASE Turns!Reserve(t, c)
  BY <1>1, <1>3, <1>7, <1>8, <1>11, ReserveMoves
<1>12. CASE Turns!Execute(t, c)
  BY <1>1, <1>3, <1>9, <1>12, ExecuteMoves
<1> QED
  BY <1>10, <1>11, <1>12

LEMMA CallStep ==
  ASSUME TurnInv, NEW t \in Turn, NEW c \in Call,
         Turns!Check(t, c) \/ Turns!Lookup(t, c) \/ Turns!Reserve(t, c) \/ Turns!Execute(t, c)
  PROVE  TurnInv'
<1>1. Budgets' /\ used' \in [Turn -> Int] /\ spent' \in [Turn -> Nat]
  BY CallKeepsBudgets
<1>2. PICK p, o, S : Moves(t, c, p, o, S)
  BY CallKeepsBudgets
<1>3. Turns!TypeOK'
  BY <1>1, <1>2, CallMovesTyped DEF TurnInv
<1> QED
  BY <1>1, <1>2, <1>3, CallMovesKeep DEF TurnInv

\* The steps of a turn that move no budget leave every count as it is.
LEMMA BudgetsStay ==
  ASSUME Budgets, UNCHANGED <<used, spent>>,
         \A u \in Turn : Turns!Executing(u)' = Turns!Executing(u)
  PROVE  Budgets'
BY DEF Budgets

LEMMA CallsStay ==
  ASSUME UNCHANGED call
  PROVE  \A u \in Turn : Turns!Executing(u)' = Turns!Executing(u)
BY DEF Turns!Executing

LEMMA StopStep == TurnInv /\ Turns!RequestStop => TurnInv'
<1> SUFFICES ASSUME TurnInv, Turns!RequestStop
             PROVE  TurnInv'
  OBVIOUS
<1>1. /\ registered # None /\ signalled' = signalled \cup {registered}
      /\ asked' = asked \cup {t \in Turn : Turns!Running(t)}
      /\ UNCHANGED <<registered, at, event, rounds, call, used, cache, evidence, spent, seen,
                     last, spoke, draft, answer>>
  BY DEF Turns!RequestStop, Turns!budget
<1>2. registered \in Turn
  BY <1>1 DEF TurnInv, Turns!TypeOK
<1>3. Turns!TypeOK'
  <2>1. signalled' \subseteq Turn /\ asked' \subseteq Turn
    BY <1>1, <1>2 DEF TurnInv, Turns!TypeOK
  <2> QED
    BY <1>1, <2>1 DEF TurnInv, Turns!TypeOK
<1>4. CallsInTools' /\ CallsAsk' /\ OutcomesSeen' /\ AnsweredAtEnd'
  BY <1>1 DEF TurnInv, CallsInTools, CallsAsk, OutcomesSeen, AnsweredAtEnd
<1>5. Budgets'
  BY <1>1, BudgetsStay, CallsStay DEF TurnInv
<1>6. Turns!CompleteMeansAnswered' /\ Turns!EvidenceSurvivesInterruption'
  BY <1>1 DEF TurnInv, Turns!CompleteMeansAnswered, Turns!EvidenceSurvivesInterruption
<1>7. \A t \in Turn : Turns!Running(t)' <=> Turns!Running(t)
  BY <1>1 DEF Turns!Running
<1>8. EventIsOwn'
  <2>1. ASSUME Alone, NEW t \in Turn, at[t] = "new"
        PROVE  t # registered
    BY <2>1, <1>1 DEF TurnInv, EventIsOwn, Turns!Running
  <2> QED
    BY <1>1, <1>7, <2>1 DEF TurnInv, EventIsOwn
<1>9. StopsWereAsked'
  BY <1>1, <1>7 DEF TurnInv, StopsWereAsked
<1> QED
  BY <1>3, <1>4, <1>5, <1>6, <1>8, <1>9 DEF TurnInv

LEMMA BeginStep == ASSUME TurnInv, NEW t \in Turn, Turns!Begin(t) PROVE TurnInv'
<1> USE TurnAssumption DEF Turns!NoneAssumption
<1>1. PICK e : e = Turns!EventFor(t)
  OBVIOUS
<1>2. /\ at[t] = "new" /\ (Overlapping \/ \A u \in Turn : ~Turns!Running(u))
      /\ registered' = e /\ event' = [event EXCEPT ![t] = e] /\ at' = [at EXCEPT ![t] = "client"]
      /\ UNCHANGED <<signalled, asked, rounds, call, used, cache, evidence, spent, seen,
                     last, spoke, draft, answer>>
  BY <1>1 DEF Turns!Begin, Turns!Goto, Turns!budget
<1>3. e \in Turn /\ (registered = None => e = t)
  BY <1>1 DEF TurnInv, Turns!TypeOK, Turns!EventFor
<1>4. /\ at'[t] = "client" /\ event'[t] = e
      /\ \A u \in Turn : u # t => at'[u] = at[u] /\ event'[u] = event[u]
  BY <1>2 DEF TurnInv, Turns!TypeOK
<1>5. Turns!TypeOK'
  <2>1. /\ registered' \in Turn \cup {None} /\ event' \in [Turn -> Turn \cup {None}]
        /\ at' \in [Turn -> {"new", "client", "model", "tools", "closing", "done"}]
    BY <1>2, <1>3 DEF TurnInv, Turns!TypeOK
  <2> QED
    BY <1>2, <2>1 DEF TurnInv, Turns!TypeOK
<1>6. CallsInTools' /\ CallsAsk' /\ OutcomesSeen'
  BY <1>2, <1>4 DEF TurnInv, CallsInTools, CallsAsk, OutcomesSeen
<1>7. AnsweredAtEnd'
  BY <1>2, <1>4 DEF TurnInv, AnsweredAtEnd
<1>8. Budgets'
  BY <1>2, BudgetsStay, CallsStay DEF TurnInv
<1>9. Turns!CompleteMeansAnswered' /\ Turns!EvidenceSurvivesInterruption'
  BY <1>2 DEF TurnInv, Turns!CompleteMeansAnswered, Turns!EvidenceSurvivesInterruption
<1>10. EventIsOwn' /\ StopsWereAsked'
  <2>1. SUFFICES ASSUME Alone
                 PROVE  EventIsOwn' /\ StopsWereAsked'
    BY DEF EventIsOwn, StopsWereAsked, Alone
  <2>2. /\ \A u \in Turn : ~Turns!Running(u) /\ registered # u
        /\ \A u \in Turn : at[u] = "new" => u \notin signalled
    BY <2>1, <1>2 DEF TurnInv, EventIsOwn, Alone
  <2>3. e = t
    BY <1>3, <2>2 DEF TurnInv, Turns!TypeOK
  <2>4. \A u \in Turn : Turns!Running(u)' <=> u = t
    BY <1>4, <2>2 DEF Turns!Running
  <2>5. EventIsOwn'
    BY <1>2, <1>4, <2>2, <2>3, <2>4 DEF EventIsOwn
  <2>6. StopsWereAsked'
    BY <1>2, <2>1, <2>2, <2>4 DEF TurnInv, StopsWereAsked
  <2> QED
    BY <2>5, <2>6
<1> QED
  BY <1>5, <1>6, <1>7, <1>8, <1>9, <1>10 DEF TurnInv

LEMMA ClientStep == ASSUME TurnInv, NEW t \in Turn, Turns!Client(t) PROVE TurnInv'
<1> USE TurnAssumption DEF Turns!NoneAssumption
<1>1. PICK p \in {"model", "done"} : at' = [at EXCEPT ![t] = p]
  BY DEF Turns!Client, Turns!Goto
<1>2. /\ at[t] = "client"
      /\ \/ p = "model" /\ UNCHANGED answer
         \/ p = "done" /\ ClientFails /\ answer' = [answer EXCEPT ![t] = "raised"]
      /\ UNCHANGED <<registered, signalled, asked, event, rounds, call, used, cache, evidence,
                     spent, seen, last, spoke, draft>>
  <2>1. t \in DOMAIN at /\ at \in [Turn -> {"new", "client", "model", "tools", "closing", "done"}]
    BY DEF TurnInv, Turns!TypeOK
  <2> QED
    BY <1>1, <2>1 DEF Turns!Client, Turns!Goto, Turns!stops, Turns!budget
<1>3. at'[t] = p /\ \A u \in Turn : u # t => at'[u] = at[u] /\ answer'[u] = answer[u]
  BY <1>1, <1>2 DEF TurnInv, Turns!TypeOK
<1>4. answer'[t] = answer[t] \/ (answer'[t] = "raised" /\ p = "done" /\ ClientFails)
  BY <1>2 DEF TurnInv, Turns!TypeOK
<1>5. evidence[t] = {} /\ answer[t] = None
  BY <1>2 DEF TurnInv, AnsweredAtEnd
<1>6. Turns!TypeOK'
  <2>1. /\ at' \in [Turn -> {"new", "client", "model", "tools", "closing", "done"}]
        /\ answer' \in [Turn -> Turns!Result \cup {None}]
    BY <1>1, <1>2 DEF TurnInv, Turns!TypeOK, Turns!Result
  <2> QED
    BY <1>2, <2>1 DEF TurnInv, Turns!TypeOK
<1>7. CallsInTools' /\ CallsAsk' /\ OutcomesSeen'
  BY <1>2, <1>3 DEF TurnInv, CallsInTools, CallsAsk, OutcomesSeen
<1>8. AnsweredAtEnd'
  BY <1>2, <1>3, <1>4, <1>5 DEF TurnInv, AnsweredAtEnd
<1>9. Budgets'
  BY <1>2, BudgetsStay, CallsStay DEF TurnInv
<1>10. Turns!CompleteMeansAnswered' /\ Turns!EvidenceSurvivesInterruption'
  <2>1. answer'[t] # "complete"
    BY <1>4, <1>5 DEF Turns!Result
  <2> QED
    BY <1>2, <1>3, <1>5, <2>1 DEF TurnInv, Turns!CompleteMeansAnswered,
       Turns!EvidenceSurvivesInterruption
<1>11. EventIsOwn' /\ StopsWereAsked'
  <2>1. SUFFICES ASSUME Alone
                 PROVE  EventIsOwn' /\ StopsWereAsked'
    BY DEF EventIsOwn, StopsWereAsked, Alone
  <2>2. p = "model" /\ UNCHANGED answer
    BY <1>2, <2>1 DEF Alone
  <2>3. \A u \in Turn : (Turns!Running(u)' <=> Turns!Running(u)) /\ (at'[u] = "new" => at[u] = "new")
    BY <1>2, <1>3, <2>2 DEF Turns!Running
  <2>4. EventIsOwn'
    BY <1>2, <2>3 DEF TurnInv, EventIsOwn
  <2>5. StopsWereAsked'
    BY <1>2, <2>2, <2>3 DEF TurnInv, StopsWereAsked
  <2> QED
    BY <2>4, <2>5
<1> QED
  BY <1>6, <1>7, <1>8, <1>9, <1>10, <1>11 DEF TurnInv

\* A round of calls begins: no call executed, and none does yet.
LEMMA ModelCallsStep == ASSUME TurnInv, NEW t \in Turn, Turns!ModelCalls(t) PROVE TurnInv'
<1> USE TurnAssumption DEF Turns!NoneAssumption
<1>1. PICK f : /\ call' = [call EXCEPT ![t] = f]
               /\ f \in [Call -> Turns!CallRecord]
               /\ \A c \in Call : /\ f[c].pc \in {"none", "check"} /\ f[c].outcome = None
                                  /\ f[c].pc # "none" => f[c].query \in Query
  <2>1. PICK C \in SUBSET Call : \E ask \in [C -> Query] :
          call' = [call EXCEPT ![t] =
                     [c \in Call |-> IF c \in C THEN [pc |-> "check", query |-> ask[c], outcome |-> None]
                                     ELSE Turns!NoCall]]
    BY DEF Turns!ModelCalls
  <2>2. PICK ask \in [C -> Query] :
          call' = [call EXCEPT ![t] =
                     [c \in Call |-> IF c \in C THEN [pc |-> "check", query |-> ask[c], outcome |-> None]
                                     ELSE Turns!NoCall]]
    BY <2>1
  <2>3. PICK f : f = [c \in Call |-> IF c \in C THEN [pc |-> "check", query |-> ask[c], outcome |-> None]
                                     ELSE Turns!NoCall]
    OBVIOUS
  <2>4. /\ f \in [Call -> Turns!CallRecord]
        /\ \A c \in Call : /\ f[c].pc \in {"none", "check"} /\ f[c].outcome = None
                           /\ f[c].pc # "none" => f[c].query \in Query
    BY <2>3 DEF Turns!NoCall, Turns!CallRecord
  <2> QED
    BY <2>2, <2>3, <2>4
<1>2. /\ at[t] = "model" /\ at' = [at EXCEPT ![t] = "tools"]
      /\ spoke' \in [Turn -> BOOLEAN]
      /\ UNCHANGED <<registered, signalled, asked, event, rounds, used, cache, evidence, spent,
                     seen, last, draft, answer>>
  BY DEF Turns!ModelCalls, Turns!Goto, Turns!stops, Turns!budget, TurnInv, Turns!TypeOK
<1>3. call'[t] = f /\ (\A u \in Turn : u # t => call'[u] = call[u])
      /\ call' \in [Turn -> [Call -> Turns!CallRecord]]
  BY <1>1 DEF TurnInv, Turns!TypeOK
<1>4. at'[t] = "tools" /\ \A u \in Turn : u # t => at'[u] = at[u]
  BY <1>2 DEF TurnInv, Turns!TypeOK
<1>5. Turns!TypeOK'
  <2>1. at' \in [Turn -> {"new", "client", "model", "tools", "closing", "done"}]
    BY <1>2 DEF TurnInv, Turns!TypeOK
  <2> QED
    BY <1>2, <1>3, <2>1 DEF TurnInv, Turns!TypeOK
<1>6. CallsInTools'
  BY <1>3, <1>4 DEF TurnInv, CallsInTools
<1>7. CallsAsk'
  BY <1>1, <1>3 DEF TurnInv, CallsAsk
<1>8. OutcomesSeen'
  BY <1>1, <1>2, <1>3 DEF TurnInv, OutcomesSeen
<1>9. AnsweredAtEnd'
  BY <1>2, <1>4 DEF TurnInv, AnsweredAtEnd
<1>10. Budgets'
  <2>1. Turns!Executing(t)' = {} /\ Turns!Executing(t) = {}
    BY <1>1, <1>2, <1>3 DEF Turns!Executing, TurnInv, CallsInTools
  <2>2. \A u \in Turn : u # t => Turns!Executing(u)' = Turns!Executing(u)
    BY <1>3 DEF Turns!Executing
  <2> QED
    BY <1>2, <2>1, <2>2, BudgetsStay DEF TurnInv
<1>11. Turns!CompleteMeansAnswered' /\ Turns!EvidenceSurvivesInterruption'
  BY <1>2 DEF TurnInv, Turns!CompleteMeansAnswered, Turns!EvidenceSurvivesInterruption
<1>12. EventIsOwn' /\ StopsWereAsked'
  <2>1. \A u \in Turn : (Turns!Running(u)' <=> Turns!Running(u)) /\ (at'[u] = "new" => at[u] = "new")
    BY <1>2, <1>4 DEF Turns!Running
  <2> QED
    BY <1>2, <2>1 DEF TurnInv, EventIsOwn, StopsWereAsked
<1> QED
  BY <1>5, <1>6, <1>7, <1>8, <1>9, <1>10, <1>11, <1>12 DEF TurnInv

LEMMA ModelEndsStep == ASSUME TurnInv, NEW t \in Turn, Turns!ModelEnds(t) PROVE TurnInv'
<1> USE TurnAssumption DEF Turns!NoneAssumption
<1>1. PICK d \in {"text", "empty", "exception", "recursion"} : draft' = [draft EXCEPT ![t] = d]
  BY DEF Turns!ModelEnds
<1>2. /\ at[t] = "model" /\ at' = [at EXCEPT ![t] = "closing"]
      /\ UNCHANGED <<registered, signalled, asked, event, rounds, call, used, cache, evidence, spent,
                     seen, last, spoke, answer>>
  BY DEF Turns!ModelEnds, Turns!Goto, Turns!stops, Turns!budget
<1>3. /\ at'[t] = "closing" /\ \A u \in Turn : u # t => at'[u] = at[u] /\ draft'[u] = draft[u]
  BY <1>1, <1>2 DEF TurnInv, Turns!TypeOK
<1>4. Turns!TypeOK'
  <2>1. at' \in [Turn -> {"new", "client", "model", "tools", "closing", "done"}]
    BY <1>2 DEF TurnInv, Turns!TypeOK
  <2>2. draft' \in [Turn -> {None, "text", "empty", "exception", "recursion"}]
    BY <1>1 DEF TurnInv, Turns!TypeOK
  <2> QED
    BY <1>2, <2>1, <2>2 DEF TurnInv, Turns!TypeOK
<1>5. CallsInTools' /\ CallsAsk' /\ OutcomesSeen'
  BY <1>2, <1>3 DEF TurnInv, CallsInTools, CallsAsk, OutcomesSeen
<1>6. AnsweredAtEnd'
  BY <1>2, <1>3 DEF TurnInv, AnsweredAtEnd
<1>7. Budgets'
  BY <1>2, BudgetsStay, CallsStay DEF TurnInv
<1>8. Turns!CompleteMeansAnswered'
  BY <1>2 DEF TurnInv, Turns!CompleteMeansAnswered
<1>9. Turns!EvidenceSurvivesInterruption'
  <2>1. answer'[t] # "raised"
    BY <1>2 DEF TurnInv, AnsweredAtEnd, Turns!Result
  <2> QED
    BY <1>2, <1>3, <2>1 DEF TurnInv, Turns!EvidenceSurvivesInterruption
<1>10. EventIsOwn' /\ StopsWereAsked'
  <2>1. \A u \in Turn : (Turns!Running(u)' <=> Turns!Running(u)) /\ (at'[u] = "new" => at[u] = "new")
    BY <1>2, <1>3 DEF Turns!Running
  <2> QED
    BY <1>2, <2>1 DEF TurnInv, EventIsOwn, StopsWereAsked
<1> QED
  BY <1>4, <1>5, <1>6, <1>7, <1>8, <1>9, <1>10 DEF TurnInv

\* A round ends: what a tool's last message says is an outcome some call had.
LEMMA RoundEndsStep == ASSUME TurnInv, NEW t \in Turn, Turns!RoundEnds(t) PROVE TurnInv'
<1> USE TurnAssumption DEF Turns!NoneAssumption
<1>1. PICK after \in [Tool -> Turns!Outcome \cup {None}] :
        /\ \A k \in Tool :
              LET O == {call[t][c].outcome : c \in
                           {d \in Call : call[t][d].pc = "over" /\ ToolOf[call[t][d].query] = k}}
              IN  IF O = {} THEN after[k] = last[t][k] ELSE after[k] \in O
        /\ last' = [last EXCEPT ![t] = after]
  BY DEF Turns!RoundEnds
<1>2. PICK f : f = [c \in Call |-> Turns!NoCall]
  OBVIOUS
<1>3. /\ at[t] = "tools" /\ at' = [at EXCEPT ![t] = "model"]
      /\ \A c \in Call : call[t][c].pc \in {"none", "over"}
      /\ call' = [call EXCEPT ![t] = f] /\ rounds' = [rounds EXCEPT ![t] = @ + 1]
      /\ UNCHANGED <<registered, signalled, asked, event, used, cache, evidence, spent,
                     seen, spoke, draft, answer>>
  BY <1>2 DEF Turns!RoundEnds, Turns!Goto, Turns!stops, Turns!budget, Turns!Counted
<1>4. /\ f \in [Call -> Turns!CallRecord]
      /\ \A c \in Call : f[c].pc = "none" /\ f[c].outcome = None
  BY <1>2 DEF Turns!NoCall, Turns!CallRecord
<1>5. call'[t] = f /\ (\A u \in Turn : u # t => call'[u] = call[u])
      /\ call' \in [Turn -> [Call -> Turns!CallRecord]]
  BY <1>3, <1>4 DEF TurnInv, Turns!TypeOK
<1>6. at'[t] = "model" /\ \A u \in Turn : u # t => at'[u] = at[u] /\ last'[u] = last[u]
  BY <1>1, <1>3 DEF TurnInv, Turns!TypeOK
<1>7. last'[t] = after
  BY <1>1 DEF TurnInv, Turns!TypeOK
<1>8. \A k \in Tool : after[k] \in seen[t] \cup {None}
  <2> TAKE k \in Tool
  <2>1. PICK O : O = {call[t][c].outcome : c \in
                        {d \in Call : call[t][d].pc = "over" /\ ToolOf[call[t][d].query] = k}}
    OBVIOUS
  <2>2. O \subseteq seen[t] \cup {None}
    BY <2>1 DEF TurnInv, OutcomesSeen
  <2>3. IF O = {} THEN after[k] = last[t][k] ELSE after[k] \in O
    BY <1>1, <2>1
  <2> QED
    BY <2>2, <2>3 DEF TurnInv, OutcomesSeen
<1>9. Turns!TypeOK'
  <2>1. at' \in [Turn -> {"new", "client", "model", "tools", "closing", "done"}]
        /\ rounds' \in [Turn -> Nat]
    BY <1>3 DEF TurnInv, Turns!TypeOK
  <2>2. last' \in [Turn -> [Tool -> Turns!Outcome \cup {None}]]
    BY <1>1 DEF TurnInv, Turns!TypeOK
  <2> QED
    BY <1>3, <1>5, <2>1, <2>2 DEF TurnInv, Turns!TypeOK
<1>10. CallsInTools'
  BY <1>4, <1>5, <1>6 DEF TurnInv, CallsInTools
<1>11. CallsAsk'
  BY <1>4, <1>5 DEF TurnInv, CallsAsk
<1>12. OutcomesSeen'
  BY <1>3, <1>4, <1>5, <1>6, <1>7, <1>8 DEF TurnInv, OutcomesSeen
<1>13. AnsweredAtEnd'
  BY <1>3, <1>6 DEF TurnInv, AnsweredAtEnd
<1>14. Budgets'
  <2>1. Turns!Executing(t)' = {} /\ Turns!Executing(t) = {}
    BY <1>3, <1>4, <1>5 DEF Turns!Executing
  <2>2. \A u \in Turn : u # t => Turns!Executing(u)' = Turns!Executing(u)
    BY <1>5 DEF Turns!Executing
  <2> QED
    BY <1>3, <2>1, <2>2, BudgetsStay DEF TurnInv
<1>15. Turns!CompleteMeansAnswered' /\ Turns!EvidenceSurvivesInterruption'
  <2>1. answer'[t] # "complete"
    BY <1>3 DEF TurnInv, AnsweredAtEnd, Turns!Result
  <2> QED
    BY <1>3, <1>6, <2>1 DEF TurnInv, Turns!CompleteMeansAnswered, Turns!EvidenceSurvivesInterruption
<1>16. EventIsOwn' /\ StopsWereAsked'
  <2>1. \A u \in Turn : (Turns!Running(u)' <=> Turns!Running(u)) /\ (at'[u] = "new" => at[u] = "new")
    BY <1>3, <1>6 DEF Turns!Running
  <2> QED
    BY <1>3, <2>1 DEF TurnInv, EventIsOwn, StopsWereAsked
<1> QED
  BY <1>9, <1>10, <1>11, <1>12, <1>13, <1>14, <1>15, <1>16 DEF TurnInv

\* What a verdict says of the turn it closes.
LEMMA VerdictIsFounded ==
  ASSUME NEW t \in Turn
  PROVE  /\ Turns!Verdict(t) \in Turns!Result
         /\ Turns!Verdict(t) = "raised" => evidence[t] = {} \/ draft[t] = "empty"
         /\ Turns!Verdict(t) = "user_stopped" => "stopped" \in seen[t]
         /\ Turns!Verdict(t) = "complete" => "stopped" \notin seen[t] /\ ~Turns!Incomplete(t)
BY DEF Turns!Verdict, Turns!Result

LEMMA CloseStep == ASSUME TurnInv, NEW t \in Turn, Turns!Close(t) PROVE TurnInv'
<1> USE TurnAssumption DEF Turns!NoneAssumption
<1>1. PICK v : v = Turns!Verdict(t)
  OBVIOUS
<1>2. /\ v \in Turns!Result
      /\ v = "raised" => evidence[t] = {} \/ draft[t] = "empty"
      /\ v = "user_stopped" => "stopped" \in seen[t]
      /\ v = "complete" => "stopped" \notin seen[t] /\ ~Turns!Incomplete(t)
  BY <1>1, VerdictIsFounded
<1>3. /\ at[t] = "closing" /\ at' = [at EXCEPT ![t] = "done"]
      /\ registered' = None /\ answer' = [answer EXCEPT ![t] = v]
      /\ UNCHANGED <<signalled, asked, event, rounds, call, used, cache, evidence, spent,
                     seen, last, spoke, draft>>
  BY <1>1 DEF Turns!Close, Turns!Goto, Turns!budget, Turns!Unregister
<1>4. /\ at'[t] = "done" /\ answer'[t] = v
      /\ \A u \in Turn : u # t => at'[u] = at[u] /\ answer'[u] = answer[u]
  BY <1>3 DEF TurnInv, Turns!TypeOK
<1>5. Turns!TypeOK'
  <2>1. at' \in [Turn -> {"new", "client", "model", "tools", "closing", "done"}]
    BY <1>3 DEF TurnInv, Turns!TypeOK
  <2>2. answer' \in [Turn -> Turns!Result \cup {None}]
    BY <1>2, <1>3 DEF TurnInv, Turns!TypeOK
  <2> QED
    BY <1>3, <2>1, <2>2 DEF TurnInv, Turns!TypeOK
<1>6. CallsInTools' /\ CallsAsk' /\ OutcomesSeen'
  BY <1>3, <1>4 DEF TurnInv, CallsInTools, CallsAsk, OutcomesSeen
<1>7. AnsweredAtEnd'
  BY <1>3, <1>4 DEF TurnInv, AnsweredAtEnd
<1>8. Budgets'
  BY <1>3, BudgetsStay, CallsStay DEF TurnInv
<1>9. Turns!CompleteMeansAnswered'
  <2>1. ASSUME v = "complete", NEW k \in Tool
        PROVE  last[t][k] \in {None, "success", "cache_hit"}
    <3>1. last[t][k] \in seen[t] \cup {None} /\ seen[t] \subseteq Turns!Outcome
      BY DEF TurnInv, OutcomesSeen, Turns!TypeOK
    <3>2. last[t][k] \notin {"stopped", "failure", "rejected", "validation"}
      BY <1>2, <2>1, <3>1 DEF Turns!Incomplete, Turns!Outcome
    <3> QED
      BY <3>1, <3>2 DEF Turns!Outcome
  <2> QED
    BY <1>3, <1>4, <2>1 DEF TurnInv, Turns!CompleteMeansAnswered
<1>10. Turns!EvidenceSurvivesInterruption'
  BY <1>2, <1>3, <1>4 DEF TurnInv, Turns!EvidenceSurvivesInterruption
<1>11. EventIsOwn' /\ StopsWereAsked'
  <2>1. SUFFICES ASSUME Alone
                 PROVE  EventIsOwn' /\ StopsWereAsked'
    BY DEF EventIsOwn, StopsWereAsked, Alone
  <2>2. \A u \in Turn : ~Turns!Running(u)' /\ (at'[u] = "new" => at[u] = "new")
    BY <1>3, <1>4, <2>1 DEF TurnInv, EventIsOwn, Turns!Running
  <2>3. EventIsOwn'
    BY <1>3, <2>1, <2>2 DEF TurnInv, EventIsOwn
  <2>4. StopsWereAsked'
    BY <1>2, <1>3, <1>4, <2>1, <2>2 DEF TurnInv, StopsWereAsked
  <2> QED
    BY <2>3, <2>4
<1> QED
  BY <1>5, <1>6, <1>7, <1>8, <1>9, <1>10, <1>11 DEF TurnInv

LEMMA TurnsBegin == Turns!Init => TurnInv
<1> SUFFICES ASSUME Turns!Init
             PROVE  TurnInv
  OBVIOUS
<1> USE TurnAssumption DEF Turns!NoneAssumption
<1>1. call \in [Turn -> [Call -> Turns!CallRecord]]
      /\ \A t \in Turn : \A c \in Call : call[t][c].pc = "none" /\ call[t][c].outcome = None
  BY DEF Turns!Init, Turns!NoCall, Turns!CallRecord
<1>2. Turns!TypeOK
  BY <1>1 DEF Turns!Init, Turns!TypeOK, Turns!ScenarioAssumption
<1>3. CallsInTools /\ CallsAsk /\ OutcomesSeen /\ AnsweredAtEnd
  BY <1>1 DEF Turns!Init, CallsInTools, CallsAsk, OutcomesSeen, AnsweredAtEnd
<1>4. Budgets
  <2>1. \A t \in Turn : Turns!Executing(t) = {}
    BY <1>1 DEF Turns!Executing
  <2>2. \A t \in Turn : used[t] = 0 /\ spent[t] = 0
    BY DEF Turns!Init
  <2> QED
    BY <2>1, <2>2, FS_EmptySet DEF Budgets, Turns!LimitAssumption
<1>5. Turns!CompleteMeansAnswered /\ Turns!EvidenceSurvivesInterruption
  BY DEF Turns!Init, Turns!CompleteMeansAnswered, Turns!EvidenceSurvivesInterruption
<1>6. EventIsOwn /\ StopsWereAsked
  BY DEF Turns!Init, EventIsOwn, StopsWereAsked, Turns!Running, Turns!Result
<1> QED
  BY <1>2, <1>3, <1>4, <1>5, <1>6 DEF TurnInv

LEMMA TurnStep == TurnInv /\ [Turns!Next]_turnVars => TurnInv'
<1>1. TurnInv /\ UNCHANGED turnVars => TurnInv'
  <2> SUFFICES ASSUME TurnInv, UNCHANGED turnVars
               PROVE  TurnInv'
    OBVIOUS
  <2>1. UNCHANGED <<registered, signalled, at, event, rounds, call, used, cache, evidence, spent, seen,
                    last, spoke, draft, answer, asked>>
    BY DEF turnVars
  <2>2. Turns!TypeOK'
    BY <2>1 DEF TurnInv, Turns!TypeOK
  <2>3. CallsInTools' /\ CallsAsk' /\ OutcomesSeen' /\ AnsweredAtEnd'
    BY <2>1 DEF TurnInv, CallsInTools, CallsAsk, OutcomesSeen, AnsweredAtEnd
  <2>4. Budgets'
    BY <2>1, BudgetsStay, CallsStay DEF TurnInv
  <2>5. Turns!CompleteMeansAnswered' /\ Turns!EvidenceSurvivesInterruption'
    BY <2>1 DEF TurnInv, Turns!CompleteMeansAnswered, Turns!EvidenceSurvivesInterruption
  <2>6. EventIsOwn' /\ StopsWereAsked'
    BY <2>1 DEF TurnInv, EventIsOwn, StopsWereAsked, Turns!Running
  <2> QED
    BY <2>2, <2>3, <2>4, <2>5, <2>6 DEF TurnInv
<1>2. ASSUME TurnInv, NEW t \in Turn, Turns!Turns(t) PROVE TurnInv'
  BY <1>2, ClientStep, ModelCallsStep, ModelEndsStep, CallStep, RoundEndsStep, CloseStep
     DEF Turns!Turns, Turns!Calls
<1> QED
  BY <1>1, <1>2, StopStep, BeginStep DEF Turns!Next

\* What the invariant says in the words of the turns' properties.
LEMMA TurnsAreAccountedFor ==
  ASSUME TurnInv
  PROVE  /\ Turns!TypeOK /\ Turns!BudgetIsExact /\ Turns!CompleteMeansAnswered
         /\ Turns!EvidenceSurvivesInterruption
         /\ Alone => Turns!OnlyARequestStops /\ Turns!StopAnswersTruthfully
<1> USE TurnAssumption DEF Turns!NoneAssumption
<1>1. Turns!BudgetIsExact
  BY SameCount DEF TurnInv, Budgets, Turns!BudgetIsExact
<1>2. ASSUME Alone PROVE Turns!OnlyARequestStops
  BY <1>2 DEF TurnInv, StopsWereAsked, Turns!OnlyARequestStops
<1>3. ASSUME Alone PROVE Turns!StopAnswersTruthfully
  BY <1>3 DEF TurnInv, EventIsOwn, Turns!StopAnswersTruthfully, Turns!TypeOK
<1> QED
  BY <1>1, <1>2, <1>3 DEF TurnInv

-----------------------------------------------------------------------------
(* Paging: what the model was given are the records before the next page.  *)

Offered == 1..Output!Smaller(offset, total)
Matching == 1..Output!Smaller(total, MaxOffset)

PageHeld == held # None =>
    /\ offset \in 0..MaxOffset
    /\ held = Output!Smaller(PageLimit, Output!Larger(0, total - offset)) /\ kept \in 0..held
ReadToHere == ~lost => (IF offset = None THEN Matching ELSE Offered) \subseteq read

\* The types, apart from the page's.
Page == [from : Nat, held : Nat, delivered : SUBSET (1..MaxTotal),
         status : {"none", "complete", "partial", "compact_fallback"}]
PagingTyped ==
    /\ total \in 0..MaxTotal /\ size \in [1..MaxTotal -> 1..MaxSize] /\ nested \in 0..MaxSize
    /\ offset \in Nat \cup {None} /\ held \in Nat \cup {None} /\ kept \in Nat
    /\ round \in 0..Halvings /\ read \subseteq 1..MaxTotal /\ lost \in BOOLEAN

LEMMA OutputTyped ==
    /\ Output!TypeOK <=> PagingTyped /\ page \in Page
    /\ Output!TypeOK' <=> PagingTyped' /\ page' \in Page
  BY DEF Output!TypeOK, PagingTyped, Page

OutputInv == Output!TypeOK /\ Output!DeliveredWasRead /\ PageHeld /\ ReadToHere

LEMMA OutputBegins == Output!Init => OutputInv
<1> SUFFICES ASSUME Output!Init
             PROVE  OutputInv
  OBVIOUS
<1> USE OutputAssumption DEF Output!SizeAssumption, Output!NoneAssumption
<1>1. Output!TypeOK
  <2>1. page \in Page
    BY DEF Output!Init, Output!NoPage, Page
  <2>2. total \in 0..MaxTotal /\ size \in [1..MaxTotal -> 1..MaxSize] /\ nested \in 0..MaxSize
    BY DEF Output!Init
  <2>3. /\ offset \in Nat \cup {None} /\ held \in Nat \cup {None} /\ kept \in Nat
        /\ round \in 0..Halvings
    BY DEF Output!Init
  <2>4. read \subseteq 1..MaxTotal /\ lost \in BOOLEAN
    BY DEF Output!Init
  <2> QED
    BY <2>1, <2>2, <2>3, <2>4, OutputTyped DEF PagingTyped
<1>2. Output!DeliveredWasRead /\ PageHeld
  BY DEF Output!Init, Output!DeliveredWasRead, Output!NoPage, PageHeld
<1>3. ReadToHere
  BY DEF Output!Init, ReadToHere, Offered, Output!Smaller
<1> QED
  BY <1>1, <1>2, <1>3 DEF OutputInv

\* What a page that is held says of the records it may deliver.
LEMMA PageIsMatching ==
  ASSUME OutputInv, held # None
  PROVE  /\ offset \in Nat /\ held \in Nat /\ kept \in 0..held /\ total \in 0..MaxTotal
         /\ held > 0 => offset + held <= total
         /\ held = 0 => total <= offset
         /\ offset <= MaxOffset
<1> USE OutputAssumption DEF Output!SizeAssumption, Output!NoneAssumption
<1>1. offset \in Nat /\ total \in 0..MaxTotal /\ kept \in 0..held /\ offset <= MaxOffset
  BY DEF OutputInv, PageHeld, Output!TypeOK
<1> QED
  BY <1>1 DEF OutputInv, PageHeld, Output!Smaller, Output!Larger

LEMMA SearchPages == OutputInv /\ Output!Search => OutputInv'
<1> SUFFICES ASSUME OutputInv, Output!Search
             PROVE  OutputInv'
  OBVIOUS
<1> USE OutputAssumption DEF Output!SizeAssumption, Output!NoneAssumption
<1>1. offset \in Nat /\ total \in 0..MaxTotal
  BY DEF OutputInv, Output!TypeOK, Output!Search
<1>2. PICK o \in 0..MaxOffset : o = Output!Smaller(offset, MaxOffset)
  BY <1>1 DEF Output!Smaller
<1>3. PICK n \in Nat : n = Output!Smaller(PageLimit, Output!Larger(0, total - o))
  <2>1. PICK m \in Nat : m = Output!Larger(0, total - o)
    BY <1>1, <1>2 DEF Output!Larger
  <2>2. Output!Smaller(PageLimit, m) \in Nat
    BY DEF Output!Smaller
  <2> QED
    BY <2>1, <2>2
<1>4. offset' = o /\ held' = n /\ kept' = n /\ round' = 0
      /\ UNCHANGED <<total, size, nested, page, read, lost>>
  BY <1>2, <1>3 DEF Output!Search, Output!source
<1>5. Output!TypeOK' /\ Output!DeliveredWasRead'
  <2>1. PagingTyped /\ page \in Page /\ Output!DeliveredWasRead
    BY OutputTyped DEF OutputInv
  <2>2. PagingTyped'
    BY <1>2, <1>3, <1>4, <2>1 DEF PagingTyped
  <2>3. page' \in Page /\ Output!DeliveredWasRead'
    BY <1>4, <2>1 DEF Output!DeliveredWasRead
  <2> QED
    BY <2>2, <2>3, OutputTyped
<1>6. PageHeld'
  BY <1>2, <1>3, <1>4 DEF PageHeld, Output!Smaller, Output!Larger
<1>7. ReadToHere'
  BY <1>1, <1>2, <1>4 DEF OutputInv, ReadToHere, Offered, Output!Smaller, Output!Search
<1> QED
  BY <1>5, <1>6, <1>7 DEF OutputInv

LEMMA DeliverReads == OutputInv /\ Output!Deliver => OutputInv'
<1> SUFFICES ASSUME OutputInv, Output!Deliver
             PROVE  OutputInv'
  OBVIOUS
<1> USE OutputAssumption DEF Output!SizeAssumption, Output!NoneAssumption
<1>1. held # None
  BY DEF Output!Deliver
<1>2. PICK R : R = Output!Records(offset, held)
  OBVIOUS
<1>3. R \subseteq 1..MaxTotal /\ R = (offset + 1)..(offset + held)
  BY <1>1, <1>2, PageIsMatching DEF Output!Records
<1>4. PICK o : o = Output!Continues(offset, held)
  OBVIOUS
<1>5. /\ page' = [from |-> offset, held |-> held, delivered |-> R, status |-> "complete"]
      /\ offset' = o /\ read' = read \cup R /\ held' = None /\ kept' = 0 /\ round' = 0
      /\ UNCHANGED <<total, size, nested, lost>>
  BY <1>2, <1>4 DEF Output!Deliver, Output!Delivered, Output!Idle, Output!source
<1>6. o \in Nat \cup {None} /\ (o # None => o = offset + held)
      /\ (o = None => held = 0 \/ offset + held >= total \/ offset + held > MaxOffset)
  BY <1>1, <1>4, PageIsMatching DEF Output!Continues
<1>7. page' \in Page /\ page'.delivered = R
  BY <1>1, <1>3, <1>5, PageIsMatching DEF Page
<1>8. Output!TypeOK' /\ Output!DeliveredWasRead' /\ PageHeld'
  BY <1>3, <1>5, <1>6, <1>7, OutputTyped DEF OutputInv, PagingTyped, Output!DeliveredWasRead, PageHeld
<1>9. ReadToHere'
  <2>1. ASSUME ~lost
        PROVE  1..Output!Smaller(offset, total) \subseteq read
    BY <1>1, <2>1, PageIsMatching DEF OutputInv, ReadToHere, Offered
  <2> QED
    BY <1>1, <1>3, <1>5, <1>6, <2>1, PageIsMatching
       DEF ReadToHere, Offered, Matching, Output!Smaller
<1> QED
  BY <1>8, <1>9 DEF OutputInv

LEMMA ClippedReads == OutputInv /\ Output!DeliverClipped => OutputInv'
<1> SUFFICES ASSUME OutputInv, Output!DeliverClipped
             PROVE  OutputInv'
  OBVIOUS
<1> USE OutputAssumption DEF Output!SizeAssumption, Output!NoneAssumption
<1>1. held # None
  BY DEF Output!DeliverClipped
<1>2. PICK R : R = Output!Records(offset, kept)
  OBVIOUS
<1>3. R \subseteq 1..MaxTotal /\ R = (offset + 1)..(offset + kept)
  BY <1>1, <1>2, PageIsMatching DEF Output!Records
<1>4. /\ page' = [from |-> offset, held |-> held, delivered |-> R, status |-> "partial"]
      /\ offset' = offset + kept /\ read' = read \cup R /\ held' = None /\ kept' = 0 /\ round' = 0
      /\ UNCHANGED <<total, size, nested, lost>>
  BY <1>2 DEF Output!DeliverClipped, Output!Delivered, Output!Resumes, Output!Idle, Output!source
<1>5. page' \in Page /\ page'.delivered = R
  BY <1>1, <1>3, <1>4, PageIsMatching DEF Page
<1>6. offset + kept \in Nat
  BY <1>1, PageIsMatching
<1>7. Output!TypeOK' /\ Output!DeliveredWasRead' /\ PageHeld'
  BY <1>3, <1>4, <1>5, <1>6, OutputTyped DEF OutputInv, PagingTyped, Output!DeliveredWasRead, PageHeld
<1>8. ReadToHere'
  <2>1. ASSUME ~lost
        PROVE  1..Output!Smaller(offset, total) \subseteq read
    BY <1>1, <2>1, PageIsMatching DEF OutputInv, ReadToHere, Offered
  <2> QED
    BY <1>1, <1>3, <1>4, <1>6, <2>1, PageIsMatching
       DEF ReadToHere, Offered, Output!Smaller
<1> QED
  BY <1>7, <1>8 DEF OutputInv

LEMMA ClipShrinks == OutputInv /\ (Output!Clip \/ Output!FallBack) => OutputInv'
<1> SUFFICES ASSUME OutputInv, Output!Clip \/ Output!FallBack
             PROVE  OutputInv'
  OBVIOUS
<1> USE OutputAssumption DEF Output!SizeAssumption, Output!NoneAssumption
<1>1. held # None
  BY DEF Output!Clip, Output!FallBack
<1>2. CASE Output!Clip
  <2>1. PICK k : k = Output!Half(kept)
    OBVIOUS
  <2>2. k \in 0..kept
    BY <1>1, <1>2, <2>1, PageIsMatching DEF Output!Clip, Output!Half, Output!Larger
  <2>3. kept' = k /\ round' = round + 1 /\ round < Halvings
        /\ UNCHANGED <<total, size, nested, offset, held, page, read, lost>>
    BY <1>2, <2>1 DEF Output!Clip, Output!source
  <2>4. Output!TypeOK' /\ Output!DeliveredWasRead'
    <3>1. PagingTyped /\ page \in Page /\ Output!DeliveredWasRead
      BY OutputTyped DEF OutputInv
    <3>2. kept' \in Nat /\ round' \in 0..Halvings
      BY <1>1, <2>2, <2>3, <3>1, PageIsMatching DEF PagingTyped
    <3>3. PagingTyped'
      BY <2>3, <3>1, <3>2 DEF PagingTyped
    <3>4. page' \in Page /\ Output!DeliveredWasRead'
      BY <2>3, <3>1 DEF Output!DeliveredWasRead
    <3> QED
      BY <3>3, <3>4, OutputTyped
  <2>5. PageHeld' /\ ReadToHere'
    BY <1>1, <2>2, <2>3, PageIsMatching DEF OutputInv, PageHeld, ReadToHere, Offered, Matching
  <2> QED
    BY <2>4, <2>5 DEF OutputInv
<1>3. CASE Output!FallBack
  <2>1. /\ page' = [from |-> offset, held |-> held, delivered |-> {}, status |-> "compact_fallback"]
        /\ offset' = None /\ lost' = TRUE /\ held' = None /\ kept' = 0 /\ round' = 0
        /\ UNCHANGED <<total, size, nested, read>>
    BY <1>3 DEF Output!FallBack, Output!Idle, Output!source
  <2>2. page' \in Page /\ page'.delivered = {}
    BY <1>1, <2>1, PageIsMatching DEF Page
  <2>3. Output!TypeOK' /\ Output!DeliveredWasRead'
    BY <2>1, <2>2, OutputTyped DEF OutputInv, PagingTyped, Output!DeliveredWasRead
  <2>4. PageHeld' /\ ReadToHere'
    BY <2>1 DEF PageHeld, ReadToHere
  <2> QED
    BY <2>3, <2>4 DEF OutputInv
<1> QED
  BY <1>2, <1>3

LEMMA OutputStep == OutputInv /\ [Output!Next]_outputVars => OutputInv'
<1>1. OutputInv /\ UNCHANGED outputVars => OutputInv'
  BY DEF outputVars, OutputInv, Output!TypeOK, Output!DeliveredWasRead, PageHeld, ReadToHere,
     Offered, Matching
<1> QED
  BY <1>1, SearchPages, DeliverReads, ClippedReads, ClipShrinks DEF Output!Next

LEMMA PagingIsWhole == OutputInv => Output!PagingLosesNothing
  BY DEF OutputInv, ReadToHere, Matching, Output!PagingLosesNothing

-----------------------------------------------------------------------------
(* The parts.  Whichever of them moves, each takes its own steps or none.  *)

LEMMA ProgressRunsIngestion == ProgressSpec => Ingestion!Spec
<1>1. ProgressInit => Ingestion!Init
  BY DEF ProgressInit
<1>2. [ProgressNext]_all => [Ingestion!Next]_Ingestion!vars
  BY DEF ProgressNext, all, ingestionVars, Ingestion!vars, Ingestion!store, Ingestion!ghost
<1> QED
  BY <1>1, <1>2, PTL DEF ProgressSpec, Ingestion!Spec

LEMMA ProgressKeepsTurns == ProgressSpec => []TurnInv
<1>1. ProgressInit => TurnInv
  BY TurnsBegin DEF ProgressInit
<1>2. [ProgressNext]_all => [Turns!Next]_turnVars
  BY DEF ProgressNext, all
<1> QED
  BY <1>1, <1>2, TurnStep, PTL DEF ProgressSpec

LEMMA ProgressKeepsOutput == ProgressSpec => []OutputInv
<1>1. ProgressInit => OutputInv
  BY OutputBegins DEF ProgressInit
<1>2. [ProgressNext]_all => [Output!Next]_outputVars
  BY DEF ProgressNext, all
<1> QED
  BY <1>1, <1>2, OutputStep, PTL DEF ProgressSpec

\* However late a document is indexed within the overlap, and however cycles interleave,
\* are killed and lapse, it is stored or some cycle is yet to read it; and a severe
\* finding misses its investigation only after a fault or when a cycle's limit was full.
THEOREM LateAndSevereAreTakenUp == ProgressSpec => []LateAndSevereAreTaken
<1>1. Ingestion!Spec => []Ingestion!TypeOK
  BY IngestionAssumption, Ingestion!TypeCorrect
<1>2. Ingestion!Spec => []Ingestion!LateIndexingIsNotLost
  BY IngestionAssumption, Ingestion!LateDocumentsAreStored
<1>3. Ingestion!Spec => []Ingestion!OnlyAFaultDropsAnInvestigation
  BY IngestionAssumption, Ingestion!SevereFindingsAreQueued
<1>4. Ingestion!TypeOK /\ Ingestion!LateIndexingIsNotLost
        /\ Ingestion!OnlyAFaultDropsAnInvestigation => LateAndSevereAreTaken
  BY DEF LateAndSevereAreTaken
<1> QED
  BY <1>1, <1>2, <1>3, <1>4, ProgressRunsIngestion, PTL

\* However the calls of a round interleave with each other and with a stop, the budget is
\* exact, a complete answer rests on calls that all answered, an interruption keeps the
\* evidence, and without overlapping requests a turn stops only when it was asked to; and
\* the pages of a tool leave no record out, however they were clipped.
THEOREM EveryAnswerIsAccountedFor == ProgressSpec => []AnswersAreAccountedFor
<1>1. TurnInv /\ OutputInv => AnswersAreAccountedFor
  <2>1. OutputInv => Output!TypeOK /\ Output!DeliveredWasRead /\ Output!PagingLosesNothing
    BY PagingIsWhole DEF OutputInv
  <2> QED
    BY <2>1, TurnsAreAccountedFor DEF AnswersAreAccountedFor, Alone
<1> QED
  BY <1>1, ProgressKeepsTurns, ProgressKeepsOutput, PTL
=============================================================================
