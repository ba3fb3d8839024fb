---------------------------- MODULE Nodes_proofs ----------------------------
(***************************************************************************)
(* Proofs about Nodes: the workflow of one case, the sums its parts are    *)
(* measured with, the requests of the analyst's loop, the provider's gate, *)
(* the evidence of an alert, the containment of SSH alerts, and the five   *)
(* together.                                                               *)
(***************************************************************************)
EXTENDS Nodes, FiniteSetTheorems, SequenceTheorems, WellFoundedInduction, TLAPS

(* The workflow.  Its properties speak of the end or of the moment of       *)
(* execution; the inductive invariant says what each node may rely on when  *)
(* the router sends the workflow there.                                     *)

\* Analysis: a pass is charged to an attempt or to an analyst's request, and a
\* node of the analysis loop is only entered with an attempt left.
Budget == /\ attempts <= MaxAttempts
          /\ passes <= attempts + collects
          /\ node \in {"monitor", "analyze"} => attempts < MaxAttempts

\* Nothing has happened to the estate before execution.
Pristine == stage \in {"monitor", "analyze", "plan", "policy_gate", "execute"} =>
                /\ result = "none" /\ verification = "none" /\ rollback = "none"
                /\ ~observed /\ undos = 0

\* Execution is entered with everything the authorization checked.
Cleared == node = "execute" => /\ stage = "execute" /\ decision = "approve"
                               /\ authorized /\ Bound

\* The way from execution to a verdict.
Judging ==
    /\ node = "verification_wait" => status = "waiting_verification" /\ result \in Successful
    /\ node \in {"verification_wait", "verify"} =>
           /\ stage = "verify" /\ verification = "none" /\ rollback = "none" /\ undos = 0
    /\ node = "verify" /\ result \in Successful => observed
    /\ result \in Mutating => real

\* What the reports rest on.
Closing ==
    /\ node \in {"monitor", "analyze", "plan", "policy_gate", "human_approval",
                 "execution_authorization"}
         => stage \in {"monitor", "analyze", "plan", "policy_gate"}
    /\ node = "rollback" => stage \in {"rollback", "execute"} /\ status # "running"
    /\ node \in {"knowledge", "end"} => status # "created"
    /\ stage = "update_knowledge" =>
           /\ node \in {"knowledge", "end"}
           /\ (status # "escalated" => /\ verification = "passed" /\ result \in Successful
                                       /\ real /\ observed /\ undos = 0)
    /\ status = "completed" => node = "end" /\ stage = "update_knowledge"
    /\ node \in {"knowledge", "end"} =>
           (result \in Mutating /\ verification \notin {"passed", "not_verified"} =>
               rollback # "none")

IInv == TypeOK /\ Budget /\ Pristine /\ Cleared /\ Judging /\ Closing

\* The invariant holds at the start.
LEMMA InitIInv == Init => IInv
<1> USE BudgetAssumption, BoundAssumption DEF Init
<1>1. Init => TypeOK
  <2>1. 0 \in Version /\ 0 \in 0 .. MaxAttempts /\ 0 \in 0 .. MaxPlanning + 1
        /\ 0 \in 0 .. MaxCollects /\ 1 \in 1 .. MaxPolicies /\ 0 \in Nat
    BY DEF Version
  <2> QED BY <2>1, Zenon DEF TypeOK, Successful, Mutating
<1>2. Init => Budget /\ Pristine /\ Cleared /\ Judging /\ Closing
  BY DEF Budget, Pristine, Cleared, Judging, Closing, Successful, Mutating
<1> QED BY <1>1, <1>2 DEF IInv

\* The analysis part of the graph keeps it.
LEMMA AnalysisStep ==
  ASSUME IInv, Monitor \/ Analyze \/ Plan \/ PolicyGate
  PROVE  IInv'
<1> USE BudgetAssumption, BoundAssumption DEF Version, Basis, Waiting, Successful, Mutating, Leave,
        basis, consent, outcome, world, budget
<1>1. CASE Monitor
  <2>1. TypeOK'
    BY <1>1 DEF IInv, TypeOK, Budget, Monitor, AfterMonitor
  <2>2. (Budget /\ Pristine /\ Cleared /\ Judging /\ Closing)'
    BY <1>1 DEF IInv, TypeOK, Budget, Pristine, Cleared, Judging, Closing, Monitor, AfterMonitor
  <2> QED BY <2>1, <2>2 DEF IInv
<1>2. CASE Analyze
  <2>1. TypeOK'
    BY <1>2 DEF IInv, TypeOK, Budget, Analyze, AfterAnalyze, Recollect
  <2>2. (Budget /\ Pristine /\ Cleared /\ Judging /\ Closing)'
    BY <1>2 DEF IInv, TypeOK, Budget, Pristine, Cleared, Judging, Closing, Analyze, AfterAnalyze, Recollect
  <2> QED BY <2>1, <2>2 DEF IInv
<1>3. CASE Plan
  <2>1. TypeOK'
    <3> DEFINE New == [evidence |-> evidence, policy |-> policy]
    <3>1. New \in Basis
      BY DEF IInv, TypeOK
    <3>2. plan' \in Basis \cup {None} /\ planLive' \in BOOLEAN
      BY <1>3, <3>1 DEF IInv, TypeOK, Plan
    <3>3. planning' \in 0 .. MaxPlanning + 1
      BY <1>3 DEF IInv, TypeOK, Plan
    <3>4. control' \in {<<"knowledge", "plan", "escalated">>,
                        <<"knowledge", "update_knowledge", "escalated">>,
                        <<"policy_gate", "policy_gate", status>>}
      BY <1>3 DEF Plan, AfterPlan, control
    <3> HIDE DEF Basis
    <3> QED
      BY <1>3, <3>2, <3>3, <3>4 DEF IInv, TypeOK, Plan, control
  <2>2. (Budget /\ Pristine /\ Cleared /\ Judging /\ Closing)'
    BY <1>3 DEF IInv, TypeOK, Budget, Pristine, Cleared, Judging, Closing, Plan, AfterPlan
  <2> QED BY <2>1, <2>2 DEF IInv
<1>4. CASE PolicyGate
  <2>1. TypeOK'
    BY <1>4 DEF IInv, TypeOK, Budget, PolicyGate, AfterPolicyGate, PolicyAllows
  <2>2. (Budget /\ Pristine /\ Cleared /\ Judging /\ Closing)'
    BY <1>4 DEF IInv, TypeOK, Budget, Pristine, Cleared, Judging, Closing, PolicyGate, AfterPolicyGate
  <2> QED BY <2>1, <2>2 DEF IInv
<1> QED BY <1>1, <1>2, <1>3, <1>4

\* So do the interrupts and what happens around the graph.
LEMMA WaitingStep ==
  ASSUME IInv, Resume \/ CollectMoreEvidence \/ RequestExpires \/ ObservationEnds \/ Redeploy
  PROVE  IInv'
<1> USE BudgetAssumption, BoundAssumption DEF Version, Basis, Waiting, Successful, Mutating, Leave,
        control, basis, consent, outcome, world, budget
<1>1. ASSUME NEW answer \in Answer, NEW verdict \in {"approve", "reject"},
             NEW entitled \in BOOLEAN, Approve(answer, verdict, entitled)
      PROVE  IInv'
  <2>1. TypeOK'
    BY <1>1 DEF IInv, TypeOK, Approve, Refuse, AfterApproval
  <2>2. (Budget /\ Pristine /\ Cleared /\ Judging /\ Closing)'
    BY <1>1 DEF IInv, TypeOK, Budget, Pristine, Cleared, Judging, Closing, Approve, Refuse,
                AfterApproval
  <2> QED BY <2>1, <2>2 DEF IInv
<1>2. ASSUME NEW answer \in Answer, NEW entitled \in BOOLEAN,
             AuthorizeExecution(answer, entitled)
      PROVE  IInv'
  <2>1. TypeOK'
    <3>1. authorized' \in BOOLEAN
      BY <1>2, Zenon DEF IInv, TypeOK, AuthorizeExecution
    <3>2. control' \in {<<"knowledge", "policy_gate", "escalated">>, <<"execute", "execute", status>>}
      BY <1>2 DEF AuthorizeExecution, Refuse, AfterAuthorization
    <3>3. UNCHANGED <<budget, basis, request, requestLive, decision, outcome, world>>
      BY <1>2 DEF AuthorizeExecution
    <3> QED BY <3>1, <3>2, <3>3 DEF IInv, TypeOK
  <2>2. (Budget /\ Pristine /\ Cleared /\ Judging /\ Closing)'
    BY <1>2 DEF IInv, TypeOK, Budget, Pristine, Cleared, Judging, Closing, Bound,
                AuthorizeExecution, Authorizes, Refuse, AfterAuthorization
  <2> QED BY <2>1, <2>2 DEF IInv
<1>3. ASSUME NEW answer \in Answer, VerificationWait(answer)
      PROVE  IInv'
  <2>1. TypeOK'
    BY <1>3 DEF IInv, TypeOK, VerificationWait
  <2>2. (Budget /\ Pristine /\ Cleared /\ Judging /\ Closing)'
    BY <1>3 DEF IInv, TypeOK, Budget, Pristine, Cleared, Judging, Closing, VerificationWait
  <2> QED BY <2>1, <2>2 DEF IInv
<1>4. CASE CollectMoreEvidence
  <2>1. TypeOK'
    BY <1>4 DEF IInv, TypeOK, CollectMoreEvidence, LastAttempt, AfterAnalyze
  <2>2. (Budget /\ Pristine /\ Cleared /\ Judging /\ Closing)'
    BY <1>4 DEF IInv, TypeOK, Budget, Pristine, Cleared, Judging, Closing, CollectMoreEvidence,
                LastAttempt, AfterAnalyze
  <2> QED BY <2>1, <2>2 DEF IInv
<1>5. CASE RequestExpires
  <2>1. TypeOK'
    <3>1. requestLive' \in BOOLEAN /\ planLive' \in BOOLEAN
      BY <1>5, Zenon DEF IInv, TypeOK, RequestExpires
    <3>2. UNCHANGED <<control, budget, evidence, plan, request, decision, authorized, outcome, world>>
      BY <1>5 DEF RequestExpires
    <3> QED BY <3>1, <3>2 DEF IInv, TypeOK
  <2>2. (Budget /\ Pristine /\ Cleared /\ Judging /\ Closing)'
    BY <1>5 DEF IInv, TypeOK, Budget, Pristine, Cleared, Judging, Closing, RequestExpires
  <2> QED BY <2>1, <2>2 DEF IInv
<1>6. CASE ObservationEnds
  <2>1. TypeOK'
    BY <1>6 DEF IInv, TypeOK, ObservationEnds
  <2>2. (Budget /\ Pristine /\ Cleared /\ Judging /\ Closing)'
    BY <1>6 DEF IInv, TypeOK, Budget, Pristine, Cleared, Judging, Closing, ObservationEnds
  <2> QED BY <2>1, <2>2 DEF IInv
<1>7. CASE Redeploy
  <2>1. TypeOK'
    BY <1>7 DEF IInv, TypeOK, Redeploy
  <2>2. (Budget /\ Pristine /\ Cleared /\ Judging /\ Closing)'
    BY <1>7 DEF IInv, TypeOK, Budget, Pristine, Cleared, Judging, Closing, Redeploy
  <2> QED BY <2>1, <2>2 DEF IInv
<1> QED BY <1>1, <1>2, <1>3, <1>4, <1>5, <1>6, <1>7 DEF Resume

\* And the nodes from execution on.
LEMMA ResponseStep ==
  ASSUME IInv, Execute \/ Verify \/ Rollback \/ Knowledge
  PROVE  IInv'
<1> USE BudgetAssumption, BoundAssumption DEF Version, Basis, Waiting, Successful, Mutating, Leave,
        basis, consent, outcome, world, budget
<1>1. CASE Execute
  <2>1. /\ result' \in {"none", "no_op", "failed_terminal", "duplicate", "dry_run"} \cup Mutating
        /\ result' \in Mutating => real
        /\ \/ node' = "rollback" /\ stage' = "execute" /\ status' = "failed" /\ result' = "none"
           \/ /\ node' = "verification_wait" /\ stage' = "verify"
              /\ status' = "waiting_verification" /\ result' \in Successful
           \/ /\ node' = "verify" /\ stage' = "verify"
              /\ status' = "running" /\ result' \notin Successful
    <3>1. CASE \E r \in Skipped : Observe(r)
      BY <3>1 DEF Skipped, Observe, AfterExecute
    <3>2. CASE real /\ \E r \in Mutating \cup {"failed_terminal"} : Observe(r)
      BY <3>2 DEF Observe, AfterExecute
    <3>3. CASE Lose
      BY <3>3 DEF Lose, AfterExecute
    <3> QED BY <1>1, <3>1, <3>2, <3>3 DEF Execute
  <2>6. calls' \in Nat
    BY <1>1 DEF IInv, TypeOK, Execute
  <2>7. blocked' \in BOOLEAN
    BY <1>1, Zenon DEF IInv, TypeOK, Execute
  <2>2. UNCHANGED <<budget, basis, consent, observed, verification, rollback, policy, real, undos>>
    BY <1>1 DEF Execute
  <2>3. node = "execute"
    BY <1>1 DEF Execute
  <2>4. TypeOK'
    BY <2>1, <2>2, <2>6, <2>7 DEF IInv, TypeOK
  <2>5. (Budget /\ Pristine /\ Cleared /\ Judging /\ Closing)'
    BY <2>1, <2>2, <2>3 DEF IInv, TypeOK, Budget, Pristine, Cleared, Judging, Closing
  <2> QED BY <2>4, <2>5 DEF IInv
<1>2. CASE Verify
  <2>1. \/ /\ verification' = "passed" /\ result \in Successful /\ real
           /\ Leave("update_knowledge", "running", "knowledge")
        \/ /\ verification' \in {"failed", "partial", verification}
           /\ Leave("rollback", "escalated", "rollback")
        \/ /\ verification' \in {"not_verified", "simulated"}
           /\ verification' = "simulated" => ~real
           /\ Leave("verify", "escalated", "knowledge")
    BY <1>2 DEF Verify, AfterVerify, JudgedStage, Outcomes
  <2>2. UNCHANGED <<budget, basis, consent, result, observed, rollback, world>> /\ node = "verify"
    BY <1>2 DEF Verify
  <2>3. TypeOK'
    BY <2>1, <2>2 DEF IInv, TypeOK
  <2>4. (Budget /\ Pristine /\ Cleared /\ Judging /\ Closing)'
    BY <2>1, <2>2 DEF IInv, TypeOK, Budget, Pristine, Cleared, Judging, Closing
  <2> QED BY <2>3, <2>4 DEF IInv
<1>3. CASE Rollback
  <2>1. TypeOK'
    <3>1. blocked' \in BOOLEAN
      <4>1. UNCHANGED blocked \/ blocked' = FALSE
        BY <1>3 DEF Rollback
      <4> QED BY <4>1, Zenon DEF IInv, TypeOK
    <3>2. undos' \in Nat
      BY <1>3 DEF IInv, TypeOK, Rollback
    <3>3. /\ rollback' \in {"successful", "unsuccessful"}
          /\ Leave("rollback", "escalated", "knowledge")
          /\ UNCHANGED <<budget, basis, consent, result, observed, verification, policy, real, calls>>
      BY <1>3 DEF Rollback
    <3> QED BY <3>1, <3>2, <3>3 DEF IInv, TypeOK
  <2>2. (Budget /\ Pristine /\ Cleared /\ Judging /\ Closing)'
    BY <1>3 DEF IInv, TypeOK, Budget, Pristine, Cleared, Judging, Closing, Rollback,
                ReportsSuccess
  <2> QED BY <2>1, <2>2 DEF IInv
<1>4. CASE Knowledge
  <2>1. TypeOK'
    BY <1>4 DEF IInv, TypeOK, Knowledge, Concluded
  <2>2. (Budget /\ Pristine /\ Cleared /\ Judging /\ Closing)'
    BY <1>4 DEF IInv, TypeOK, Budget, Pristine, Cleared, Judging, Closing, Knowledge, Concluded
  <2> QED BY <2>1, <2>2 DEF IInv
<1> QED BY <1>1, <1>2, <1>3, <1>4

\* The invariant is inductive, so it holds of every reachable state.
THEOREM Invariance == Spec => []IInv
<1>1. IInv /\ [Next]_vars => IInv'
  <2> SUFFICES ASSUME IInv, [Next]_vars PROVE IInv'
    OBVIOUS
  <2>1. CASE Next
    BY <2>1, AnalysisStep, WaitingStep, ResponseStep DEF Next, Run
  <2>2. CASE UNCHANGED vars
    BY <2>2 DEF IInv, TypeOK, Budget, Pristine, Cleared, Judging, Closing, Bound,
                vars, control, budget, basis, consent, outcome, world
  <2> QED BY <2>1, <2>2
<1> QED BY <1>1, InitIInv, PTL DEF Spec

\* Every variable of the workflow keeps its type, whatever the nodes return.
THEOREM TypeCorrect == Spec => []TypeOK
<1>1. IInv => TypeOK
  BY DEF IInv
<1> QED BY <1>1, Invariance, PTL

\* A workflow reported as completed had its containment accepted and observed to hold.
THEOREM CompletionIsEarned == Spec => []CompletedMeansContained
<1>1. IInv => CompletedMeansContained
  BY DEF IInv, Closing, CompletedMeansContained
<1> QED BY <1>1, Invariance, PTL

\* A containment that failed its checks is never left without a rollback attempt.
THEOREM FailureIsReverted == Spec => []FailedContainmentIsReverted
<1>1. IInv => FailedContainmentIsReverted
  BY DEF IInv, Closing, FailedContainmentIsReverted
<1> QED BY <1>1, Invariance, PTL

\* The loop between Monitor and Analyze is bounded by the attempts and the analysts'
\* requests, for every setting of the limit.
THEOREM AnalysisBudget == Spec => []AnalysisIsBudgeted
<1>1. IInv => AnalysisIsBudgeted
  BY BudgetAssumption, BoundAssumption
     DEF IInv, TypeOK, Budget, AnalysisIsBudgeted, Version
<1> QED BY <1>1, Invariance, PTL

\* Wazuh gets a command only for a plan that is approved, authorized, unexpired and
\* unchanged at that moment.
THEOREM ApprovalGuardsExecution == Spec => OnlyApprovedPlansReachWazuh
<1>1. IInv /\ [Next]_vars =>
        [calls' # calls => /\ decision = "approve" /\ authorized
                           /\ requestLive /\ planLive
                           /\ request = plan
                           /\ request = [evidence |-> evidence, policy |-> policy]]_vars
  <2> SUFFICES ASSUME IInv, Next, calls' # calls
               PROVE  /\ decision = "approve" /\ authorized
                      /\ requestLive /\ planLive
                      /\ request = plan
                      /\ request = [evidence |-> evidence, policy |-> policy]
    OBVIOUS
  <2>1. Execute
    BY DEF Next, Run, Resume, Monitor, Analyze, Plan, PolicyGate, Verify, Rollback, Knowledge,
           Approve, AuthorizeExecution, VerificationWait, CollectMoreEvidence, RequestExpires,
           ObservationEnds, Redeploy, world
  <2> QED BY <2>1 DEF Execute, IInv, Cleared, Bound
<1> QED BY <1>1, Invariance, PTL DEF Spec, OnlyApprovedPlansReachWazuh

-----------------------------------------------------------------------------
(* Sums of sequences of numbers.                                            *)

\* What holds of 0, and of a number when it holds of the one before it, holds of all of them.
LEMMA Upwards ==
  ASSUME NEW n \in Nat, NEW S \in SUBSET (0..n), 0 \in S,
         \A k \in 1..n : k - 1 \in S => k \in S
  PROVE  S = 0..n
<1> DEFINE Less == {p \in Nat \X Nat : p[1] < p[2]}
           T == (0..n) \ S
<1>1. IsWellFoundedOn(Less, Nat)
  BY NatLessThanWellFounded DEF OpToRel
<1>2. \A i, j \in Nat : i < j => <<i, j>> \in Less
  OBVIOUS
<1>3. T \in SUBSET Nat
  OBVIOUS
<1>4. ASSUME NEW m \in T, \A k \in T : ~(<<k, m>> \in Less)
      PROVE  FALSE
  <2>1. m \in 1..n /\ m - 1 \in 0..n /\ m - 1 \notin S
    BY <1>4
  <2>2. <<m - 1, m>> \in Less
    BY <2>1
  <2> QED
    BY <1>4, <2>1, <2>2
<1>5. T = {}
  <2> HIDE DEF Less, T
  <2> QED
    BY <1>1, <1>3, <1>4, WFMin
<1> QED
  BY <1>5

\* The partial sums of s.
PartialSums(s, f) ==
    /\ f \in [0..Len(s) -> Nat]
    /\ f[0] = 0 /\ \A k \in 1..Len(s) : f[k] = f[k - 1] + s[k]

\* They exist, and the last of them is the sum: SumOf is well defined.
LEMMA SumsExist ==
  ASSUME NEW s \in Seq(Nat)
  PROVE  \E f : PartialSums(s, f)
<1> DEFINE n == Len(s)
           Upto(m, f) == f[0] = 0 /\ \A k \in 1..n : k <= m => f[k] = f[k - 1] + s[k]
           S == {m \in 0..n : \E f \in [0..n -> Nat] : Upto(m, f)}
<1>0. n \in Nat /\ \A k \in 1..n : s[k] \in Nat
  OBVIOUS
<1>1. 0 \in S
  <2>1. [k \in 0..n |-> 0] \in [0..n -> Nat] /\ Upto(0, [k \in 0..n |-> 0])
    BY <1>0
  <2> QED
    BY <1>0, <2>1
<1>2. ASSUME NEW m \in 1..n, m - 1 \in S
      PROVE  m \in S
  <2>1. PICK f \in [0..n -> Nat] : Upto(m - 1, f)
    BY <1>2
  <2>2. m - 1 \in 0..n /\ m \in 0..n /\ m # 0
    BY <1>0
  <2>3. PICK g \in [0..n -> Nat] : g = [f EXCEPT ![m] = f[m - 1] + s[m]]
    BY <1>0, <2>2
  <2>4. g[m] = f[m - 1] + s[m] /\ \A k \in 0..n : k # m => g[k] = f[k]
    BY <2>2, <2>3
  <2>5. ASSUME NEW k \in 1..n, k <= m
        PROVE  g[k] = g[k - 1] + s[k]
    <3>1. k - 1 \in 0..n /\ k - 1 # m /\ k \in 0..n
      BY <1>0, <2>5
    <3>2. k # m => k <= m - 1
      BY <1>0, <2>5
    <3> QED
      BY <2>1, <2>4, <2>5, <3>1, <3>2
  <2>6. g[0] = 0
    BY <1>0, <2>1, <2>2, <2>4
  <2> QED
    BY <2>2, <2>5, <2>6
<1>3. n \in S
  <2> HIDE DEF Upto, n
  <2>1. S \in SUBSET (0..n)
    OBVIOUS
  <2>2. S = 0..n
    <3> HIDE DEF S
    <3> QED
      BY <1>0, <1>1, <1>2, <2>1, Upwards
  <2> HIDE DEF S
  <2> QED
    BY <1>0, <2>2
<1>4. PICK f \in [0..n -> Nat] : Upto(n, f)
  BY <1>3
<1>5. PartialSums(s, f)
  BY <1>0, <1>4 DEF PartialSums
<1> QED
  BY <1>5

\* The sum of s is the last of its partial sums.
LEMMA SumIsLast ==
  ASSUME NEW s \in Seq(Nat)
  PROVE  \E f : PartialSums(s, f) /\ SumOf(s) = f[Len(s)]
<1> DEFINE n == Len(s)
           Recursive(f) == f = [k \in 0..n |-> IF k = 0 THEN 0 ELSE f[k - 1] + s[k]]
           sum == CHOOSE f : Recursive(f)
<1>0. n \in Nat
  OBVIOUS
<1>1. PICK f : PartialSums(s, f)
  BY SumsExist
<1>2. Recursive(f)
  <2>1. \A k \in 0..n : k # 0 => k \in 1..n
    BY <1>0
  <2> QED
    BY <1>1, <2>1 DEF PartialSums
<1>3. Recursive(sum)
  BY <1>2
<1>4. SumOf(s) = sum[n]
  BY DEF SumOf
<1>5. sum[0] = 0 /\ \A k \in 1..n : sum[k] = sum[k - 1] + s[k]
  <2> HIDE DEF sum
  <2>1. sum = [k \in 0..n |-> IF k = 0 THEN 0 ELSE sum[k - 1] + s[k]]
    BY <1>3
  <2>2. \A k \in 1..n : k \in 0..n /\ k # 0
    BY <1>0
  <2> QED
    BY <1>0, <2>1, <2>2
<1>6. \A k \in 0..n : sum[k] = f[k]
  <2> DEFINE S == {k \in 0..n : sum[k] = f[k]}
  <2>1. 0 \in S
    BY <1>0, <1>1, <1>5 DEF PartialSums
  <2>2. ASSUME NEW k \in 1..n, k - 1 \in S
        PROVE  k \in S
    BY <1>0, <1>1, <1>5, <2>2 DEF PartialSums
  <2>3. S \in SUBSET (0..n)
    OBVIOUS
  <2>4. S = 0..n
    <3> HIDE DEF S, n
    <3> QED
      BY <1>0, <2>1, <2>2, <2>3, Upwards
  <2> QED
    BY <2>4
<1> QED
  BY <1>0, <1>1, <1>4, <1>6

\* The sum of numbers is a number.
LEMMA SumType ==
  ASSUME NEW s \in Seq(Nat)
  PROVE  SumOf(s) \in Nat
<1>1. PICK f : PartialSums(s, f) /\ SumOf(s) = f[Len(s)]
  BY SumIsLast
<1> QED
  BY <1>1 DEF PartialSums

\* A sequence each of whose members is at most the one d places on in another adds up to no
\* more than that.
LEMMA SumCompare ==
  ASSUME NEW s \in Seq(Nat), NEW t \in Seq(Nat), NEW d \in Nat, Len(s) = Len(t) + d,
         \A k \in 1..Len(t) : t[k] <= s[k + d]
  PROVE  SumOf(t) <= SumOf(s)
<1>1. PICK f : PartialSums(s, f) /\ SumOf(s) = f[Len(s)]
  BY SumIsLast
<1>2. PICK g : PartialSums(t, g) /\ SumOf(t) = g[Len(t)]
  BY SumIsLast
<1> DEFINE n == Len(t)
           S == {k \in 0..n : g[k] <= f[k + d]}
<1>3. n \in Nat /\ \A k \in 1..n : t[k] \in Nat /\ k + d \in 1..Len(s) /\ s[k + d] \in Nat
  <2>1. n \in Nat /\ \A k \in 1..n : t[k] \in Nat
    OBVIOUS
  <2>2. Len(s) \in Nat /\ \A j \in 1..Len(s) : s[j] \in Nat
    OBVIOUS
  <2>3. \A k \in 1..n : k + d \in 1..Len(s)
    BY <2>1
  <2> QED
    BY <2>1, <2>2, <2>3
<1>4. f \in [0..Len(s) -> Nat] /\ g \in [0..n -> Nat]
  BY <1>1, <1>2 DEF PartialSums
<1>5. 0 \in S
  <2>1. d \in 0..Len(s) /\ 0 \in 0..n
    BY <1>3
  <2>2. f[d] \in Nat /\ g[0] = 0
    BY <1>2, <1>4, <2>1 DEF PartialSums
  <2> QED
    BY <2>1, <2>2
<1>6. ASSUME NEW k \in 1..n, k - 1 \in S
      PROVE  k \in S
  <2> HIDE DEF n
  <2>1. g[k] = g[k - 1] + t[k] /\ k - 1 \in 0..n /\ k \in 0..n
    BY <1>2, <1>3 DEF PartialSums, n
  <2>2. PICK j \in 1..Len(s) : j = k + d
    BY <1>3
  <2>3. PICK i \in 0..Len(s) : i = j - 1 /\ i = k - 1 + d
    BY <1>3, <2>2
  <2>4. f[j] = f[i] + s[j] /\ f[i] \in Nat /\ f[j] \in Nat
    <3>1. f[j] = f[j - 1] + s[j]
      BY <1>1, <2>2 DEF PartialSums
    <3>2. j \in 0..Len(s)
      BY <2>2
    <3> QED
      BY <1>4, <2>3, <3>1, <3>2
  <2>5. g[k - 1] <= f[i] /\ g[k - 1] \in Nat /\ g[k] \in Nat
    <3>1. g[k - 1] <= f[k - 1 + d]
      BY <1>6
    <3> QED
      BY <1>4, <2>1, <2>3, <3>1
  <2>6. t[k] <= s[j] /\ t[k] \in Nat /\ s[j] \in Nat
    BY <1>3, <2>2
  <2>7. g[k] <= f[j]
    <3>1. \A w, x, y, z \in Nat : w <= x /\ y <= z => w + y <= x + z
      OBVIOUS
    <3>2. g[k - 1] + t[k] <= f[i] + s[j]
      BY <2>4, <2>5, <2>6, <3>1
    <3> QED
      BY <2>1, <2>4, <3>2
  <2>8. g[k] <= f[k + d]
    BY <2>2, <2>7
  <2> QED
    BY <2>1, <2>8
<1>7. n \in S
  <2>1. S \in SUBSET (0..n)
    OBVIOUS
  <2>2. S = 0..n
    <3> HIDE DEF S, n
    <3> QED
      BY <1>3, <1>5, <1>6, <2>1, Upwards
  <2> QED
    <3> HIDE DEF S, n
    <3> QED
      BY <1>3, <2>2
<1> QED
  BY <1>1, <1>2, <1>7

\* What is appended is added.
LEMMA SumAppend ==
  ASSUME NEW s \in Seq(Nat), NEW x \in Nat
  PROVE  SumOf(Append(s, x)) = SumOf(s) + x
<1> DEFINE t == Append(s, x)
           n == Len(s)
<1>1. t \in Seq(Nat) /\ n \in Nat /\ Len(t) = n + 1 /\ t[n + 1] = x /\ \A k \in 1..n : t[k] = s[k]
  OBVIOUS
<1> HIDE DEF t
<1>2. PICK f : PartialSums(s, f) /\ SumOf(s) = f[n]
  BY SumIsLast
<1>3. PICK g : PartialSums(t, g) /\ SumOf(t) = g[n + 1]
  BY <1>1, SumIsLast
<1> DEFINE S == {k \in 0..n : g[k] = f[k]}
<1>4. 0 \in S
  BY <1>1, <1>2, <1>3 DEF PartialSums
<1>5. ASSUME NEW k \in 1..n, k - 1 \in S
      PROVE  k \in S
  <2>1. f[k] = f[k - 1] + s[k]
    BY <1>2 DEF PartialSums
  <2>2. g[k] = g[k - 1] + t[k]
    BY <1>1, <1>3 DEF PartialSums
  <2> QED
    BY <1>1, <1>5, <2>1, <2>2
<1>6. S = 0..n
  <2>1. S \in SUBSET (0..n)
    OBVIOUS
  <2> HIDE DEF S, n
  <2> QED
    BY <1>1, <1>4, <1>5, <2>1, Upwards
<1>7. g[n + 1] = g[n] + x
  <2>1. n + 1 \in 1..Len(t) /\ n + 1 - 1 = n
    BY <1>1
  <2>2. g[n + 1] = g[n + 1 - 1] + t[n + 1]
    BY <1>3, <2>1 DEF PartialSums
  <2> QED
    BY <1>1, <2>1, <2>2
<1>8. g[n] = f[n]
  BY <1>1, <1>6
<1> QED
  BY <1>2, <1>3, <1>7, <1>8 DEF t

\* Nothing adds up to nothing.
LEMMA SumEmpty == SumOf(<<>>) = 0
<1>1. <<>> \in Seq(Nat) /\ Len(<<>>) = 0
  OBVIOUS
<1>2. PICK f : PartialSums(<<>>, f) /\ SumOf(<<>>) = f[0]
  BY <1>1, SumIsLast
<1> QED
  BY <1>2 DEF PartialSums

-----------------------------------------------------------------------------
(* The analyst's request.                                                   *)

\* The request's sum is the same operator.
LEMMA SameSum == \A s : Request!SumOf(s) = SumOf(s)
  BY DEF SumOf, Request!SumOf
\* ... and so is its cardinality.
LEMMA SameCount == \A S : Request!Cardinality(S) = Cardinality(S)
  BY DEF Cardinality, Request!Cardinality

\* Numbers that there are have a least one.
LEMMA LeastOf ==
  ASSUME NEW S \in SUBSET Nat, S # {}
  PROVE  Request!Min(S) \in S
<1> DEFINE Less == {p \in Nat \X Nat : p[1] < p[2]}
<1>1. IsWellFoundedOn(Less, Nat)
  BY NatLessThanWellFounded DEF OpToRel
<1>2. \A i, j \in Nat : i < j => <<i, j>> \in Less
  OBVIOUS
<1>3. PICK m \in S : \A y \in S : ~(<<y, m>> \in Less)
  <2> HIDE DEF Less
  <2> QED
    BY <1>1, WFMin
<1>4. \A y \in S : m <= y
  <2> SUFFICES ASSUME NEW y \in S
               PROVE  m <= y
    OBVIOUS
  <2>1. m \in Nat /\ y \in Nat /\ ~(y < m)
    BY <1>2, <1>3
  <2> QED
    BY <2>1
<1> QED
  BY <1>4 DEF Request!Min

\* Every tool is named once: the report is not specialized, nor is a core tool.
LEMMA ToolsAreApart ==
  /\ Request!Registry \in Seq(Request!Protected \cup Request!Special)
  /\ Request!Special \cap Request!Protected = {} /\ Report \notin Request!General
  /\ \A t \in Request!Special : /\ Request!Place(t) \in 1..Len(Specialized)
                                /\ Specialized[Request!Place(t)] = t
<1> DEFINE m == Len(Core)
           n == Len(Specialized)
           R == Request!Registry
<1>1. /\ Core \in Seq(Request!General) /\ Specialized \in Seq(Request!Special)
      /\ \A i, j \in DOMAIN R : R[i] = R[j] => i = j
  BY ToolAssumption DEF Request!RequestAssumption
<1>2. m \in Nat /\ n \in Nat /\ DOMAIN Core = 1..m /\ DOMAIN Specialized = 1..n
  BY <1>1
<1>3. /\ Request!General = {Core[i] : i \in 1..m}
      /\ Request!Special = {Specialized[i] : i \in 1..n}
  BY <1>2 DEF Request!General, Request!Special, Request!Members
<1> HIDE DEF m, n
<1>4. R \in Seq(Request!Protected \cup Request!Special)
  <2>1. /\ Core \in Seq(Request!Protected \cup Request!Special)
        /\ Specialized \in Seq(Request!Protected \cup Request!Special)
        /\ <<Report>> \in Seq(Request!Protected \cup Request!Special)
    BY <1>1 DEF Request!Protected
  <2>2. Core \o Specialized \in Seq(Request!Protected \cup Request!Special)
    BY <2>1
  <2> QED
    BY <2>1, <2>2 DEF Request!Registry
<1>5. /\ DOMAIN R = 1..m + n + 1 /\ R[m + n + 1] = Report
      /\ \A i \in 1..m : R[i] = Core[i]
      /\ \A i \in 1..n : R[m + i] = Specialized[i]
  <2> DEFINE cs == Core \o Specialized
  <2>1. /\ cs \in Seq(Request!General \cup Request!Special) /\ Len(cs) = m + n
        /\ \A i \in 1..m : cs[i] = Core[i]
        /\ \A i \in 1..n : cs[m + i] = Specialized[i]
    BY <1>1, <1>2 DEF m, n
  <2> HIDE DEF cs
  <2>2. /\ Len(cs \o <<Report>>) = m + n + 1 /\ (cs \o <<Report>>)[m + n + 1] = Report
        /\ \A i \in 1..m + n : (cs \o <<Report>>)[i] = cs[i]
    BY <1>2, <2>1
  <2>3. R = cs \o <<Report>>
    BY DEF Request!Registry, cs
  <2>4. \A i \in 1..n : m + i \in 1..m + n
    BY <1>2
  <2>5. \A i \in 1..m : i \in 1..m + n
    BY <1>2
  <2>6. DOMAIN R = 1..m + n + 1
    BY <1>2, <1>4, <2>2, <2>3
  <2> QED
    BY <2>1, <2>2, <2>3, <2>4, <2>5, <2>6
<1> HIDE DEF R
<1>6. Request!Special \cap Request!Protected = {}
  <2> SUFFICES ASSUME NEW t \in Request!Special, t \in Request!Protected
               PROVE  FALSE
    OBVIOUS
  <2>1. PICK i \in 1..n : t = Specialized[i]
    BY <1>3
  <2>2. m + i \in DOMAIN R /\ R[m + i] = t
    BY <1>2, <1>5, <2>1
  <2>3. CASE t = Report
    <3>1. m + n + 1 \in DOMAIN R /\ R[m + n + 1] = t
      BY <1>2, <1>5, <2>3
    <3> QED
      BY <1>1, <1>2, <2>2, <3>1
  <2>4. CASE t \in Request!General
    <3>1. PICK j \in 1..m : t = Core[j]
      BY <1>3, <2>4
    <3>2. j \in DOMAIN R /\ R[j] = t
      BY <1>2, <1>5, <3>1
    <3> QED
      BY <1>1, <1>2, <2>2, <3>2
  <2> QED
    BY <2>3, <2>4 DEF Request!Protected
<1>7. ASSUME NEW t \in Request!Special
      PROVE  Request!Place(t) \in 1..n /\ Specialized[Request!Place(t)] = t
  <2>1. PICK i \in 1..n : t = Specialized[i]
    BY <1>3
  <2> QED
    BY <1>2, <2>1 DEF Request!Place
<1>8. Report \notin Request!General
  <2> SUFFICES ASSUME NEW j \in 1..m, Core[j] = Report
               PROVE  FALSE
    BY <1>3
  <2>1. j \in DOMAIN R /\ m + n + 1 \in DOMAIN R /\ R[j] = R[m + n + 1]
    BY <1>2, <1>5
  <2> QED
    BY <1>1, <1>2, <2>1
<1> QED
  BY <1>4, <1>6, <1>7, <1>8 DEF R, n

\* The schemas of a sequence of tools have a size.
LEMMA SchemasType ==
  ASSUME NEW tools
  PROVE  Request!Schemas(tools) \in Nat
<1> DEFINE R == Request!Registry
           size == [i \in DOMAIN R |-> IF R[i] \in tools THEN SchemaCost[R[i]] ELSE 0]
<1>1. SchemaCost \in [Request!Members(R) -> Nat]
  BY ToolAssumption DEF Request!RequestAssumption
<1>2. \A i \in DOMAIN R : R[i] \in Request!Members(R)
  BY DEF Request!Members
<1>3. Len(R) \in Nat /\ DOMAIN R = 1..Len(R)
  BY ToolsAreApart
<1> HIDE DEF R
<1>4. size \in Seq(Nat)
  BY <1>1, <1>2, <1>3
<1> QED
  BY <1>4, SumType, SameSum DEF Request!Schemas, R

\* The specialized tools can be counted.
LEMMA SpecialIsFinite == IsFiniteSet(Request!Special)
<1> DEFINE n == Len(Specialized)
<1>1. Specialized \in Seq(Request!Special)
  BY ToolAssumption DEF Request!RequestAssumption
<1>2. n \in Nat /\ Specialized \in [1..n -> Request!Special]
  BY <1>1
<1>3. \A t \in Request!Special : \E i \in 1..n : Specialized[i] = t
  BY <1>2 DEF Request!Special, Request!Members
<1>4. Specialized \in Surjection(1..n, Request!Special)
  BY <1>2, <1>3 DEF Surjection
<1>5. IsFiniteSet(1..n)
  BY <1>2, FS_Interval
<1> QED
  BY <1>4, <1>5, FS_Surjection

\* _fit_tool_schema_budget: when it has dropped as few as fit, or all it may, what is left
\* fits or cannot be dropped, and no tool is left that comes after a dropped one.
LEMMA FittedIsByPriority ==
  ASSUME hinted \in SUBSET Request!Special
  PROVE  /\ Request!Fitted \subseteq Request!Candidates
         /\ Request!General \subseteq Request!Fitted
         /\ Request!Schemas(Request!Fitted) <= SchemaBudget
              \/ Request!Fitted \subseteq Request!Protected
         /\ \A t \in Request!Fitted \cap Request!Special :
              \A u \in Request!Special \ Request!Fitted : Request!Before(t, u)
<1> DEFINE D == Request!Candidates \ Request!Protected
           After(t) == {u \in D : Request!Before(t, u)}
           enough == {k \in 0..Cardinality(D) :
                        Request!Schemas(Request!Candidates \ Request!Dropping(k)) <= SchemaBudget}
           m == IF enough = {} THEN Cardinality(D) ELSE Request!Min(enough)
<1>1. D = Request!Special /\ Request!General \subseteq Request!Candidates
      /\ Request!General \cap D = {}
  <2>1. Request!Special \cap Request!Protected = {}
    BY ToolsAreApart
  <2> QED
    BY <2>1 DEF Request!Candidates, Request!Protected
<1>2. IsFiniteSet(D) /\ Cardinality(D) \in Nat
  BY <1>1, SpecialIsFinite, FS_CardinalityType
<1>3. \A t \in D : After(t) \in SUBSET D
  OBVIOUS
<1>4. \A t \in D : IsFiniteSet(After(t)) /\ Cardinality(After(t)) \in Nat
  <2> HIDE DEF D, After
  <2> QED
    BY <1>2, <1>3, FS_Subset, FS_CardinalityType
<1>5. \A k : Request!Dropping(k) = {t \in D : Cardinality(After(t)) < k}
  BY SameCount DEF Request!Dropping
<1>6. Request!Fitted = Request!Candidates \ Request!Dropping(m)
  BY SameCount DEF Request!Fitted
<1>7. m \in 0..Cardinality(D) /\ (enough # {} => m \in enough)
  <2> HIDE DEF D
  <2>1. enough \in SUBSET Nat
    BY <1>2
  <2> HIDE DEF enough
  <2>2. enough # {} => m \in enough
    BY <2>1, LeastOf
  <2> QED
    BY <1>2, <2>2 DEF enough
<1>8. \A t, u \in D : t # u => Request!Before(t, u) \/ Request!Before(u, t)
  <2> SUFFICES ASSUME NEW t \in D, NEW u \in D, t # u
               PROVE  Request!Before(t, u) \/ Request!Before(u, t)
    OBVIOUS
  <2>1. Request!Place(t) \in Nat /\ Request!Place(u) \in Nat /\ Request!Place(t) # Request!Place(u)
    <3>1. Len(Specialized) \in Nat
      BY ToolAssumption DEF Request!RequestAssumption
    <3> QED
      BY <1>1, <3>1, ToolsAreApart
  <2>2. Request!Tier(t) \in Nat /\ Request!Tier(u) \in Nat
    BY DEF Request!Tier
  <2> QED
    BY <2>1, <2>2 DEF Request!Before
<1>9. \A t, u, v \in D : Request!Before(t, u) /\ Request!Before(u, v) => Request!Before(t, v)
  <2>1. \A t \in D : Request!Place(t) \in Nat
    <3>1. Len(Specialized) \in Nat
      BY ToolAssumption DEF Request!RequestAssumption
    <3> QED
      BY <1>1, <3>1, ToolsAreApart
  <2>2. \A t : Request!Tier(t) \in Nat
    BY DEF Request!Tier
  <2> HIDE DEF D
  <2> QED
    BY <2>1, <2>2 DEF Request!Before
<1>10. \A t \in D : ~Request!Before(t, t)
  <2>1. \A t \in D : Request!Place(t) \in Nat
    <3>1. Len(Specialized) \in Nat
      BY ToolAssumption DEF Request!RequestAssumption
    <3> QED
      BY <1>1, <3>1, ToolsAreApart
  <2>2. \A t : Request!Tier(t) \in Nat
    BY DEF Request!Tier
  <2> HIDE DEF D
  <2> QED
    BY <2>1, <2>2 DEF Request!Before
<1> HIDE DEF D, m
<1>11. Request!Schemas(Request!Fitted) <= SchemaBudget \/ Request!Fitted \subseteq Request!Protected
  <2>1. CASE enough # {}
    BY <1>6, <1>7, <2>1
  <2>2. CASE enough = {}
    <3>1. m = Cardinality(D)
      BY <2>2 DEF m
    <3>2. ASSUME NEW t \in D
          PROVE  Cardinality(After(t)) < Cardinality(D)
      <4>1. t \notin After(t)
        BY <1>10
      <4>2. Cardinality(After(t)) <= Cardinality(D) /\ After(t) # D
            /\ (Cardinality(D) = Cardinality(After(t)) => D = After(t))
        <5> HIDE DEF After
        <5> QED
          BY <1>2, <1>3, <4>1, FS_Subset
      <4> QED
        BY <1>2, <1>4, <4>2
    <3>3. Request!Dropping(m) = D
      BY <1>5, <3>1, <3>2
    <3> QED
      BY <1>6, <3>3 DEF D
  <2> QED
    BY <2>1, <2>2
<1>12. ASSUME NEW t \in Request!Fitted \cap Request!Special, NEW u \in Request!Special \ Request!Fitted
       PROVE  Request!Before(t, u)
  <2>1. t \in D /\ u \in D /\ t # u /\ t \notin Request!Dropping(m) /\ u \in Request!Dropping(m)
    BY <1>1, <1>6, <1>12 DEF D
  <2>2. ~(Cardinality(After(t)) < m) /\ Cardinality(After(u)) < m
    BY <1>5, <2>1
  <2>3. SUFFICES ASSUME ~Request!Before(t, u)
                 PROVE  FALSE
    OBVIOUS
  <2>4. Request!Before(u, t)
    BY <1>8, <2>1, <2>3
  <2>5. After(t) \in SUBSET After(u)
    BY <1>9, <2>1, <2>4
  <2>6. Cardinality(After(t)) <= Cardinality(After(u))
    <3> HIDE DEF After
    <3> QED
      BY <1>4, <2>1, <2>5, FS_Subset
  <2>7. m \in Nat /\ Cardinality(After(t)) \in Nat /\ Cardinality(After(u)) \in Nat
    BY <1>2, <1>4, <1>7, <2>1
  <2> HIDE DEF After
  <2> QED
    BY <2>2, <2>6, <2>7
<1>13. Request!Fitted \subseteq Request!Candidates /\ Request!General \subseteq Request!Fitted
  BY <1>1, <1>5, <1>6
<1> QED
  BY <1>11, <1>12, <1>13

\* What a request costs and what is withdrawn, of tools b, a history h and results o.
CostOf(b, h, o, cut, w) ==
    SystemCost + Request!Schemas(b) + 1
    + Request!Total(SubSeq(h, cut, Len(h)))
    + Request!SumOf([i \in DOMAIN o |-> IF i \in w THEN NoticeCost ELSE o[i]])
LargerOf(o, i, j) == o[i] > o[j] \/ (o[i] = o[j] /\ i < j)
LargestOf(o, k) == {i \in DOMAIN o : Cardinality({j \in DOMAIN o : LargerOf(o, j, i)}) < k}

\* The size of an assembled request, term by term.
LEMMA CostIs ==
  /\ \A cut, w : Request!Cost(cut, w) = CostOf(bound, history, outputs, cut, w)
  /\ \A k : Request!Withdrawn(k) = LargestOf(outputs, k)
<1>1. \A cut, w : Request!Cost(cut, w) = CostOf(bound, history, outputs, cut, w)
  BY DEF Request!Cost, CostOf
<1>2. \A i, j : Request!Larger(i, j) <=> LargerOf(outputs, i, j)
  BY DEF Request!Larger, LargerOf
<1>3. \A k : Request!Withdrawn(k) = LargestOf(outputs, k)
  BY <1>2, SameCount DEF Request!Withdrawn, Request!Largest, LargestOf
<1> QED
  BY <1>1, <1>3

\* The sizes the requests are built from are numbers.
LEMMA BudgetType ==
  /\ SchemaBudget \in Nat /\ RequestBudget \in Nat /\ SystemCost \in Nat /\ NoticeCost \in Nat
  /\ HistoryLimit \in Nat /\ MaxResults \in Nat
  /\ ResultCosts \in SUBSET Nat /\ Histories \in SUBSET Seq(Request!Messages)
  BY ToolAssumption DEF Request!RequestAssumption

\* The messages of a conversation have a size.
LEMMA TotalType ==
  ASSUME NEW h \in Seq(Request!Messages)
  PROVE  Request!Total(h) \in Nat
<1>1. [i \in DOMAIN h |-> h[i].cost] \in Seq(Nat)
  <2>1. Len(h) \in Nat /\ DOMAIN h = 1..Len(h) /\ \A i \in DOMAIN h : h[i] \in Request!Messages
    OBVIOUS
  <2>2. \A i \in DOMAIN h : h[i].cost \in Nat
    BY <2>1 DEF Request!Messages
  <2> QED
    BY <2>1, <2>2
<1> QED
  BY <1>1, SumType, SameSum DEF Request!Total

\* The results that cost more than their notice are the largest there are, and withdrawing
\* them costs the least: when that does not fit, nothing does.
LEMMA NothingElseFits ==
  ASSUME NEW b, NEW h \in Seq(Request!Messages), NEW o \in Seq(Nat),
         \A k \in 0..Len(o) : ~(CostOf(b, h, o, Len(h) + 1, LargestOf(o, k)) <= RequestBudget),
         NEW w \in SUBSET DOMAIN o
  PROVE  CostOf(b, h, o, Len(h) + 1, w) > RequestBudget
<1> DEFINE n == Len(o)
           L == {i \in 1..n : o[i] > NoticeCost}
           Above(i) == {j \in 1..n : LargerOf(o, j, i)}
           with == [i \in DOMAIN o |-> IF i \in w THEN NoticeCost ELSE o[i]]
           least == [i \in DOMAIN o |-> IF i \in L THEN NoticeCost ELSE o[i]]
<1>1. n \in Nat /\ DOMAIN o = 1..n /\ (\A i \in 1..n : o[i] \in Nat) /\ NoticeCost \in Nat
  BY BudgetType
<1> HIDE DEF n
<1>2. IsFiniteSet(1..n) /\ Cardinality(1..n) = n
  <2>1. IsFiniteSet(1..n) /\ Cardinality(1..n) = IF 1 > n THEN 0 ELSE n - 1 + 1
    BY <1>1, FS_Interval
  <2> QED
    BY <1>1, <2>1
<1>3. L \in SUBSET (1..n) /\ \A i : Above(i) \in SUBSET (1..n)
  OBVIOUS
<1>4. /\ IsFiniteSet(L) /\ Cardinality(L) \in 0..n
      /\ \A i : IsFiniteSet(Above(i)) /\ Cardinality(Above(i)) \in Nat
  <2> HIDE DEF L, Above
  <2>1. IsFiniteSet(L) /\ Cardinality(L) <= n /\ Cardinality(L) \in Nat
    <3>1. IsFiniteSet(L) /\ Cardinality(L) <= Cardinality(1..n)
      BY <1>2, <1>3, FS_Subset
    <3> QED
      BY <1>2, <3>1, FS_CardinalityType
  <2>2. \A i : IsFiniteSet(Above(i)) /\ Cardinality(Above(i)) \in Nat
    BY <1>2, <1>3, FS_Subset, FS_CardinalityType
  <2> QED
    BY <1>1, <2>1, <2>2
<1>5. LargestOf(o, Cardinality(L)) = L
  <2>1. LargestOf(o, Cardinality(L)) = {i \in 1..n : Cardinality(Above(i)) < Cardinality(L)}
    BY <1>1 DEF LargestOf
  <2>2. ASSUME NEW i \in L
        PROVE  Cardinality(Above(i)) < Cardinality(L)
    <3>1. Above(i) \in SUBSET L /\ i \notin Above(i)
      BY <1>1 DEF LargerOf
    <3>2. Cardinality(Above(i)) <= Cardinality(L) /\ Cardinality(Above(i)) # Cardinality(L)
      <4> HIDE DEF L, Above
      <4>1. Cardinality(Above(i)) <= Cardinality(L)
            /\ (Cardinality(L) = Cardinality(Above(i)) => L = Above(i))
        BY <1>4, <3>1, FS_Subset
      <4> QED
        BY <2>2, <3>1, <4>1
    <3> HIDE DEF L, Above
    <3> QED
      BY <1>4, <3>2
  <2>3. ASSUME NEW i \in (1..n) \ L
        PROVE  ~(Cardinality(Above(i)) < Cardinality(L))
    <3>1. L \in SUBSET Above(i)
      BY <1>1 DEF LargerOf
    <3> HIDE DEF L, Above
    <3>2. Cardinality(L) <= Cardinality(Above(i))
      BY <1>4, <3>1, FS_Subset
    <3> QED
      BY <1>4, <3>2
  <2> HIDE DEF L, Above
  <2> QED
    BY <1>3, <2>1, <2>2, <2>3
<1>6. ~(CostOf(b, h, o, Len(h) + 1, L) <= RequestBudget)
  <2> HIDE DEF L
  <2> QED
    BY <1>4, <1>5 DEF n
<1>7. with \in Seq(Nat) /\ least \in Seq(Nat) /\ Len(with) = n /\ Len(least) = n
  <2>1. /\ with = [i \in 1..n |-> IF i \in w THEN NoticeCost ELSE o[i]]
        /\ least = [i \in 1..n |-> IF i \in L THEN NoticeCost ELSE o[i]]
    BY <1>1
  <2> HIDE DEF L, with, least
  <2> QED
    BY <1>1, <2>1
<1>8. \A i \in 1..n : least[i] <= with[i]
  BY <1>1
<1> DEFINE room == SystemCost + Request!Schemas(b) + 1 + Request!Total(SubSeq(h, Len(h) + 1, Len(h)))
<1>9. room \in Nat
  <2>1. SubSeq(h, Len(h) + 1, Len(h)) \in Seq(Request!Messages)
    <3>1. Len(h) \in Nat
      OBVIOUS
    <3>2. SubSeq(h, Len(h) + 1, Len(h)) = <<>>
      BY <3>1, SubSeqEmpty
    <3> QED
      BY <3>2
  <2>2. PICK t \in Nat : t = Request!Total(SubSeq(h, Len(h) + 1, Len(h)))
    BY <2>1, TotalType
  <2>3. PICK u \in Nat : u = Request!Schemas(b)
    BY SchemasType
  <2> QED
    BY <2>2, <2>3, BudgetType
<1>10. /\ CostOf(b, h, o, Len(h) + 1, w) = room + SumOf(with)
       /\ CostOf(b, h, o, Len(h) + 1, L) = room + SumOf(least)
  <2> HIDE DEF L
  <2> QED
    BY SameSum DEF CostOf
<1> HIDE DEF with, least, room, L
<1>11. SumOf(least) <= SumOf(with)
  <2>1. /\ Len(with) = Len(least) + 0 /\ 0 \in Nat
        /\ \A i \in 1..Len(least) : i + 0 = i
    BY <1>1, <1>7
  <2>2. \A i \in 1..Len(least) : least[i] <= with[i + 0]
    BY <1>7, <1>8, <2>1
  <2> QED
    BY <1>7, <2>1, <2>2, SumCompare
<1>12. SumOf(least) \in Nat /\ SumOf(with) \in Nat /\ RequestBudget \in Nat
  BY <1>7, SumType, BudgetType
<1> QED
  BY <1>6, <1>9, <1>10, <1>11, <1>12

\* A request, or none yet, for a history h and results o.
RequestOk(r, h, o) ==
    /\ r.cut \in 0..Len(h) + 1 /\ r.withdrawn \subseteq DOMAIN o
    /\ r # Request!NoRequest =>
         /\ r.cut \in {1, Len(h) + 1} \cup {i \in DOMAIN h : h[i].role = "human"}
         /\ r.withdrawn # {} => r.cut = Len(h) + 1

RequestTyped ==
    /\ phase \in {"new", "model", "tools", "answered", "context_limit"}
    /\ asks \in BOOLEAN /\ trusted \in BOOLEAN /\ hinted \in SUBSET Request!Special
    /\ history \in Seq(Request!Messages) /\ outputs \in Seq(Nat)
    /\ RequestOk(sent, history, outputs)

\* The tools are those that were fitted when the turn began, for what it asks.
FittedFor(a, t, hints) ==
    LET tier(x) == IF x \in Request!Protected THEN 0 ELSE IF x \in hints THEN 1 ELSE 2
        before(x, y) ==
            tier(x) < tier(y) \/ (tier(x) = tier(y) /\ Request!Place(x) < Request!Place(y))
        candidates ==
            Request!General \cup Request!Special \cup (IF t /\ a THEN {Report} ELSE {})
        dropping(k) ==
            {x \in candidates \ Request!Protected :
                Request!Cardinality({y \in candidates \ Request!Protected : before(x, y)}) < k}
        droppable == candidates \ Request!Protected
        enough == {k \in 0..Request!Cardinality(droppable) :
                     Request!Schemas(candidates \ dropping(k)) <= SchemaBudget}
    IN  candidates \ dropping(IF enough = {} THEN Request!Cardinality(droppable)
                              ELSE Request!Min(enough))

RequestInv ==
    /\ RequestTyped
    /\ IF phase = "new" THEN bound = {} /\ sent = Request!NoRequest /\ outputs = <<>>
       ELSE bound = FittedFor(asks, trusted, hinted)
    /\ phase \in {"tools", "answered"} =>
         CostOf(bound, history, outputs, sent.cut, sent.withdrawn) <= RequestBudget
    /\ phase = "context_limit" =>
         \A k \in 0..Len(outputs) :
           ~(CostOf(bound, history, outputs, Len(history) + 1, LargestOf(outputs, k))
               <= RequestBudget)

\* The tools a turn binds depend only on the message's intent.
LEMMA FittedIs == Request!Fitted = FittedFor(asks, trusted, hinted)
  BY DEF Request!Fitted, FittedFor, Request!Candidates, Request!Dropping, Request!Before,
         Request!Tier

\* The first turn has sent nothing.
LEMMA RequestInit == Request!Init => RequestInv
<1> SUFFICES ASSUME Request!Init
             PROVE  RequestInv
  OBVIOUS
<1> USE DEF Request!Init
<1>1. RequestOk(sent, history, outputs)
  BY DEF RequestOk, Request!NoRequest
<1>2. RequestTyped
  BY <1>1 DEF RequestTyped
<1> QED
  BY <1>2 DEF RequestInv

\* What is kept of a conversation is a sequence of messages.
LEMMA RecentIsHistory ==
  ASSUME NEW h \in Seq(Request!Messages)
  PROVE  Request!Recent(h) \in Seq(Request!Messages)
<1>1. Len(h) \in Nat /\ (\A i \in 1..Len(h) : h[i] \in Request!Messages) /\ HistoryLimit \in Nat
  BY BudgetType
<1>2. CASE HistoryLimit = 0 \/ Len(h) <= HistoryLimit
  BY <1>2 DEF Request!Recent
<1>3. CASE ~(HistoryLimit = 0 \/ Len(h) <= HistoryLimit)
  <2>1. Len(h) - HistoryLimit + 1 \in 1..Len(h)
    BY <1>1, <1>3
  <2>2. \A i \in Len(h) - HistoryLimit + 1..Len(h) : h[i] \in Request!Messages
    BY <1>1, <2>1
  <2>3. SubSeq(h, Len(h) - HistoryLimit + 1, Len(h)) \in Seq(Request!Messages)
    BY <1>1, <2>1, <2>2, SubSeqProperties
  <2> QED
    BY <1>3, <2>3 DEF Request!Recent
<1> QED
  BY <1>2, <1>3

\* _bounded_analyst_prompt: what it returns fits, and drops whole turns first.
LEMMA AssembledFits ==
  ASSUME RequestTyped, Request!Cutting # {} \/ Request!Shrinking # {}
  PROVE  /\ CostOf(bound, history, outputs, Request!Assembled.cut, Request!Assembled.withdrawn)
              <= RequestBudget
         /\ RequestOk(Request!Assembled, history, outputs)
<1> DEFINE n == Len(history)
<1>1. n \in Nat /\ DOMAIN history = 1..n /\ Len(outputs) \in Nat
  BY DEF RequestTyped
<1>2. CASE Request!Cutting # {}
  <2>1. Request!Cutting \in SUBSET Nat
    BY <1>1 DEF Request!Cutting, Request!Cuts
  <2>2. PICK c \in Request!Cutting : c = Request!Min(Request!Cutting)
    BY <1>2, <2>1, LeastOf
  <2>3. Request!Assembled = [cut |-> c, withdrawn |-> {}]
    BY <1>2, <2>2 DEF Request!Assembled
  <2>4. /\ c \in {1, n + 1} \cup {i \in DOMAIN history : history[i].role = "human"}
        /\ Request!Fits(c, {})
    BY DEF Request!Cutting, Request!Cuts
  <2>5. CostOf(bound, history, outputs, c, {}) <= RequestBudget
    BY <2>4, CostIs DEF Request!Fits
  <2>6. c \in 0..n + 1
    BY <1>1, <2>4
  <2> HIDE DEF n
  <2>7. RequestOk([cut |-> c, withdrawn |-> {}], history, outputs)
    BY <2>4, <2>6 DEF RequestOk, n
  <2> QED
    BY <2>3, <2>5, <2>7
<1>3. CASE Request!Cutting = {}
  <2>1. Request!Shrinking \in SUBSET Nat /\ Request!Shrinking # {}
    BY <1>1, <1>3 DEF Request!Shrinking
  <2>2. PICK k \in Request!Shrinking : k = Request!Min(Request!Shrinking)
    BY <2>1, LeastOf
  <2>3. PICK w : w = LargestOf(outputs, k)
    OBVIOUS
  <2>4. Request!Assembled = [cut |-> n + 1, withdrawn |-> w]
    BY <1>3, <2>2, <2>3, CostIs DEF Request!Assembled
  <2>5. CostOf(bound, history, outputs, n + 1, w) <= RequestBudget
    BY <2>3, CostIs DEF Request!Shrinking, Request!Fits
  <2>6. w \in SUBSET DOMAIN outputs
    BY <2>3 DEF LargestOf
  <2>7. n + 1 \in 0..n + 1
    BY <1>1
  <2>8. RequestOk([cut |-> n + 1, withdrawn |-> w], history, outputs)
    BY <2>6, <2>7 DEF RequestOk
  <2> QED
    BY <2>4, <2>5, <2>8
<1> QED
  BY <1>2, <1>3

\* Every step of the loop keeps what was fitted and what fits.
LEMMA RequestStep == RequestInv /\ [Request!Next]_requestVars => RequestInv'
<1> SUFFICES ASSUME RequestInv, [Request!Next]_requestVars
             PROVE  RequestInv'
  OBVIOUS
<1>1. CASE Request!Begin
  <2>1. /\ phase = "new" /\ phase' = "model" /\ bound' = Request!Fitted
        /\ UNCHANGED <<asks, trusted, hinted, outputs, sent>>
    BY <1>1 DEF Request!Begin
  <2>2. bound' = FittedFor(asks', trusted', hinted')
    BY <2>1, FittedIs
  <2>3. history' \in Seq(Request!Messages)
    BY <1>1, BudgetType, RecentIsHistory DEF Request!Begin
  <2>4. RequestOk(sent', history', outputs')
    BY <2>1, <2>3 DEF RequestInv, RequestOk, Request!NoRequest
  <2>5. RequestTyped'
    BY <2>1, <2>3, <2>4 DEF RequestInv, RequestTyped
  <2> QED
    BY <2>1, <2>2, <2>5 DEF RequestInv
<1>2. CASE Request!Send
  <2>1. /\ phase = "model" /\ phase' \in {"tools", "answered"} /\ sent' = Request!Assembled
        /\ (Request!Cutting # {} \/ Request!Shrinking # {})
        /\ UNCHANGED <<asks, trusted, hinted, bound, history, outputs>>
    BY <1>2 DEF Request!Send
  <2>2. /\ CostOf(bound, history, outputs, sent'.cut, sent'.withdrawn) <= RequestBudget
        /\ RequestOk(sent', history, outputs)
    BY <2>1, AssembledFits DEF RequestInv
  <2>3. RequestTyped'
    BY <2>1, <2>2 DEF RequestInv, RequestTyped
  <2> QED
    BY <2>1, <2>2, <2>3 DEF RequestInv
<1>3. CASE Request!GiveUp
  <2>1. /\ phase = "model" /\ phase' = "context_limit" /\ Request!Shrinking = {}
        /\ UNCHANGED <<asks, trusted, hinted, bound, history, outputs, sent>>
    BY <1>3 DEF Request!GiveUp
  <2>2. \A k \in 0..Len(outputs) :
          ~(CostOf(bound, history, outputs, Len(history) + 1, LargestOf(outputs, k))
              <= RequestBudget)
    BY <2>1, CostIs DEF Request!Shrinking, Request!Fits
  <2>3. RequestTyped'
    BY <2>1 DEF RequestInv, RequestTyped
  <2> QED
    BY <2>1, <2>2, <2>3 DEF RequestInv
<1>4. CASE Request!Tools
  <2>1. /\ phase = "tools" /\ phase' = "model"
        /\ UNCHANGED <<asks, trusted, hinted, bound, history, sent>>
    BY <1>4 DEF Request!Tools
  <2>2. PICK n \in Nat : \E f \in [1..n -> ResultCosts] : outputs' = outputs \o f
    <3>1. Len(outputs) \in Nat /\ MaxResults \in Nat /\ Len(outputs) < MaxResults
      BY <1>4, BudgetType DEF Request!Tools, RequestInv, RequestTyped
    <3>2. 1..(MaxResults - Len(outputs)) \in SUBSET Nat
      BY <3>1
    <3> QED
      BY <1>4, <3>2 DEF Request!Tools
  <2>3. PICK added \in [1..n -> ResultCosts] : outputs' = outputs \o added
    BY <2>2
  <2>4. /\ outputs' \in Seq(Nat) /\ DOMAIN outputs \in SUBSET DOMAIN outputs'
    <3>1. outputs \in Seq(Nat)
      BY DEF RequestInv, RequestTyped
    <3>2. added \in Seq(Nat)
      <4>1. \A i \in 1..n : added[i] \in Nat
        BY BudgetType
      <4> QED
        BY <4>1
    <3>3. outputs \o added \in Seq(Nat) /\ Len(outputs \o added) = Len(outputs) + Len(added)
          /\ Len(outputs) \in Nat /\ Len(added) \in Nat
      BY <3>1, <3>2
    <3>4. DOMAIN outputs = 1..Len(outputs) /\ DOMAIN (outputs \o added) = 1..Len(outputs \o added)
      BY <3>1, <3>3
    <3>5. \A k, m \in Nat : 1..k \in SUBSET (1..k + m)
      OBVIOUS
    <3>6. DOMAIN outputs \in SUBSET DOMAIN (outputs \o added)
      BY <3>3, <3>4, <3>5
    <3> QED
      BY <2>3, <3>3, <3>6
  <2>5. RequestOk(sent', history', outputs')
    BY <2>1, <2>4 DEF RequestInv, RequestTyped, RequestOk
  <2>6. RequestTyped'
    BY <2>1, <2>4, <2>5 DEF RequestInv, RequestTyped
  <2> QED
    BY <2>1, <2>6 DEF RequestInv
<1>5. CASE UNCHANGED requestVars
  <2>1. UNCHANGED <<phase, asks, trusted, hinted, bound, history, outputs, sent>>
    BY <1>5 DEF requestVars
  <2>2. RequestTyped'
    BY <2>1 DEF RequestInv, RequestTyped
  <2> QED
    BY <2>1, <2>2 DEF RequestInv
<1> QED
  BY <1>1, <1>2, <1>3, <1>4, <1>5 DEF Request!Next

\* The invariant is what the bounds of a request are for.
LEMMA RequestInvIsBounded == RequestInv => RequestIsBounded
<1> SUFFICES ASSUME RequestInv
             PROVE  RequestIsBounded
  OBVIOUS
<1>1. phase # "new" => bound = Request!Fitted
  BY FittedIs DEF RequestInv
<1>2. /\ Request!Fitted \subseteq Request!Candidates /\ Request!General \subseteq Request!Fitted
      /\ Request!Schemas(Request!Fitted) <= SchemaBudget
           \/ Request!Fitted \subseteq Request!Protected
      /\ \A t \in Request!Fitted \cap Request!Special :
           \A u \in Request!Special \ Request!Fitted : Request!Before(t, u)
  BY FittedIsByPriority DEF RequestInv, RequestTyped
<1>3. Request!TypeOK
  <2>1. /\ bound \subseteq Request!Protected \cup Request!Special
        /\ (Report \in bound => trusted /\ asks)
        /\ (phase # "new" => Request!General \subseteq bound)
    <3>1. CASE phase = "new"
      BY <3>1 DEF RequestInv
    <3>2. CASE phase # "new"
      <4>1. Report \notin Request!General \cup Request!Special
        BY ToolsAreApart DEF Request!Protected
      <4> QED
        BY <1>1, <1>2, <3>2, <4>1 DEF Request!Candidates, Request!Protected
    <3> QED
      BY <3>1, <3>2
  <2> QED
    BY <2>1 DEF RequestInv, RequestTyped, RequestOk, Request!TypeOK
<1>4. Request!RequestFits
  BY CostIs DEF RequestInv, Request!RequestFits
<1>5. Request!TurnsStayWhole
  BY DEF RequestInv, RequestTyped, RequestOk, Request!TurnsStayWhole, Request!Sent
<1>6. Request!LimitIsReal
  <2> SUFFICES ASSUME phase = "context_limit", NEW w \in SUBSET DOMAIN outputs
               PROVE  Request!Cost(Len(history) + 1, w) > RequestBudget
    BY DEF Request!LimitIsReal
  <2>1. /\ history \in Seq(Request!Messages) /\ outputs \in Seq(Nat)
        /\ \A k \in 0..Len(outputs) :
             ~(CostOf(bound, history, outputs, Len(history) + 1, LargestOf(outputs, k))
                 <= RequestBudget)
    BY DEF RequestInv, RequestTyped
  <2>2. CostOf(bound, history, outputs, Len(history) + 1, w) > RequestBudget
    BY <2>1, NothingElseFits
  <2> QED
    BY <2>2, CostIs
<1>7. Request!TrimIsByPriority
  <2> SUFFICES ASSUME phase # "new"
               PROVE  /\ Request!Schemas(bound) > SchemaBudget => bound \subseteq Request!Protected
                      /\ \A t \in bound \cap Request!Special, u \in Request!Special \ bound :
                           Request!Before(t, u)
    BY DEF Request!TrimIsByPriority, Request!Before
  <2>1. Request!Schemas(bound) \in Nat /\ SchemaBudget \in Nat
    BY SchemasType, BudgetType
  <2> QED
    BY <1>1, <1>2, <2>1
<1> QED
  BY <1>3, <1>4, <1>5, <1>6, <1>7 DEF RequestIsBounded

-----------------------------------------------------------------------------
(* The provider's gate.                                                     *)

\* The gate's sum is the same operator.
LEMMA GateSum == \A s : Gate!SumOf(s) = SumOf(s)
  BY DEF SumOf, Gate!SumOf

\* What is assumed of the gate's settings.
LEMMA GateConstants ==
  /\ Shared \notin Procs /\ Proc \in [Calls -> Procs]
  /\ TokenBudget \in Nat \ {0} /\ Period \in Nat \ {0} /\ MaxWait \in Nat
  /\ Costs \in SUBSET (Nat \ {0})
  BY GateAssumption DEF Gate!ProcAssumption, Gate!BudgetAssumption

\* Some entry of a window is the least that stays.
LEMMA GateLeast ==
  ASSUME NEW S \in SUBSET Nat, S # {}
  PROVE  Gate!Min(S) \in S
<1>1. Gate!Min(S) = Request!Min(S)
  BY DEF Gate!Min, Request!Min
<1> QED
  BY <1>1, LeastOf

Entry == [age : 0..Period - 1, cost : Costs, by : Calls]

\* An entry has an age, a cost and an owner.
LEMMA EntryTyped ==
  ASSUME NEW x \in Entry
  PROVE  /\ x.age \in 0..Period - 1 /\ x.age \in Nat /\ x.cost \in Costs /\ x.cost \in Nat
         /\ x.by \in Calls
<1>1. x.age \in 0..Period - 1 /\ x.cost \in Costs /\ x.by \in Calls
  BY DEF Entry
<1>2. Period \in Nat /\ Costs \in SUBSET Nat
  BY GateConstants
<1>3. x.age \in Nat
  BY <1>1, <1>2
<1> QED
  BY <1>1, <1>2, <1>3

\* A window is charged in order and never beyond the budget, but for one call.
Ordered(e) == \A i, j \in DOMAIN e : i < j => e[i].age >= e[j].age
WindowOk(e) == e \in Seq(Entry) /\ Ordered(e) /\ Gate!Within(e)

\* What a window holds is a number of tokens.
LEMMA SpentType ==
  ASSUME NEW e \in Seq(Entry)
  PROVE  Gate!Spent(e) \in Nat
<1>1. [i \in DOMAIN e |-> e[i].cost] \in Seq(Nat)
  <2>1. Len(e) \in Nat /\ DOMAIN e = 1..Len(e) /\ \A i \in DOMAIN e : e[i] \in Entry
    OBVIOUS
  <2>2. \A i \in DOMAIN e : e[i].cost \in Nat
    BY <2>1, GateConstants DEF Entry
  <2> QED
    BY <2>1, <2>2
<1> QED
  BY <1>1, SumType, GateSum DEF Gate!Spent

\* An admitted call leaves a window that holds.
LEMMA ChargeHolds ==
  ASSUME NEW e, WindowOk(e), NEW x \in Entry, x.age = 0, Gate!Admits(e, x.cost)
  PROVE  /\ WindowOk(Append(e, x)) /\ Append(e, x) # <<>>
         /\ Head(Append(e, x)) = IF e = <<>> THEN x ELSE Head(e)
<1> DEFINE n == Len(e)
           f == Append(e, x)
           costs == [i \in DOMAIN e |-> e[i].cost]
<1>1. /\ e \in Seq(Entry) /\ n \in Nat /\ DOMAIN e = 1..n /\ \A i \in 1..n : e[i] \in Entry
  BY DEF WindowOk
<1>2. /\ f \in Seq(Entry) /\ Len(f) = n + 1 /\ DOMAIN f = 1..n + 1 /\ f[n + 1] = x
      /\ \A i \in 1..n : f[i] = e[i]
  BY <1>1
<1>3. x.cost \in Nat /\ \A i \in 1..n : e[i].cost \in Nat /\ e[i].age \in Nat
  <2> HIDE DEF n
  <2> QED
    BY <1>1, EntryTyped
<1> HIDE DEF n, f
<1>4. Ordered(f)
  <2> SUFFICES ASSUME NEW i \in 1..n + 1, NEW j \in 1..n + 1, i < j
               PROVE  f[i].age >= f[j].age
    BY <1>2 DEF Ordered
  <2>1. i \in 1..n /\ f[i] = e[i]
    BY <1>1, <1>2
  <2>2. CASE j = n + 1
    BY <1>2, <1>3, <2>1, <2>2
  <2>3. CASE j # n + 1
    <3>1. j \in 1..n /\ f[j] = e[j]
      BY <1>1, <1>2, <2>3
    <3> QED
      BY <1>1, <2>1, <3>1 DEF WindowOk, Ordered
  <2> QED
    BY <2>2, <2>3
<1>5. Gate!Spent(f) = Gate!Spent(e) + x.cost
  <2>1. costs \in Seq(Nat) /\ Len(costs) = n
    BY <1>1, <1>3
  <2>2. [i \in DOMAIN f |-> f[i].cost] = Append(costs, x.cost)
    <3>1. /\ Append(costs, x.cost) \in Seq(Nat) /\ Len(Append(costs, x.cost)) = n + 1
          /\ Append(costs, x.cost)[n + 1] = x.cost
          /\ \A i \in 1..n : Append(costs, x.cost)[i] = costs[i]
      BY <1>1, <1>3, <2>1
    <3>2. \A i \in 1..n + 1 : f[i].cost = Append(costs, x.cost)[i]
      BY <1>1, <1>2, <3>1
    <3>3. DOMAIN Append(costs, x.cost) = 1..n + 1
      BY <1>1, <3>1
    <3>4. Append(costs, x.cost) = [i \in 1..n + 1 |-> Append(costs, x.cost)[i]]
      BY <3>1, <3>3
    <3> QED
      BY <1>2, <3>2, <3>4
  <2> HIDE DEF costs
  <2>3. SumOf(Append(costs, x.cost)) = SumOf(costs) + x.cost
    BY <1>3, <2>1, SumAppend
  <2> QED
    BY <2>2, <2>3, GateSum DEF Gate!Spent, costs
<1>6. Gate!Within(f)
  <2>1. CASE e = <<>>
    BY <1>1, <1>2, <2>1 DEF Gate!Within, n
  <2>2. CASE e # <<>>
    BY <1>5, <2>2 DEF Gate!Admits, Gate!Within
  <2> QED
    BY <2>1, <2>2
<1>7. f # <<>> /\ Head(f) = IF e = <<>> THEN x ELSE Head(e)
  <2>1. f # <<>> /\ Head(f) = f[1]
    BY <1>1, <1>2
  <2>2. CASE e = <<>>
    BY <1>2, <2>1, <2>2 DEF n
  <2>3. CASE e # <<>>
    <3>1. 1 \in 1..n /\ Head(e) = e[1]
      BY <1>1, <2>3 DEF n
    <3> QED
      BY <1>2, <2>1, <2>3, <3>1
  <2> QED
    BY <2>1, <2>2, <2>3
<1> QED
  BY <1>2, <1>4, <1>6, <1>7 DEF WindowOk, f

\* One tick prunes a window from its oldest entry on, and what it holds stays within.
LEMMA AgedHolds ==
  ASSUME NEW e, WindowOk(e)
  PROVE  /\ WindowOk(Gate!Aged(e)) /\ (e = <<>> => Gate!Aged(e) = <<>>)
         /\ Gate!Aged(e) # <<>> =>
              /\ e # <<>> /\ Head(Gate!Aged(e)).age <= Head(e).age + 1
              /\ Head(Gate!Aged(e)).age <= Period - 1
<1> DEFINE n == Len(e)
           F == Gate!Fresh(e)
<1>1. /\ e \in Seq(Entry) /\ n \in Nat /\ DOMAIN e = 1..n /\ \A i \in 1..n : e[i] \in Entry
  BY DEF WindowOk
<1>2. Period \in Nat /\ \A i \in 1..n : /\ e[i].cost \in Costs /\ e[i].cost \in Nat
                                        /\ e[i].age \in 0..Period - 1 /\ e[i].by \in Calls
  BY <1>1, GateConstants DEF Entry
<1>3. F = {i \in 1..n : e[i].age + 1 < Period}
  BY <1>1 DEF Gate!Fresh
<1>4. WindowOk(<<>>)
  <2>1. [i \in DOMAIN <<>> |-> <<>>[i].cost] = <<>>
    OBVIOUS
  <2>2. Gate!Spent(<<>>) = 0
    BY <2>1, SumEmpty, GateSum DEF Gate!Spent
  <2> QED
    BY <2>2, GateConstants DEF WindowOk, Ordered, Gate!Within
<1> HIDE DEF n, F
<1>5. CASE F = {}
  <2>1. Gate!Aged(e) = <<>>
    BY <1>5 DEF Gate!Aged, F
  <2> QED
    BY <1>4, <2>1
<1>6. CASE F # {}
  <2>1. PICK m \in 1..n : m = Gate!Min(F) /\ e[m].age + 1 < Period
    <3>1. F \in SUBSET Nat
      BY <1>3
    <3> QED
      BY <1>3, <1>6, <3>1, GateLeast
  <2>2. PICK d \in Nat : d = m - 1
    BY <1>1
  <2> DEFINE old == Gate!Older(e)
             f == SubSeq(old, m, n)
  <2>3. Gate!Aged(e) = f
    BY <1>6, <2>1 DEF Gate!Aged, F, n
  <2>4. \A i \in m..n :
          old[i] \in Entry /\ old[i].age = e[i].age + 1 /\ old[i].cost = e[i].cost
    <3> SUFFICES ASSUME NEW i \in m..n
                 PROVE  old[i] \in Entry /\ old[i].age = e[i].age + 1 /\ old[i].cost = e[i].cost
      OBVIOUS
    <3>1. i \in 1..n /\ m <= i
      BY <1>1
    <3>2. old[i] = [e[i] EXCEPT !.age = e[i].age + 1]
      BY <1>1, <3>1 DEF Gate!Older
    <3>3. old[i] = [age |-> e[i].age + 1, cost |-> e[i].cost, by |-> e[i].by]
      BY <1>1, <3>1, <3>2 DEF Entry
    <3>4. e[i].age + 1 \in 0..Period - 1
      <4>1. e[m].age >= e[i].age
        <5>1. m < i \/ m = i
          BY <1>1, <3>1
        <5>2. m = i => e[m].age >= e[i].age
          BY <1>2, <3>1
        <5> QED
          BY <1>1, <3>1, <5>1, <5>2 DEF WindowOk, Ordered
      <4> QED
        BY <1>2, <2>1, <3>1, <4>1
    <3> QED
      BY <1>2, <3>1, <3>3, <3>4 DEF Entry
  <2>5. /\ f \in Seq(Entry) /\ Len(f) = n - d /\ n - d \in 1..n
        /\ \A k \in 1..n - d : k + d \in m..n /\ f[k] = old[k + d]
    <3>1. n - m + 1 = n - d /\ n - d \in 1..n /\ m <= n
      BY <1>1, <2>2
    <3>2. /\ f \in Seq(Entry) /\ Len(f) = n - m + 1
          /\ \A k \in 1..n - m + 1 : f[k] = old[m + k - 1]
      <4> HIDE DEF old
      <4>1. m \in Int /\ n \in Int /\ m <= n /\ \A i \in m..n : old[i] \in Entry
        BY <1>1, <2>4, <3>1
      <4>2. /\ SubSeq(old, m, n) \in Seq(Entry)
            /\ Len(SubSeq(old, m, n)) = IF m <= n THEN n - m + 1 ELSE 0
            /\ \A i \in 1..n - m + 1 : SubSeq(old, m, n)[i] = old[m + i - 1]
        <5> HIDE DEF f
        <5> QED
          BY <4>1, SubSeqProperties
      <4> QED
        BY <4>1, <4>2
    <3>3. \A k \in 1..n - d : k + d \in m..n /\ m + k - 1 = k + d
      BY <1>1, <2>2
    <3> HIDE DEF f
    <3> QED
      BY <3>1, <3>2, <3>3
  <2> HIDE DEF f, old
  <2>6. /\ DOMAIN f = 1..n - d
        /\ \A k \in 1..n - d : /\ k + d \in m..n /\ k + d \in 1..n
                               /\ f[k].age = e[k + d].age + 1 /\ f[k].cost = e[k + d].cost
    <3>1. \A k \in 1..n - d : k + d \in 1..n
      BY <1>1, <2>2, <2>5
    <3>2. DOMAIN f = 1..n - d
      BY <2>5
    <3> QED
      BY <2>4, <2>5, <3>1, <3>2
  <2>7. Ordered(f)
    <3> SUFFICES ASSUME NEW i \in 1..n - d, NEW j \in 1..n - d, i < j
                 PROVE  f[i].age >= f[j].age
      BY <2>6 DEF Ordered
    <3>1. PICK a \in 1..n : a = i + d
      BY <2>6
    <3>2. PICK b \in 1..n : b = j + d
      BY <2>6
    <3>3. a < b
      BY <2>2, <3>1, <3>2
    <3>4. e[a].age >= e[b].age
      BY <1>1, <3>3 DEF WindowOk, Ordered
    <3>5. f[i].age = e[a].age + 1 /\ f[j].age = e[b].age + 1
      BY <2>6, <3>1, <3>2
    <3> QED
      BY <1>2, <3>4, <3>5
  <2>8. Gate!Within(f)
    <3>1. CASE Gate!Spent(e) <= TokenBudget
      <4>1. Gate!Spent(f) <= Gate!Spent(e)
        <5> DEFINE s == [i \in 1..n |-> e[i].cost]
                   t == [i \in 1..n - d |-> f[i].cost]
        <5>1. s \in Seq(Nat) /\ Len(s) = n
          BY <1>1, <1>2
        <5>2. \A i \in 1..n - d : f[i].cost \in Nat
          BY <1>2, <2>6
        <5>3. t \in Seq(Nat) /\ Len(t) = n - d
          <6>1. PICK r \in Nat : r = n - d
            BY <1>1, <2>5
          <6>2. t = [i \in 1..r |-> f[i].cost] /\ \A i \in 1..r : f[i].cost \in Nat
            BY <5>2, <6>1
          <6> HIDE DEF t
          <6> QED
            BY <6>1, <6>2
        <5>4. \A k \in 1..n - d : t[k] <= s[k + d]
          BY <1>2, <2>6
        <5>5. Gate!Spent(e) = SumOf(s) /\ Gate!Spent(f) = SumOf(t)
          BY <1>1, <2>6, GateSum DEF Gate!Spent
        <5> HIDE DEF s, t
        <5>6. Len(s) = Len(t) + d /\ \A k \in 1..Len(t) : t[k] <= s[k + d]
          BY <1>1, <2>2, <5>1, <5>3, <5>4
        <5> QED
          BY <2>2, <5>1, <5>3, <5>5, <5>6, SumCompare
      <4>2. Gate!Spent(e) \in Nat /\ Gate!Spent(f) \in Nat
        BY <1>1, <2>5, SpentType
      <4> QED
        BY <3>1, <4>1, <4>2, GateConstants DEF Gate!Within
    <3>2. CASE n = 1
      <4>1. n - d = 1
        BY <2>5, <3>2
      <4> QED
        BY <2>5, <4>1 DEF Gate!Within
    <3> QED
      BY <3>1, <3>2 DEF WindowOk, Gate!Within, n
  <2>9. /\ e # <<>> /\ f # <<>> /\ Head(f) = f[1] /\ Head(e) = e[1]
    BY <1>1, <2>1, <2>5 DEF n
  <2>10. f[1].age <= e[1].age + 1 /\ f[1].age <= Period - 1
    <3>1. 1 \in 1..n - d /\ 1 \in 1..n /\ 1 + d = m
      BY <1>1, <2>2, <2>5
    <3>2. f[1].age = e[m].age + 1
      BY <2>6, <3>1
    <3>3. e[1].age >= e[m].age
      <4>1. 1 < m \/ m = 1
        BY <1>1
      <4>2. m = 1 => e[1].age >= e[m].age
        BY <1>2, <3>1
      <4> QED
        BY <1>1, <3>1, <4>1, <4>2 DEF WindowOk, Ordered
    <3> QED
      BY <1>2, <2>1, <3>1, <3>2, <3>3
  <2> QED
    BY <2>3, <2>5, <2>7, <2>8, <2>9, <2>10 DEF WindowOk
<1> QED
  BY <1>5, <1>6

CallRecord ==
    [at : {"idle", "gate", "local", "asleep", "sent", "answered", "failed"},
     cost : Costs \cup {0}, attempt : 0..3, failed : 0..2, wait : 0..MaxWait,
     charged : SUBSET Gate!Windows, reached : Seq({"primary", "fallback"}), counted : 0..3]

\* An invocation reaches the primary in its first two attempts and the fallback in the third;
\* while it waits, the attempts before this one are all it may have made.
Asking == {"gate", "local", "asleep"}
Reaching(r) ==
    /\ r.attempt \in 1..3 /\ r.failed = r.attempt - 1
    /\ Len(r.reached) \in 1..r.attempt
    /\ \A i \in 1..Len(r.reached) :
         r.reached[i] = IF i < Len(r.reached) THEN "primary" ELSE Gate!Endpoint(r.attempt)
LastIsFallback(s) ==
    \A i \in DOMAIN s : (s[i] = "primary" => i <= 2) /\ (s[i] = "fallback" => i = Len(s))
CallOk(r) ==
    /\ r.at = "idle" => r.reached = <<>>
    /\ r.at \in Asking \cup {"sent"} => r.cost \in Costs
    /\ r.at \in Asking => /\ r.attempt \in 1..3 /\ r.failed = r.attempt - 1
                          /\ Len(r.reached) < r.attempt
                          /\ \A i \in 1..Len(r.reached) : r.reached[i] = "primary"
    /\ r.at = "sent" => Reaching(r)
    /\ r.at = "answered" => Len(r.reached) <= r.counted
    /\ r.at \in {"answered", "failed"} => LastIsFallback(r.reached)

\* While Redis answers there is one window, and who sleeps waits for its oldest entry.
SteadyOk ==
    steady => /\ up /\ \A p \in Procs : window[p] = <<>>
              /\ \A c \in Calls :
                   /\ call[c].at # "local"
                   /\ call[c].at = "asleep" =>
                        /\ call[c].wait <= Period
                        /\ window[Shared] # <<>> =>
                             call[c].wait <= Period - Head(window[Shared]).age

GateInv ==
    /\ up \in BOOLEAN /\ steady \in BOOLEAN
    /\ window \in [Gate!Windows -> Seq(Entry)] /\ \A w \in Gate!Windows : WindowOk(window[w])
    /\ call \in [Calls -> CallRecord] /\ \A c \in Calls : CallOk(call[c])
    /\ SteadyOk

\* The windows are that of Redis and one for each process.
LEMMA WindowsAre ==
  /\ Shared \in Gate!Windows /\ \A p \in Procs : p \in Gate!Windows /\ p # Shared
  /\ \A c \in Calls : Proc[c] \in Gate!Windows /\ Proc[c] \in Procs
  BY GateConstants DEF Gate!Windows

\* A call that was sent reached the fallback last, if at all.
LEMMA ReachingEndsWithFallback ==
  ASSUME NEW r \in CallRecord, Reaching(r)
  PROVE  LastIsFallback(r.reached) /\ Len(r.reached) <= r.attempt
<1>1. /\ r.reached \in Seq({"primary", "fallback"}) /\ Len(r.reached) \in Nat
      /\ DOMAIN r.reached = 1..Len(r.reached)
  BY DEF CallRecord
<1>2. /\ r.attempt \in 1..3 /\ Len(r.reached) \in 1..r.attempt
      /\ \A i \in 1..Len(r.reached) :
           r.reached[i] = IF i < Len(r.reached) THEN "primary" ELSE Gate!Endpoint(r.attempt)
  BY DEF Reaching
<1>3. Len(r.reached) <= r.attempt
  BY <1>2
<1>4. ASSUME NEW i \in 1..Len(r.reached)
      PROVE  /\ r.reached[i] = "primary" => i <= 2
             /\ r.reached[i] = "fallback" => i = Len(r.reached)
  <2>1. CASE i < Len(r.reached)
    BY <1>1, <1>2, <2>1
  <2>2. CASE ~(i < Len(r.reached))
    <3>1. i = Len(r.reached)
      BY <1>1, <2>2
    <3>2. r.reached[i] = Gate!Endpoint(r.attempt)
      BY <1>2, <2>2
    <3> QED
      BY <1>2, <3>1, <3>2 DEF Gate!Endpoint
  <2> QED
    BY <2>1, <2>2
<1> QED
  BY <1>1, <1>3, <1>4 DEF LastIsFallback

\* A call that waits has not reached it.
LEMMA AskingEndsWithFallback ==
  ASSUME NEW r \in CallRecord, r.at \in Asking, CallOk(r)
  PROVE  LastIsFallback(r.reached)
<1>1. /\ r.reached \in Seq({"primary", "fallback"}) /\ Len(r.reached) \in Nat
      /\ DOMAIN r.reached = 1..Len(r.reached)
  BY DEF CallRecord
<1>2. /\ r.attempt \in 1..3 /\ Len(r.reached) < r.attempt
      /\ \A i \in 1..Len(r.reached) : r.reached[i] = "primary"
  BY DEF CallOk
<1>3. \A i \in 1..Len(r.reached) : i <= 2
  BY <1>1, <1>2
<1> QED
  BY <1>1, <1>2, <1>3 DEF LastIsFallback

\* A failure is retried, handed on or final, and what was reached stays in order.
LEMMA FailureOk ==
  ASSUME NEW c \in Calls, NEW b \in BOOLEAN, call[c] \in CallRecord, CallOk(call[c]),
         call[c].at \in Asking \cup {"sent"}
  PROVE  /\ Gate!AfterFailure(c, b) \in CallRecord /\ CallOk(Gate!AfterFailure(c, b))
         /\ Gate!AfterFailure(c, b).at \in {"gate", "failed"}
<1> DEFINE r == call[c]
<1>1. PICK f : f = Gate!AfterFailure(c, b)
  OBVIOUS
<1>2. /\ r.reached \in Seq({"primary", "fallback"}) /\ Len(r.reached) \in Nat
      /\ DOMAIN r.reached = 1..Len(r.reached) /\ r.cost \in Costs
  BY DEF CallRecord, CallOk
<1>3. CASE b /\ Gate!MayGoOn(c)
  <2>1. f = [r EXCEPT !.at = "gate", !.failed = r.attempt, !.attempt = r.attempt + 1,
                      !.wait = 0, !.charged = {}]
    BY <1>1, <1>3 DEF Gate!AfterFailure
  <2>2. r.attempt \in 1..2
    BY <1>3 DEF Gate!MayGoOn
  <2>3. /\ f.at = "gate" /\ f.failed = r.attempt /\ f.attempt = r.attempt + 1 /\ f.wait = 0
        /\ f.charged = {} /\ f.cost = r.cost /\ f.reached = r.reached /\ f.counted = r.counted
    BY <2>1 DEF CallRecord
  <2>4. f \in CallRecord
    <3>1. r.attempt \in 0..2 /\ r.attempt + 1 \in 0..3 /\ 0 \in 0..MaxWait
      BY <2>2, GateConstants
    <3> QED
      BY <2>1, <3>1 DEF CallRecord
  <2>5. Len(r.reached) <= r.attempt /\ \A i \in 1..Len(r.reached) : r.reached[i] = "primary"
    <3>1. CASE r.at \in Asking
      BY <1>2, <2>2, <3>1 DEF CallOk
    <3>2. CASE r.at = "sent"
      <4>1. Reaching(r)
        BY <3>2 DEF CallOk
      <4>2. Gate!Endpoint(r.attempt) = "primary"
        BY <2>2 DEF Gate!Endpoint
      <4> QED
        BY <1>2, <2>2, <4>1, <4>2 DEF Reaching
    <3> QED
      BY <3>1, <3>2
  <2>6. CallOk(f)
    <3>1. f.attempt \in 1..3 /\ f.failed = f.attempt - 1 /\ Len(f.reached) < f.attempt
      BY <1>2, <2>2, <2>3, <2>5
    <3> HIDE DEF r
    <3> QED
      BY <1>2, <2>3, <2>5, <3>1 DEF CallOk
  <2> QED
    BY <1>1, <2>3, <2>4, <2>6
<1>4. CASE ~(b /\ Gate!MayGoOn(c))
  <2>1. f = [r EXCEPT !.at = "failed", !.wait = 0]
    BY <1>1, <1>4 DEF Gate!AfterFailure
  <2>2. f.at = "failed" /\ f.reached = r.reached
    BY <2>1 DEF CallRecord
  <2>3. f \in CallRecord
    <3>1. 0 \in 0..MaxWait
      BY GateConstants
    <3> QED
      BY <2>1, <3>1 DEF CallRecord
  <2>4. LastIsFallback(r.reached)
    <3>1. CASE r.at \in Asking
      BY <3>1, AskingEndsWithFallback
    <3>2. CASE r.at = "sent"
      BY <3>2, ReachingEndsWithFallback DEF CallOk
    <3> QED
      BY <3>1, <3>2
  <2>5. CallOk(f)
    BY <2>2, <2>4 DEF CallOk, Asking
  <2> QED
    BY <1>1, <2>2, <2>3, <2>5
<1> QED
  BY <1>3, <1>4

\* At the start no window holds anything and no thread calls.
LEMMA GateInit == Gate!Init => GateInv
<1> SUFFICES ASSUME Gate!Init
             PROVE  GateInv
  OBVIOUS
<1> USE DEF Gate!Init
<1>1. /\ Gate!Idle \in CallRecord /\ CallOk(Gate!Idle) /\ Gate!Idle.at = "idle"
  <2>1. 0 \in 0..MaxWait
    BY GateConstants
  <2> QED
    BY <2>1 DEF Gate!Idle, CallRecord, CallOk, Asking
<1>2. WindowOk(<<>>)
  <2>1. Gate!Spent(<<>>) = 0
    <3>1. [i \in DOMAIN <<>> |-> <<>>[i].cost] = <<>>
      OBVIOUS
    <3> QED
      BY <3>1, SumEmpty, GateSum DEF Gate!Spent
  <2> QED
    BY <2>1, GateConstants DEF WindowOk, Ordered, Gate!Within
<1>3. window \in [Gate!Windows -> Seq(Entry)] /\ \A w \in Gate!Windows : window[w] = <<>>
  <2>1. <<>> \in Seq(Entry)
    OBVIOUS
  <2> QED
    BY <2>1
<1>4. call \in [Calls -> CallRecord] /\ \A c \in Calls : call[c] = Gate!Idle
  BY <1>1
<1>5. SteadyOk
  BY <1>1, <1>3, <1>4, WindowsAre DEF SteadyOk
<1> QED
  BY <1>1, <1>2, <1>3, <1>4, <1>5 DEF GateInv

\* The call of thread c becomes r, and no other moves.
Moves(c, r) ==
    /\ call' \in [Calls -> CallRecord] /\ call'[c] = r
    /\ \A d \in Calls : d # c => call'[d] = call[d]
\* The oldest entry of the shared window stays, or the first is charged.
HeadStays ==
    \/ window'[Shared] = window[Shared]
    \/ window[Shared] = <<>> /\ Head(window'[Shared]).age = 0
    \/ /\ window[Shared] # <<>> /\ window'[Shared] # <<>>
       /\ Head(window'[Shared]) = Head(window[Shared])

\* One step of one thread.
LEMMA MovesAre ==
  ASSUME NEW c \in Calls, NEW r \in CallRecord, call \in [Calls -> CallRecord],
         call' = [call EXCEPT ![c] = r]
  PROVE  Moves(c, r)
  BY DEF Moves

\* A step of one thread keeps what holds while Redis answers, if its own call does.
LEMMA SteadyStays ==
  ASSUME GateInv, NEW c \in Calls, NEW r \in CallRecord, Moves(c, r), HeadStays,
         up' = up, steady' = steady,
         steady => \A p \in Procs : window'[p] = window[p],
         steady => /\ r.at # "local"
                   /\ r.at = "asleep" =>
                        /\ r.wait <= Period
                        /\ window'[Shared] # <<>> =>
                             r.wait <= Period - Head(window'[Shared]).age
  PROVE  SteadyOk'
<1> SUFFICES ASSUME steady
             PROVE  /\ up' /\ \A p \in Procs : window'[p] = <<>>
                    /\ \A d \in Calls :
                         /\ call'[d].at # "local"
                         /\ call'[d].at = "asleep" =>
                              /\ call'[d].wait <= Period
                              /\ window'[Shared] # <<>> =>
                                   call'[d].wait <= Period - Head(window'[Shared]).age
  BY DEF SteadyOk
<1>1. up' /\ \A p \in Procs : window'[p] = <<>>
  BY DEF GateInv, SteadyOk
<1>2. ASSUME NEW d \in Calls
      PROVE  /\ call'[d].at # "local"
             /\ call'[d].at = "asleep" =>
                  /\ call'[d].wait <= Period
                  /\ window'[Shared] # <<>> =>
                       call'[d].wait <= Period - Head(window'[Shared]).age
  <2>1. CASE d = c
    BY <2>1 DEF Moves
  <2>2. CASE d # c
    <3>1. call'[d] = call[d]
      BY <2>2 DEF Moves
    <3>2. /\ call[d].at # "local"
          /\ call[d].at = "asleep" =>
               /\ call[d].wait <= Period
               /\ window[Shared] # <<>> => call[d].wait <= Period - Head(window[Shared]).age
      BY DEF GateInv, SteadyOk
    <3>3. Period \in Nat /\ call[d].wait \in Nat
      BY GateConstants DEF GateInv, CallRecord
    <3>4. ASSUME call[d].at = "asleep", window'[Shared] # <<>>
          PROVE  call[d].wait <= Period - Head(window'[Shared]).age
      <4>1. CASE window'[Shared] = window[Shared]
        BY <3>2, <3>4, <4>1
      <4>2. CASE window[Shared] = <<>> /\ Head(window'[Shared]).age = 0
        BY <3>2, <3>3, <3>4, <4>2
      <4>3. CASE window[Shared] # <<>> /\ Head(window'[Shared]) = Head(window[Shared])
        BY <3>2, <3>4, <4>3
      <4> QED
        BY <4>1, <4>2, <4>3 DEF HeadStays
    <3> QED
      BY <3>1, <3>2, <3>4
  <2> QED
    BY <2>1, <2>2
<1> QED
  BY <1>1, <1>2

\* A call that moves while the windows stay.
LEMMA MoveHolds ==
  ASSUME GateInv, NEW c \in Calls, NEW r \in CallRecord, CallOk(r),
         call' = [call EXCEPT ![c] = r], UNCHANGED <<up, steady, window>>,
         steady => /\ r.at # "local"
                   /\ r.at = "asleep" =>
                        /\ r.wait <= Period
                        /\ window[Shared] # <<>> => r.wait <= Period - Head(window[Shared]).age
  PROVE  GateInv'
<1>1. Moves(c, r)
  BY MovesAre DEF GateInv
<1>2. SteadyOk'
  <2>1. HeadStays /\ up' = up /\ steady' = steady /\ window' = window
    BY DEF HeadStays
  <2> QED
    BY <1>1, <2>1, SteadyStays
<1>3. \A d \in Calls : CallOk(call'[d])
  BY <1>1 DEF Moves, GateInv
<1> QED
  BY <1>1, <1>2, <1>3 DEF GateInv, Moves

\* A window that is charged for thread c, whose call moves.
LEMMA ChargedHolds ==
  ASSUME GateInv, NEW c \in Calls, NEW r \in CallRecord, CallOk(r), NEW w \in Gate!Windows,
         call' = [call EXCEPT ![c] = r], up' = up, call[c].cost \in Costs,
         window' = [window EXCEPT ![w] = Gate!Charge(window[w], c)],
         Gate!Admits(window[w], call[c].cost),
         steady' \in BOOLEAN,
         steady' => steady /\ w = Shared /\ r.at \notin {"local", "asleep"}
  PROVE  GateInv'
<1> DEFINE x == [age |-> 0, cost |-> call[c].cost, by |-> c]
<1>1. x \in Entry /\ x.age = 0 /\ x.cost = call[c].cost
  <2>1. 0 \in 0..Period - 1
    BY GateConstants
  <2> QED
    BY <2>1 DEF Entry
<1>2. PICK f : f = Append(window[w], x)
  OBVIOUS
<1>3. Gate!Charge(window[w], c) = f
  BY <1>2 DEF Gate!Charge
<1> HIDE DEF x
<1>4. /\ WindowOk(f) /\ f # <<>> /\ Head(f) = IF window[w] = <<>> THEN x ELSE Head(window[w])
  BY <1>1, <1>2, ChargeHolds DEF GateInv
<1>5. /\ window' \in [Gate!Windows -> Seq(Entry)] /\ window'[w] = f
      /\ \A v \in Gate!Windows : v # w => window'[v] = window[v]
  <2>1. window' = [window EXCEPT ![w] = f] /\ f \in Seq(Entry)
    BY <1>3, <1>4 DEF WindowOk
  <2> QED
    BY <2>1 DEF GateInv
<1>6. \A v \in Gate!Windows : WindowOk(window'[v])
  BY <1>4, <1>5 DEF GateInv
<1>7. Moves(c, r)
  BY MovesAre DEF GateInv
<1>8. SteadyOk'
  <2>1. CASE ~steady'
    BY <2>1 DEF SteadyOk
  <2>2. CASE steady'
    <3>1. steady /\ steady' = steady /\ w = Shared /\ r.at # "local" /\ r.at # "asleep"
      BY <2>2 DEF GateInv
    <3>2. HeadStays
      BY <1>1, <1>4, <1>5, <3>1 DEF HeadStays
    <3>3. \A p \in Procs : window'[p] = window[p]
      BY <1>5, <3>1, WindowsAre
    <3> QED
      BY <1>7, <3>1, <3>2, <3>3, SteadyStays
  <2> QED
    BY <2>1, <2>2
<1>9. \A d \in Calls : CallOk(call'[d])
  BY <1>7 DEF Moves, GateInv
<1> QED
  BY <1>5, <1>6, <1>7, <1>8, <1>9 DEF GateInv, Moves

\* acquire: the window that governs a call admits it, makes it wait or refuses it.
LEMMA GovernedHolds ==
  ASSUME GateInv, NEW c \in Calls, NEW w \in Gate!Windows, call[c].at \in {"gate", "local"},
         Gate!Governed(c, w, window[w]), UNCHANGED <<up, steady>>,
         steady => w = Shared
  PROVE  GateInv'
<1> DEFINE r == call[c]
<1>1. /\ r \in CallRecord /\ CallOk(r) /\ r.at \in Asking /\ r.cost \in Costs
      /\ call \in [Calls -> CallRecord] /\ WindowOk(window[w])
  BY DEF GateInv, CallOk, Asking
<1>2. 0 \in 0..MaxWait /\ MaxWait \in Nat /\ Period \in Nat
  BY GateConstants
<1>3. CASE /\ Gate!Admits(window[w], r.cost)
           /\ window' = [window EXCEPT ![w] = Gate!Charge(window[w], c)]
           /\ call' = [call EXCEPT ![c].at = "sent", ![c].wait = 0,
                                   ![c].charged = @ \cup {w},
                                   ![c].reached = Append(@, Gate!Endpoint(r.attempt))]
  <2>1. PICK e \in {"primary", "fallback"} : e = Gate!Endpoint(r.attempt)
    BY DEF Gate!Endpoint
  <2>2. PICK s : s = Append(r.reached, e)
    OBVIOUS
  <2>3. PICK f : f = [r EXCEPT !.at = "sent", !.wait = 0, !.charged = r.charged \cup {w},
                               !.reached = s]
    OBVIOUS
  <2>4. call' = [call EXCEPT ![c] = f]
    BY <1>1, <1>3, <2>1, <2>2, <2>3
  <2>5. /\ r.reached \in Seq({"primary", "fallback"}) /\ Len(r.reached) \in Nat
        /\ s \in Seq({"primary", "fallback"}) /\ Len(s) = Len(r.reached) + 1
        /\ s[Len(r.reached) + 1] = e /\ \A i \in 1..Len(r.reached) : s[i] = r.reached[i]
    BY <1>1, <2>2 DEF CallRecord
  <2>6. f \in CallRecord
    <3>1. r.charged \cup {w} \in SUBSET Gate!Windows
      BY <1>1 DEF CallRecord
    <3> QED
      BY <1>1, <1>2, <2>3, <2>5, <3>1 DEF CallRecord
  <2>7. /\ f.at = "sent" /\ f.cost = r.cost /\ f.reached = s /\ f.attempt = r.attempt
        /\ f.failed = r.failed
    BY <1>1, <2>3 DEF CallRecord
  <2>8. Reaching(f)
    <3>1. /\ r.attempt \in 1..3 /\ r.failed = r.attempt - 1 /\ Len(r.reached) < r.attempt
          /\ \A i \in 1..Len(r.reached) : r.reached[i] = "primary"
      BY <1>1 DEF CallOk
    <3>2. Len(s) \in 1..r.attempt
      BY <2>5, <3>1
    <3>3. ASSUME NEW i \in 1..Len(s)
          PROVE  s[i] = IF i < Len(s) THEN "primary" ELSE Gate!Endpoint(r.attempt)
      <4>1. CASE i < Len(s)
        <5>1. i \in 1..Len(r.reached)
          BY <2>5, <4>1
        <5> QED
          BY <2>5, <3>1, <4>1, <5>1
      <4>2. CASE ~(i < Len(s))
        <5>1. i = Len(r.reached) + 1
          BY <2>5, <4>2
        <5> QED
          BY <2>1, <2>5, <4>2, <5>1
      <4> QED
        BY <4>1, <4>2
    <3> HIDE DEF r
    <3> QED
      BY <2>7, <3>1, <3>2, <3>3 DEF Reaching
  <2>9. CallOk(f)
    BY <1>1, <2>7, <2>8 DEF CallOk, Asking
  <2> QED
    BY <1>1, <1>3, <2>4, <2>6, <2>7, <2>9, ChargedHolds DEF GateInv
<1>4. CASE /\ ~Gate!Admits(window[w], r.cost)
           /\ Gate!WaitFor(window[w]) <= MaxWait
           /\ call' = [call EXCEPT ![c].at = "asleep", ![c].wait = Gate!WaitFor(window[w])]
           /\ UNCHANGED window
  <2>1. window[w] # <<>>
    BY <1>4 DEF Gate!Admits
  <2>2. PICK n : n = Gate!WaitFor(window[w])
    OBVIOUS
  <2>3. /\ n = Period - Head(window[w]).age /\ n <= Period /\ n \in 0..MaxWait
    <3>1. Head(window[w]) \in Entry
      BY <1>1, <2>1 DEF WindowOk
    <3>2. Head(window[w]).age \in 0..Period - 1
      BY <3>1, EntryTyped
    <3>3. n = Period - Head(window[w]).age
      BY <2>2 DEF Gate!WaitFor
    <3> QED
      BY <1>2, <1>4, <2>2, <3>2, <3>3
  <2>4. PICK f : f = [r EXCEPT !.at = "asleep", !.wait = n]
    OBVIOUS
  <2>5. call' = [call EXCEPT ![c] = f]
    BY <1>1, <1>4, <2>2, <2>4
  <2>6. f \in CallRecord
    BY <1>1, <2>3, <2>4 DEF CallRecord
  <2>7. /\ f.at = "asleep" /\ f.cost = r.cost /\ f.reached = r.reached /\ f.attempt = r.attempt
        /\ f.failed = r.failed /\ f.wait = n
    BY <1>1, <2>4 DEF CallRecord
  <2>8. CallOk(f)
    BY <1>1, <2>7 DEF CallOk, Asking
  <2>9. window' = window
    BY <1>4
  <2>10. steady => /\ f.at # "local" /\ f.wait <= Period
                   /\ f.wait <= Period - Head(window[Shared]).age
    <3>1. n <= Period - Head(window[w]).age
      BY <1>2, <2>3
    <3> HIDE DEF r
    <3> QED
      BY <2>3, <2>7, <3>1
  <2> QED
    BY <2>5, <2>6, <2>8, <2>9, <2>10, MoveHolds
<1>5. CASE /\ ~Gate!Admits(window[w], r.cost)
           /\ Gate!WaitFor(window[w]) > MaxWait
           /\ call' = [call EXCEPT ![c] = Gate!AfterFailure(c, TRUE)]
           /\ UNCHANGED window
  <2>1. PICK f \in CallRecord : /\ f = Gate!AfterFailure(c, TRUE) /\ CallOk(f)
                                /\ f.at \in {"gate", "failed"}
    BY <1>1, FailureOk
  <2>2. call' = [call EXCEPT ![c] = f] /\ window' = window
    BY <1>5, <2>1
  <2> QED
    BY <2>1, <2>2, MoveHolds
<1> QED
  BY <1>3, <1>4, <1>5 DEF Gate!Governed

\* Redis may answer no more, or its answer may be lost: nothing is promised of the shared window.
LEMMA UnsteadyHolds ==
  ASSUME GateInv, ~steady', steady' \in BOOLEAN, up' \in BOOLEAN, UNCHANGED <<window, call>>
  PROVE  GateInv'
  BY DEF GateInv, SteadyOk

\* The script's answer is lost, and the caller turns to the window of its process.
LEMMA LoseReplyHolds ==
  ASSUME GateInv, NEW c \in Calls, Gate!LoseReply(c)
  PROVE  GateInv'
<1> DEFINE r == call[c]
<1>1. /\ r \in CallRecord /\ CallOk(r) /\ r.at = "gate" /\ r.cost \in Costs
      /\ call \in [Calls -> CallRecord] /\ steady' = FALSE /\ up' = up
  BY DEF GateInv, CallOk, Asking, Gate!LoseReply
<1>2. CASE Gate!Admits(window[Shared], r.cost)
  <2>1. /\ window' = [window EXCEPT ![Shared] = Gate!Charge(window[Shared], c)]
        /\ call' = [call EXCEPT ![c].at = "local", ![c].charged = @ \cup {Shared}]
    BY <1>2 DEF Gate!LoseReply
  <2>2. PICK f : f = [r EXCEPT !.at = "local", !.charged = r.charged \cup {Shared}]
    OBVIOUS
  <2>3. call' = [call EXCEPT ![c] = f]
    BY <1>1, <2>1, <2>2
  <2>4. f \in CallRecord
    <3>1. r.charged \cup {Shared} \in SUBSET Gate!Windows
      BY <1>1, WindowsAre DEF CallRecord
    <3> QED
      BY <1>1, <2>2, <3>1 DEF CallRecord
  <2>5. /\ f.at = "local" /\ f.cost = r.cost /\ f.reached = r.reached /\ f.attempt = r.attempt
        /\ f.failed = r.failed
    BY <1>1, <2>2 DEF CallRecord
  <2>6. CallOk(f)
    <3> HIDE DEF r
    <3> QED
      BY <1>1, <2>5 DEF CallOk, Asking
  <2> QED
    BY <1>1, <1>2, <2>1, <2>3, <2>4, <2>6, WindowsAre, ChargedHolds
<1>3. CASE ~Gate!Admits(window[Shared], r.cost)
  <2>1. call' = [call EXCEPT ![c].at = "local"] /\ window' = window
    BY <1>3 DEF Gate!LoseReply
  <2>2. PICK f : f = [r EXCEPT !.at = "local"]
    OBVIOUS
  <2>3. call' = [call EXCEPT ![c] = f]
    BY <1>1, <2>1, <2>2
  <2>4. /\ f \in CallRecord
        /\ f.at = "local" /\ f.cost = r.cost /\ f.reached = r.reached /\ f.attempt = r.attempt
        /\ f.failed = r.failed
    BY <1>1, <2>2 DEF CallRecord
  <2>5. CallOk(f)
    <3> HIDE DEF r
    <3> QED
      BY <1>1, <2>4 DEF CallOk, Asking
  <2>6. Moves(c, f)
    BY <1>1, <2>3, <2>4, MovesAre
  <2>7. \A d \in Calls : CallOk(call'[d])
    BY <2>5, <2>6 DEF GateInv, Moves
  <2> QED
    BY <1>1, <2>1, <2>6, <2>7 DEF GateInv, SteadyOk, Moves
<1> QED
  BY <1>2, <1>3

\* A sleeper's time runs out as fast as the entry it waits for ages.
LEMMA TickHolds ==
  ASSUME GateInv, Gate!Tick
  PROVE  GateInv'
<1>1. up' = up /\ steady' = steady
  BY DEF Gate!Tick
<1>2. /\ window' = [w \in Gate!Windows |-> window'[w]]
      /\ \A w \in Gate!Windows : window'[w] = Gate!Aged(window[w])
  BY DEF Gate!Tick
<1>3. /\ window' \in [Gate!Windows -> Seq(Entry)]
      /\ \A w \in Gate!Windows : WindowOk(window'[w])
  <2>1. \A w \in Gate!Windows : WindowOk(window'[w]) /\ window'[w] \in Seq(Entry)
    BY <1>2, AgedHolds DEF GateInv, WindowOk
  <2> QED
    BY <1>2, <2>1
<1>4. /\ DOMAIN call' = Calls /\ call' = [c \in Calls |-> call'[c]]
      /\ \A c \in Calls :
           call'[c] = [call[c] EXCEPT !.wait = IF @ > 0 THEN @ - 1 ELSE 0]
  BY DEF Gate!Tick
<1>5. ASSUME NEW c \in Calls
      PROVE  /\ call'[c] \in CallRecord /\ CallOk(call'[c]) /\ call'[c].at = call[c].at
             /\ call'[c].wait = IF call[c].wait > 0 THEN call[c].wait - 1 ELSE 0
  <2>1. PICK r \in CallRecord : r = call[c] /\ CallOk(r)
    BY DEF GateInv
  <2>2. MaxWait \in Nat /\ r.wait \in 0..MaxWait
    BY <2>1, GateConstants DEF CallRecord
  <2>3. PICK n \in 0..MaxWait : n = IF r.wait > 0 THEN r.wait - 1 ELSE 0
    BY <2>2
  <2>4. PICK f : f = [r EXCEPT !.wait = n]
    OBVIOUS
  <2>5. call'[c] = f
    BY <1>4, <2>1, <2>3, <2>4
  <2>6. /\ f \in CallRecord
        /\ f.at = r.at /\ f.cost = r.cost /\ f.reached = r.reached /\ f.attempt = r.attempt
        /\ f.failed = r.failed /\ f.counted = r.counted /\ f.wait = n
    BY <2>1, <2>4 DEF CallRecord
  <2>7. CallOk(f)
    BY <2>1, <2>6 DEF CallOk, Reaching
  <2> QED
    BY <2>1, <2>3, <2>5, <2>6, <2>7
<1>6. SteadyOk'
  <2> SUFFICES ASSUME steady
               PROVE  /\ up' /\ \A p \in Procs : window'[p] = <<>>
                      /\ \A c \in Calls :
                           /\ call'[c].at # "local"
                           /\ call'[c].at = "asleep" =>
                                /\ call'[c].wait <= Period
                                /\ window'[Shared] # <<>> =>
                                     call'[c].wait <= Period - Head(window'[Shared]).age
    BY <1>1 DEF SteadyOk
  <2>1. up' /\ \A p \in Procs : window'[p] = <<>>
    BY <1>1, <1>2, AgedHolds, WindowsAre DEF GateInv, SteadyOk
  <2>2. ASSUME NEW c \in Calls
        PROVE  /\ call'[c].at # "local"
               /\ call'[c].at = "asleep" =>
                    /\ call'[c].wait <= Period
                    /\ window'[Shared] # <<>> =>
                         call'[c].wait <= Period - Head(window'[Shared]).age
    <3>1. /\ call[c].at # "local"
          /\ call[c].at = "asleep" =>
               /\ call[c].wait <= Period
               /\ window[Shared] # <<>> => call[c].wait <= Period - Head(window[Shared]).age
      BY DEF GateInv, SteadyOk
    <3>2. Period \in Nat \ {0} /\ call[c].wait \in Nat
      BY GateConstants DEF GateInv, CallRecord
    <3>3. call[c].at = "asleep" => call'[c].wait <= Period
      BY <1>5, <3>1, <3>2
    <3>4. ASSUME call[c].at = "asleep", window'[Shared] # <<>>
          PROVE  call'[c].wait <= Period - Head(window'[Shared]).age
      <4>1. PICK e : e = window[Shared] /\ WindowOk(e) /\ Gate!Aged(e) = window'[Shared]
        BY <1>2, WindowsAre DEF GateInv
      <4>2. /\ e # <<>> /\ Head(Gate!Aged(e)).age <= Head(e).age + 1
            /\ Head(Gate!Aged(e)).age <= Period - 1
        BY <3>4, <4>1, AgedHolds
      <4>3. WindowOk(Gate!Aged(e)) /\ Gate!Aged(e) # <<>>
        BY <3>4, <4>1, AgedHolds
      <4>4. Head(e) \in Entry /\ Head(Gate!Aged(e)) \in Entry
        BY <4>1, <4>2, <4>3 DEF WindowOk
      <4>5. PICK a \in Nat, b \in Nat : a = Head(e).age /\ b = Head(Gate!Aged(e)).age
        BY <4>4, EntryTyped
      <4>6. b <= a + 1 /\ b <= Period - 1 /\ call[c].wait <= Period - a
        BY <3>1, <3>4, <4>1, <4>2, <4>5
      <4>7. call'[c].wait <= Period - b
        BY <1>5, <3>2, <4>5, <4>6
      <4> QED
        BY <4>1, <4>5, <4>7
    <3> QED
      BY <1>5, <3>1, <3>3, <3>4
  <2> QED
    BY <2>1, <2>2
<1>7. call' \in [Calls -> CallRecord]
  BY <1>4, <1>5
<1> QED
  BY <1>1, <1>2, <1>3, <1>5, <1>6, <1>7 DEF GateInv

\* Every step of one thread.
LEMMA ThreadHolds ==
  ASSUME GateInv, NEW c \in Calls,
         \/ \E cost \in Costs : Gate!Begin(c, cost)
         \/ Gate!Ask(c) \/ Gate!AskLocal(c) \/ Gate!Wake(c) \/ Gate!Answer(c) \/ Gate!Fail(c)
  PROVE  GateInv'
<1>1. PICK r \in CallRecord : r = call[c] /\ CallOk(r)
  BY DEF GateInv
<1>2. call \in [Calls -> CallRecord]
  BY DEF GateInv
<1>3. ASSUME NEW cost \in Costs, Gate!Begin(c, cost)
      PROVE  GateInv'
  <2>1. /\ call' = [call EXCEPT ![c] = [Gate!Idle EXCEPT !.at = "gate", !.cost = cost,
                                                         !.attempt = 1]]
        /\ UNCHANGED <<up, steady, window>>
    BY <1>3 DEF Gate!Begin
  <2>2. PICK f : f = [Gate!Idle EXCEPT !.at = "gate", !.cost = cost, !.attempt = 1]
    OBVIOUS
  <2>3. f = [at |-> "gate", cost |-> cost, attempt |-> 1, failed |-> 0, wait |-> 0,
             charged |-> {}, reached |-> <<>>, counted |-> 0]
    BY <2>2 DEF Gate!Idle
  <2>4. f \in CallRecord
    <3>1. 0 \in 0..MaxWait
      BY GateConstants
    <3> QED
      BY <2>3, <3>1 DEF CallRecord
  <2>5. f.at = "gate" /\ f.cost = cost /\ f.attempt = 1 /\ f.failed = 0 /\ f.reached = <<>>
    BY <2>3
  <2>6. CallOk(f)
    BY <2>5 DEF CallOk, Asking
  <2> QED
    BY <2>1, <2>2, <2>4, <2>5, <2>6, MoveHolds
<1>4. ASSUME Gate!Ask(c)
      PROVE  GateInv'
  <2>1. PICK w \in Gate!Windows : w = IF up THEN Shared ELSE Proc[c]
    BY WindowsAre
  <2>2. /\ call[c].at = "gate" /\ Gate!Governed(c, w, window[w]) /\ UNCHANGED <<up, steady>>
    BY <1>4, <2>1 DEF Gate!Ask
  <2>3. steady => w = Shared
    BY <2>1 DEF GateInv, SteadyOk
  <2> QED
    BY <2>2, <2>3, GovernedHolds
<1>5. ASSUME Gate!AskLocal(c)
      PROVE  GateInv'
  <2>1. PICK w \in Gate!Windows : w = Proc[c]
    BY WindowsAre
  <2>2. /\ call[c].at = "local" /\ Gate!Governed(c, w, window[w]) /\ UNCHANGED <<up, steady>>
    BY <1>5, <2>1 DEF Gate!AskLocal
  <2>3. ~steady
    BY <2>2 DEF GateInv, SteadyOk
  <2> QED
    BY <2>2, <2>3, GovernedHolds
<1>6. ASSUME Gate!Wake(c)
      PROVE  GateInv'
  <2>1. /\ r.at = "asleep" /\ call' = [call EXCEPT ![c].at = "gate"]
        /\ UNCHANGED <<up, steady, window>>
    BY <1>1, <1>6 DEF Gate!Wake
  <2>2. PICK f : f = [r EXCEPT !.at = "gate"]
    OBVIOUS
  <2>3. call' = [call EXCEPT ![c] = f]
    BY <1>1, <1>2, <2>1, <2>2
  <2>4. /\ f \in CallRecord
        /\ f.at = "gate" /\ f.cost = r.cost /\ f.reached = r.reached /\ f.attempt = r.attempt
        /\ f.failed = r.failed
    BY <2>2 DEF CallRecord
  <2>5. CallOk(f)
    BY <1>1, <2>1, <2>4 DEF CallOk, Asking
  <2> QED
    BY <2>1, <2>3, <2>4, <2>5, MoveHolds
<1>7. ASSUME Gate!Answer(c)
      PROVE  GateInv'
  <2>1. /\ r.at = "sent"
        /\ call' = [call EXCEPT ![c].at = "answered", ![c].counted = r.failed + 1]
        /\ UNCHANGED <<up, steady, window>>
    BY <1>1, <1>7 DEF Gate!Answer, Gate!Counted
  <2>2. /\ r.attempt \in 1..3 /\ r.failed = r.attempt - 1 /\ Len(r.reached) <= r.attempt
        /\ LastIsFallback(r.reached)
    <3>1. Reaching(r)
      BY <1>1, <2>1 DEF CallOk
    <3> QED
      BY <3>1, ReachingEndsWithFallback DEF Reaching
  <2>3. PICK n \in 0..3 : n = r.failed + 1 /\ Len(r.reached) <= n
    BY <2>2
  <2>4. PICK f : f = [r EXCEPT !.at = "answered", !.counted = n]
    OBVIOUS
  <2>5. call' = [call EXCEPT ![c] = f]
    BY <1>1, <1>2, <2>1, <2>3, <2>4
  <2>6. /\ f \in CallRecord
        /\ f.at = "answered" /\ f.reached = r.reached /\ f.counted = n
    BY <2>4 DEF CallRecord
  <2>7. CallOk(f)
    BY <2>2, <2>3, <2>6 DEF CallOk, Asking
  <2> QED
    BY <2>1, <2>5, <2>6, <2>7, MoveHolds
<1>8. ASSUME Gate!Fail(c)
      PROVE  GateInv'
  <2>1. PICK b \in BOOLEAN : call' = [call EXCEPT ![c] = Gate!AfterFailure(c, b)]
    BY <1>8 DEF Gate!Fail
  <2>2. call[c].at = "sent" /\ UNCHANGED <<up, steady, window>>
    BY <1>8 DEF Gate!Fail
  <2>3. PICK f \in CallRecord : /\ f = Gate!AfterFailure(c, b) /\ CallOk(f)
                                /\ f.at \in {"gate", "failed"}
    BY <1>1, <2>2, FailureOk
  <2>4. call' = [call EXCEPT ![c] = f]
    BY <2>1, <2>3
  <2> QED
    BY <2>2, <2>3, <2>4, MoveHolds
<1> QED
  BY <1>3, <1>4, <1>5, <1>6, <1>7, <1>8

\* Every step of the gate keeps the invariant.
LEMMA GateStep == GateInv /\ [Gate!Next]_gateVars => GateInv'
<1> SUFFICES ASSUME GateInv, [Gate!Next]_gateVars
             PROVE  GateInv'
  OBVIOUS
<1>1. CASE Gate!Tick
  BY <1>1, TickHolds
<1>2. CASE Gate!Redis
  <2>1. up' = ~up /\ steady' = FALSE /\ UNCHANGED <<window, call>>
    BY <1>2 DEF Gate!Redis
  <2> QED
    BY <2>1, UnsteadyHolds
<1>3. ASSUME NEW c \in Calls, Gate!Step(c) \/ \E cost \in Costs : Gate!Begin(c, cost)
      PROVE  GateInv'
  <2>1. CASE Gate!LoseReply(c)
    BY <2>1, LoseReplyHolds
  <2>2. CASE ~Gate!LoseReply(c)
    BY <1>3, <2>2, ThreadHolds DEF Gate!Step
  <2> QED
    BY <2>1, <2>2
<1>4. CASE UNCHANGED gateVars
  <2>1. UNCHANGED up /\ UNCHANGED steady /\ UNCHANGED window /\ UNCHANGED call
    BY <1>4 DEF gateVars
  <2> QED
    BY <2>1 DEF GateInv, SteadyOk
<1> QED
  BY <1>1, <1>2, <1>3, <1>4 DEF Gate!Next

\* The invariant is what the provider's callers are promised.
LEMMA GateInvIsPaced == GateInv => ProviderIsPaced
<1> SUFFICES ASSUME GateInv
             PROVE  ProviderIsPaced
  OBVIOUS
<1>1. /\ up \in BOOLEAN /\ steady \in BOOLEAN /\ window \in [Gate!Windows -> Seq(Entry)]
      /\ \A w \in Gate!Windows : WindowOk(window[w])
      /\ call \in [Calls -> CallRecord] /\ \A c \in Calls : call[c] \in CallRecord /\ CallOk(call[c])
  BY DEF GateInv
<1>2. Gate!TypeOK
  BY <1>1 DEF Gate!TypeOK, Entry, CallRecord
<1>3. Gate!WindowHolds
  BY <1>1 DEF Gate!WindowHolds, WindowOk
<1>4. Gate!WorkersShareBudget
  BY <1>1, <1>3, WindowsAre DEF Gate!WorkersShareBudget, Gate!WindowHolds, GateInv, SteadyOk
<1>5. Gate!SleepIsEnough
  BY DEF Gate!SleepIsEnough, GateInv, SteadyOk
<1>6. Gate!FallbackIsLast
  <2>1. ASSUME NEW c \in Calls
        PROVE  LastIsFallback(call[c].reached)
    <3>1. PICK r \in CallRecord : r = call[c] /\ CallOk(r)
      BY <1>1
    <3>2. r.at \in Asking \cup {"idle", "sent", "answered", "failed"}
      BY DEF CallRecord, Asking
    <3>3. CASE r.at \in Asking
      BY <3>1, <3>3, AskingEndsWithFallback
    <3>4. CASE r.at = "sent"
      BY <3>1, <3>4, ReachingEndsWithFallback DEF CallOk
    <3>5. CASE r.at \in {"answered", "failed"}
      BY <3>1, <3>5 DEF CallOk
    <3>6. CASE r.at = "idle"
      BY <3>1, <3>6 DEF CallOk, LastIsFallback
    <3> QED
      BY <3>1, <3>2, <3>3, <3>4, <3>5, <3>6
  <2> QED
    BY <2>1 DEF Gate!FallbackIsLast, LastIsFallback
<1>7. Gate!UsageCoversCalls
  <2>1. ASSUME NEW c \in Calls, call[c].at = "answered"
        PROVE  call[c].counted >= Len(call[c].reached)
    <3>1. PICK r \in CallRecord : r = call[c] /\ CallOk(r)
      BY <1>1
    <3>2. Len(r.reached) <= r.counted /\ Len(r.reached) \in Nat /\ r.counted \in 0..3
      BY <2>1, <3>1 DEF CallOk, CallRecord
    <3> QED
      BY <3>1, <3>2
  <2> QED
    BY <2>1 DEF Gate!UsageCoversCalls
<1> QED
  BY <1>2, <1>3, <1>4, <1>5, <1>6, <1>7 DEF ProviderIsPaced

-----------------------------------------------------------------------------
(* The evidence of an alert.                                                *)

Collectors == {"field", "related", "timeline", "detection", "summary", "inventory", "archives",
               "vulnerabilities", "identity"}
CapabilityTypes ==
    {"archived_data_access", "archived_network_activity", "asset_identity", "changed_file",
     "exploitation_timeline", "file_integrity_state", "initiating_process_timeline",
     "installed_vulnerability_state", "listening_port_context", "modifying_process_activity",
     "network_destination", "network_inventory", "package_identity", "package_inventory",
     "package_manager_activity", "privilege_and_integrity_state",
     "process_and_privilege_timeline", "process_and_transfer_timeline", "process_identity",
     "process_inventory", "process_parent_timeline", "process_timeline",
     "related_persistence_events", "service_and_startup_activity", "service_exposure",
     "vulnerability_identity"}
SessionTypes == {"authentication_timeline", "post_login_activity", "session_archives"}
EvidenceTypes ==
    CapabilityTypes \cup SessionTypes
    \cup {"related_security_events", "endpoint_activity_timeline", "source_asset_identity"}
Requirement == [by : Collectors, type : EvidenceTypes, required : BOOLEAN, pass : {1, 2}]
Sources == {"timeline", "archives", "detection", "summary", "vulnerabilities"}
Names == {"privilege", "persistence", "command", "exfiltrate", "process", "file", "vulnerable",
          "software", "generic", "ssh"}

\* What the proofs need of a contract: the alert or the related ones come first and nowhere
\* else, at most one inventory is read, and no capability asks for what is required of SSH.
Plain(s) ==
    /\ s \in Seq(Requirement) /\ Len(s) = 4
    /\ s[1].by \in {"field", "related"}
    /\ \A i \in 2..4 : s[i].by # "related"
    /\ \A i \in 1..4 : s[i].pass = 1 /\ s[i].by # "identity"
    /\ \A i, j \in 1..4 : s[i].by = "inventory" /\ s[j].by = "inventory" => i = j
Capable(s) == \A i \in 1..4 : s[i].type \in CapabilityTypes

LEMMA NeedsAre ==
  \A x \in Collectors, t \in EvidenceTypes :
    /\ Evidence!Need(x, t) \in Requirement /\ Evidence!Want(x, t) \in Requirement
    /\ Evidence!Need(x, t).by = x /\ Evidence!Need(x, t).type = t
    /\ Evidence!Need(x, t).required /\ Evidence!Need(x, t).pass = 1
    /\ Evidence!Want(x, t).by = x /\ Evidence!Want(x, t).type = t
    /\ ~Evidence!Want(x, t).required /\ Evidence!Want(x, t).pass = 1
  BY DEF Evidence!Need, Evidence!Want, Requirement

LEMMA PlainIs ==
  ASSUME NEW a, NEW b, NEW c, NEW d, {a, b, c, d} \subseteq Requirement,
         a.by \in {"field", "related"},
         {a.pass, b.pass, c.pass, d.pass} = {1},
         "identity" \notin {b.by, c.by, d.by}, "related" \notin {b.by, c.by, d.by},
         b.by = "inventory" => c.by # "inventory" /\ d.by # "inventory",
         c.by = "inventory" => d.by # "inventory"
  PROVE  Plain(<<a, b, c, d>>)
<1> DEFINE s == <<a, b, c, d>>
<1>1. s \in Seq(Requirement) /\ Len(s) = 4
  OBVIOUS
<1>2. s[1] = a /\ s[2] = b /\ s[3] = c /\ s[4] = d
  OBVIOUS
<1> HIDE DEF s
<1>3. \A i \in 1..4 : i = 1 \/ i = 2 \/ i = 3 \/ i = 4
  OBVIOUS
<1>4. \A i \in 1..4 : s[i].pass = 1 /\ s[i].by # "identity"
  BY <1>2, <1>3
<1>6. \A i \in 2..4 : s[i].by # "related"
  <2>1. \A i \in 2..4 : i = 2 \/ i = 3 \/ i = 4
    OBVIOUS
  <2> QED
    BY <1>2, <2>1
<1>5. \A i, j \in 1..4 : s[i].by = "inventory" /\ s[j].by = "inventory" => i = j
  BY <1>2, <1>3
<1> QED
  BY <1>1, <1>2, <1>4, <1>5, <1>6 DEF Plain, s

LEMMA ContractNames == DOMAIN Evidence!Contract = Names
  BY DEF Evidence!Contract, Evidence!Capabilities, Evidence!Intrusions, Evidence!Weaknesses, Names

LEMMA ContractsBy ==
  /\ \A c \in Evidence!Intrusions : Evidence!Contract[c] = Evidence!IntrusionContract[c]
  /\ \A c \in Evidence!Weaknesses : Evidence!Contract[c] = Evidence!EndpointContract[c]
  /\ \A c \in {"generic", "ssh"} : Evidence!Contract[c] = Evidence!OtherContract[c]
  BY DEF Evidence!Contract, Evidence!Capabilities, Evidence!Intrusions, Evidence!Weaknesses

\* A contract of four requirements.
LEMMA FourAre ==
  ASSUME NEW w \in Requirement, NEW x \in Requirement, NEW y \in Requirement,
         NEW z \in Requirement, NEW s, s = <<w, x, y, z>>,
         w.by \in {"field", "related"},
         w.pass = 1, x.pass = 1, y.pass = 1, z.pass = 1,
         "identity" \notin {x.by, y.by, z.by}, "related" \notin {x.by, y.by, z.by},
         x.by = "inventory" => y.by # "inventory" /\ z.by # "inventory",
         y.by = "inventory" => z.by # "inventory"
  PROVE  /\ Plain(s)
         /\ {w.type, x.type, y.type, z.type} \subseteq CapabilityTypes => Capable(s)
<1>1. Plain(<<w, x, y, z>>)
  BY PlainIs
<1>2. s[1] = w /\ s[2] = x /\ s[3] = y /\ s[4] = z
  OBVIOUS
<1>3. \A i \in 1..4 : i = 1 \/ i = 2 \/ i = 3 \/ i = 4
  OBVIOUS
<1>4. {w.type, x.type, y.type, z.type} \subseteq CapabilityTypes => Capable(s)
  BY <1>2, <1>3 DEF Capable
<1> QED
  BY <1>1, <1>4

\* The contracts of SSH and of the other capabilities, and that of what has none.
LEMMA ContractsAre ==
  /\ Evidence!Contract["ssh"] =
       <<Evidence!Need("related", "authentication_timeline"),
         Evidence!Later(Evidence!Need("timeline", "post_login_activity")),
         Evidence!Later(Evidence!Need("archives", "session_archives")),
         Evidence!Later(Evidence!Want("detection", "file_integrity_state")),
         Evidence!Want("identity", "source_asset_identity")>>
  /\ \A c \in Names \ {"ssh"} : Plain(Evidence!Contract[c])
  /\ \A c \in Names \ {"ssh", "generic"} : Capable(Evidence!Contract[c])
<1>1. Evidence!Contract["ssh"] =
       <<Evidence!Need("related", "authentication_timeline"),
         Evidence!Later(Evidence!Need("timeline", "post_login_activity")),
         Evidence!Later(Evidence!Need("archives", "session_archives")),
         Evidence!Later(Evidence!Want("detection", "file_integrity_state")),
         Evidence!Want("identity", "source_asset_identity")>>
  BY ContractsBy DEF Evidence!OtherContract
<1>2. Plain(Evidence!Contract["privilege"]) /\ Capable(Evidence!Contract["privilege"])
  <2>1. Evidence!Contract["privilege"] =
          <<Evidence!Need("field", "process_identity"),
            Evidence!Need("timeline", "process_and_privilege_timeline"),
            Evidence!Need("detection", "privilege_and_integrity_state"),
            Evidence!Want("summary", "asset_identity")>>
    BY ContractsBy DEF Evidence!IntrusionContract, Evidence!Intrusions
  <2>2. PICK w, x, y, z \in Requirement :
          /\ w = Evidence!Need("field", "process_identity")
          /\ x = Evidence!Need("timeline", "process_and_privilege_timeline")
          /\ y = Evidence!Need("detection", "privilege_and_integrity_state")
          /\ z = Evidence!Want("summary", "asset_identity")
          /\ w.by = "field" /\ x.by = "timeline" /\ y.by = "detection" /\ z.by = "summary"
          /\ w.type = "process_identity" /\ x.type = "process_and_privilege_timeline"
          /\ y.type = "privilege_and_integrity_state" /\ z.type = "asset_identity"
          /\ w.pass = 1 /\ x.pass = 1 /\ y.pass = 1 /\ z.pass = 1
    BY NeedsAre DEF Collectors, EvidenceTypes, CapabilityTypes
  <2> QED
    BY <2>1, <2>2, FourAre DEF CapabilityTypes
<1>3. Plain(Evidence!Contract["persistence"]) /\ Capable(Evidence!Contract["persistence"])
  <2>1. Evidence!Contract["persistence"] =
          <<Evidence!Need("related", "related_persistence_events"),
            Evidence!Need("detection", "file_integrity_state"),
            Evidence!Need("archives", "service_and_startup_activity"),
            Evidence!Want("inventory", "process_inventory")>>
    BY ContractsBy DEF Evidence!IntrusionContract, Evidence!Intrusions
  <2>2. PICK w, x, y, z \in Requirement :
          /\ w = Evidence!Need("related", "related_persistence_events")
          /\ x = Evidence!Need("detection", "file_integrity_state")
          /\ y = Evidence!Need("archives", "service_and_startup_activity")
          /\ z = Evidence!Want("inventory", "process_inventory")
          /\ w.by = "related" /\ x.by = "detection" /\ y.by = "archives" /\ z.by = "inventory"
          /\ w.type = "related_persistence_events" /\ x.type = "file_integrity_state"
          /\ y.type = "service_and_startup_activity" /\ z.type = "process_inventory"
          /\ w.pass = 1 /\ x.pass = 1 /\ y.pass = 1 /\ z.pass = 1
    BY NeedsAre DEF Collectors, EvidenceTypes, CapabilityTypes
  <2> QED
    BY <2>1, <2>2, FourAre DEF CapabilityTypes
<1>4. Plain(Evidence!Contract["command"]) /\ Capable(Evidence!Contract["command"])
  <2>1. Evidence!Contract["command"] =
          <<Evidence!Need("field", "network_destination"),
            Evidence!Need("timeline", "initiating_process_timeline"),
            Evidence!Need("inventory", "listening_port_context"),
            Evidence!Want("archives", "archived_network_activity")>>
    BY ContractsBy DEF Evidence!IntrusionContract, Evidence!Intrusions
  <2>2. PICK w, x, y, z \in Requirement :
          /\ w = Evidence!Need("field", "network_destination")
          /\ x = Evidence!Need("timeline", "initiating_process_timeline")
          /\ y = Evidence!Need("inventory", "listening_port_context")
          /\ z = Evidence!Want("archives", "archived_network_activity")
          /\ w.by = "field" /\ x.by = "timeline" /\ y.by = "inventory" /\ z.by = "archives"
          /\ w.type = "network_destination" /\ x.type = "initiating_process_timeline"
          /\ y.type = "listening_port_context" /\ z.type = "archived_network_activity"
          /\ w.pass = 1 /\ x.pass = 1 /\ y.pass = 1 /\ z.pass = 1
    BY NeedsAre DEF Collectors, EvidenceTypes, CapabilityTypes
  <2> QED
    BY <2>1, <2>2, FourAre DEF CapabilityTypes
<1>5. Plain(Evidence!Contract["exfiltrate"]) /\ Capable(Evidence!Contract["exfiltrate"])
  <2>1. Evidence!Contract["exfiltrate"] =
          <<Evidence!Need("field", "network_destination"),
            Evidence!Need("timeline", "process_and_transfer_timeline"),
            Evidence!Need("archives", "archived_data_access"),
            Evidence!Want("inventory", "network_inventory")>>
    BY ContractsBy DEF Evidence!IntrusionContract, Evidence!Intrusions
  <2>2. PICK w, x, y, z \in Requirement :
          /\ w = Evidence!Need("field", "network_destination")
          /\ x = Evidence!Need("timeline", "process_and_transfer_timeline")
          /\ y = Evidence!Need("archives", "archived_data_access")
          /\ z = Evidence!Want("inventory", "network_inventory")
          /\ w.by = "field" /\ x.by = "timeline" /\ y.by = "archives" /\ z.by = "inventory"
          /\ w.type = "network_destination" /\ x.type = "process_and_transfer_timeline"
          /\ y.type = "archived_data_access" /\ z.type = "network_inventory"
          /\ w.pass = 1 /\ x.pass = 1 /\ y.pass = 1 /\ z.pass = 1
    BY NeedsAre DEF Collectors, EvidenceTypes, CapabilityTypes
  <2> QED
    BY <2>1, <2>2, FourAre DEF CapabilityTypes
<1>6. Plain(Evidence!Contract["process"]) /\ Capable(Evidence!Contract["process"])
  <2>1. Evidence!Contract["process"] =
          <<Evidence!Need("field", "process_identity"),
            Evidence!Need("timeline", "process_parent_timeline"),
            Evidence!Need("inventory", "process_inventory"),
            Evidence!Want("detection", "file_integrity_state")>>
    BY ContractsBy DEF Evidence!EndpointContract, Evidence!Weaknesses
  <2>2. PICK w, x, y, z \in Requirement :
          /\ w = Evidence!Need("field", "process_identity")
          /\ x = Evidence!Need("timeline", "process_parent_timeline")
          /\ y = Evidence!Need("inventory", "process_inventory")
          /\ z = Evidence!Want("detection", "file_integrity_state")
          /\ w.by = "field" /\ x.by = "timeline" /\ y.by = "inventory" /\ z.by = "detection"
          /\ w.type = "process_identity" /\ x.type = "process_parent_timeline"
          /\ y.type = "process_inventory" /\ z.type = "file_integrity_state"
          /\ w.pass = 1 /\ x.pass = 1 /\ y.pass = 1 /\ z.pass = 1
    BY NeedsAre DEF Collectors, EvidenceTypes, CapabilityTypes
  <2> QED
    BY <2>1, <2>2, FourAre DEF CapabilityTypes
<1>7. Plain(Evidence!Contract["file"]) /\ Capable(Evidence!Contract["file"])
  <2>1. Evidence!Contract["file"] =
          <<Evidence!Need("field", "changed_file"),
            Evidence!Need("detection", "file_integrity_state"),
            Evidence!Need("archives", "modifying_process_activity"),
            Evidence!Want("inventory", "process_inventory")>>
    BY ContractsBy DEF Evidence!EndpointContract, Evidence!Weaknesses
  <2>2. PICK w, x, y, z \in Requirement :
          /\ w = Evidence!Need("field", "changed_file")
          /\ x = Evidence!Need("detection", "file_integrity_state")
          /\ y = Evidence!Need("archives", "modifying_process_activity")
          /\ z = Evidence!Want("inventory", "process_inventory")
          /\ w.by = "field" /\ x.by = "detection" /\ y.by = "archives" /\ z.by = "inventory"
          /\ w.type = "changed_file" /\ x.type = "file_integrity_state"
          /\ y.type = "modifying_process_activity" /\ z.type = "process_inventory"
          /\ w.pass = 1 /\ x.pass = 1 /\ y.pass = 1 /\ z.pass = 1
    BY NeedsAre DEF Collectors, EvidenceTypes, CapabilityTypes
  <2> QED
    BY <2>1, <2>2, FourAre DEF CapabilityTypes
<1>8. Plain(Evidence!Contract["vulnerable"]) /\ Capable(Evidence!Contract["vulnerable"])
  <2>1. Evidence!Contract["vulnerable"] =
          <<Evidence!Need("field", "vulnerability_identity"),
            Evidence!Need("vulnerabilities", "installed_vulnerability_state"),
            Evidence!Need("inventory", "service_exposure"),
            Evidence!Want("timeline", "exploitation_timeline")>>
    BY ContractsBy DEF Evidence!EndpointContract, Evidence!Weaknesses
  <2>2. PICK w, x, y, z \in Requirement :
          /\ w = Evidence!Need("field", "vulnerability_identity")
          /\ x = Evidence!Need("vulnerabilities", "installed_vulnerability_state")
          /\ y = Evidence!Need("inventory", "service_exposure")
          /\ z = Evidence!Want("timeline", "exploitation_timeline")
          /\ w.by = "field" /\ x.by = "vulnerabilities" /\ y.by = "inventory" /\ z.by = "timeline"
          /\ w.type = "vulnerability_identity" /\ x.type = "installed_vulnerability_state"
          /\ y.type = "service_exposure" /\ z.type = "exploitation_timeline"
          /\ w.pass = 1 /\ x.pass = 1 /\ y.pass = 1 /\ z.pass = 1
    BY NeedsAre DEF Collectors, EvidenceTypes, CapabilityTypes
  <2> QED
    BY <2>1, <2>2, FourAre DEF CapabilityTypes
<1>9. Plain(Evidence!Contract["software"]) /\ Capable(Evidence!Contract["software"])
  <2>1. Evidence!Contract["software"] =
          <<Evidence!Need("field", "package_identity"),
            Evidence!Need("inventory", "package_inventory"),
            Evidence!Need("archives", "package_manager_activity"),
            Evidence!Want("timeline", "process_timeline")>>
    BY ContractsBy DEF Evidence!EndpointContract, Evidence!Weaknesses
  <2>2. PICK w, x, y, z \in Requirement :
          /\ w = Evidence!Need("field", "package_identity")
          /\ x = Evidence!Need("inventory", "package_inventory")
          /\ y = Evidence!Need("archives", "package_manager_activity")
          /\ z = Evidence!Want("timeline", "process_timeline")
          /\ w.by = "field" /\ x.by = "inventory" /\ y.by = "archives" /\ z.by = "timeline"
          /\ w.type = "package_identity" /\ x.type = "package_inventory"
          /\ y.type = "package_manager_activity" /\ z.type = "process_timeline"
          /\ w.pass = 1 /\ x.pass = 1 /\ y.pass = 1 /\ z.pass = 1
    BY NeedsAre DEF Collectors, EvidenceTypes, CapabilityTypes
  <2> QED
    BY <2>1, <2>2, FourAre DEF CapabilityTypes
<1>10. Plain(Evidence!Contract["generic"])
  <2>1. Evidence!Contract["generic"] =
          <<Evidence!Need("related", "related_security_events"),
            Evidence!Need("timeline", "endpoint_activity_timeline"),
            Evidence!Need("summary", "asset_identity"),
            Evidence!Want("inventory", "process_inventory")>>
    BY ContractsBy DEF Evidence!OtherContract
  <2>2. PICK w, x, y, z \in Requirement :
          /\ w = Evidence!Need("related", "related_security_events")
          /\ x = Evidence!Need("timeline", "endpoint_activity_timeline")
          /\ y = Evidence!Need("summary", "asset_identity")
          /\ z = Evidence!Want("inventory", "process_inventory")
          /\ w.by = "related" /\ x.by = "timeline" /\ y.by = "summary" /\ z.by = "inventory"
          /\ w.type = "related_security_events" /\ x.type = "endpoint_activity_timeline"
          /\ y.type = "asset_identity" /\ z.type = "process_inventory"
          /\ w.pass = 1 /\ x.pass = 1 /\ y.pass = 1 /\ z.pass = 1
    <3>1. {"related_security_events", "endpoint_activity_timeline", "asset_identity",
           "process_inventory"} \subseteq EvidenceTypes
      BY DEF EvidenceTypes, CapabilityTypes
    <3> QED
      BY <3>1, NeedsAre DEF Collectors
  <2>3. PICK s : s = <<w, x, y, z>>
    OBVIOUS
  <2>4. Plain(s)
    BY <2>2, <2>3, FourAre
  <2> QED
    BY <2>1, <2>2, <2>3, <2>4
<1> QED
  BY <1>1, <1>2, <1>3, <1>4, <1>5, <1>6, <1>7, <1>8, <1>9, <1>10 DEF Names

\* Nothing that is required of SSH is evidence a capability asks for.
LEMMA SessionApart ==
  ASSUME NEW c \in Evidence!Capabilities
  PROVE  Evidence!Types(c) \cap SessionTypes = {}
<1>1. c \in Names \ {"ssh", "generic"}
  BY DEF Evidence!Capabilities, Evidence!Intrusions, Evidence!Weaknesses, Names
<1>2. PICK s : s = Evidence!Contract[c]
  OBVIOUS
<1>3. Plain(s) /\ Capable(s)
  BY <1>1, <1>2, ContractsAre
<1>4. DOMAIN s = 1..4
  BY <1>3 DEF Plain
<1>5. Evidence!Types(c) \subseteq CapabilityTypes
  BY <1>2, <1>3, <1>4 DEF Evidence!Types, Capable
<1> QED
  BY <1>5 DEF CapabilityTypes, SessionTypes

Statuses == {"deferred", "collected", "not_found", "truncated", "unavailable", "not_configured"}
Results == [status : Statuses, kept : BOOLEAN, asked : BOOLEAN, failed : BOOLEAN]
Cases == [contract : Contracts, agent : Agents, field : BOOLEAN]
Sights == [truncated : BOOLEAN, strong : BOOLEAN, top : Tops \cup {"none"}, field : BOOLEAN]

\* Three calls are enough for every contract.
EnoughCalls == MaxCalls >= 3

\* What a requirement q of case cs ended with.  Of what is required outside SSH, only an asset
\* that was not found, and what an alert without an agent cannot be asked, count as answered
\* and leave no evidence.
ResultOk(r, q, cs) ==
    /\ r \in Results
    /\ r.kept => r.status \in {"collected", "not_found", "truncated"}
    /\ cs.contract # "ssh" /\ cs.agent /\ r.status \in {"collected", "not_found"}
         => r.asked /\ ~r.failed
    /\ EnoughCalls /\ cs.agent /\ ~r.asked => r.status \in {"deferred", "not_configured"}
    /\ cs.contract # "ssh" /\ q.required /\ q.by # "summary" =>
         IF ~cs.agent /\ q.by \in Sources THEN r.status = "not_found" /\ ~r.kept
         ELSE r.status \in {"collected", "not_found"} => r.kept

\* The calls counted when k results are there: one of the later requirements may be an
\* inventory, which was read ahead.
Spent(n, s, k) ==
    n <= (IF k = 0 THEN 0 ELSE k - 1) + (IF \E i \in k + 1..4 : s[i].by = "inventory" THEN 1 ELSE 0)

\* The rules' diagnosis as a function of the version it is stored under, but for two things:
\* whether the related alerts were truncated (t), which is in it only if their status is
\* evidence, and the percentage that answered (p), to which an asset not found adds unseen.
ItemsOf(cs) == 1..(IF cs.contract = "ssh" THEN 5 ELSE 4)
ApplicableOf(cs, top) ==
    IF top = "none" THEN {}
    ELSE {i \in ItemsOf(cs) : Evidence!Contract[cs.contract][i].type \in Evidence!Types(top)}
NeededOf(cs, top) == {i \in ApplicableOf(cs, top) : Evidence!Contract[cs.contract][i].required}
AnsweredOf(cs, top, K) ==
    {i \in NeededOf(cs, top) :
        \/ ~cs.agent /\ Evidence!Contract[cs.contract][i].by \in Sources
        \/ <<i, "collected">> \in K \/ <<i, "not_found">> \in K}
Ratio(A, R) == IF R = {} THEN 0 ELSE (100 * Cardinality(A)) \div Cardinality(R)
SummaryOf(cs, top) ==
    \E i \in NeededOf(cs, top) : Evidence!Contract[cs.contract][i].by = "summary"

RelatedOk(t, cs, K) ==
    t \in BOOLEAN
    /\ (Evidence!Contract[cs.contract][1].by = "related" => (t <=> <<1, "truncated">> \in K))
PercentOk(p, cs, top, K) ==
    p \in 0..100 /\ (SummaryOf(cs, top) \/ p = Ratio(AnsweredOf(cs, top, K), NeededOf(cs, top)))

Shown == [strong : BOOLEAN, top : Tops \cup {"none"}, field : BOOLEAN]
ShownOf(sn) == [strong |-> sn.strong, top |-> sn.top, field |-> sn.field]

SshSure(al) == IF al.strong THEN 95 ELSE 68
SshMore(al, t) == ~al.strong \/ t
SshOf(cs, al, K, t) ==
    IF cs.contract # "ssh" \/ (cs.agent /\ (\E s \in Statuses : <<2, s>> \in K) /\ ~al.strong) THEN {}
    ELSE {Evidence!Diagnosis("ssh", SshSure(al), SshMore(al, t), {})}
IdsOf(v, cs, top, K) ==
    {<<v, i, "collected">> : i \in {j \in ApplicableOf(cs, top) : <<j, "collected">> \in K}}
SureOf(top, p) ==
    Evidence!Lower(IF top = "vulnerable" THEN 90 ELSE 84, 50 + (40 * p) \div 100)
MoreOf(al, t, p) == t \/ p < 80 \/ (al.top # "persistence" /\ ~al.field)
CapabilityOf(v, cs, al, K, t, p) ==
    IF al.top = "none" THEN {}
    ELSE {Evidence!Diagnosis("capability", SureOf(al.top, p), MoreOf(al, t, p),
                             IdsOf(v, cs, al.top, K))}
RulesOf(v, cs, al, K, t, p) ==
    IF SshOf(cs, al, K, t) # {} THEN SshOf(cs, al, K, t) ELSE CapabilityOf(v, cs, al, K, t, p)

KeptOf(a) == {<<i, a[i].status>> : i \in {j \in DOMAIN a : a[j].kept}}
EntryOk(e) ==
    \E v \in Invs, cs \in Cases, al \in Shown, K \in SUBSET ((1..5) \X Statuses),
       t \in BOOLEAN, p \in 0..100 :
        /\ e.version = <<cs, al, K>>
        /\ RelatedOk(t, cs, K) /\ PercentOk(p, cs, al.top, K)
        /\ e.diag \in RulesOf(v, cs, al, K, t, p)

\* Related alerts leave evidence, which says whether there were more of them.
RelatedTells(a, cs, t) ==
    Len(a) >= 1 /\ Evidence!Contract[cs.contract][1].by = "related" =>
        a[1].kept /\ (a[1].status = "truncated" <=> t)

\* Each answer is one its requirement can have (ResultOk), the calls counted leave room for
\* what is still to be asked (Spent), a session is read in the second pass only, the related
\* alerts are answered with their truncation (RelatedTells), a plan lacks nothing that was put off, and what
\* is cached the rules said of the same evidence (EntryOk).
EvidenceInv ==
    /\ inv \in Invs /\ case \in Cases /\ correlated \in Sights
    /\ next \in {"monitor", "collect", "analyze", "plan", "escalated", "failed"}
    /\ diagnoses \in 0..MaxAttempts /\ counted \in Nat /\ made \in Nat /\ cached \in BOOLEAN
    /\ next \in {"monitor", "collect", "analyze"} => diagnoses < MaxAttempts
    /\ diag = Undiagnosed \/ diag.confidence \in 0..100
    /\ answers \in Seq(Results) /\ Len(answers) <= Len(Evidence!Contract[case.contract])
    /\ \A i \in 1..Len(answers) :
         ResultOk(answers[i], Evidence!Contract[case.contract][i], case)
    /\ next = "analyze" => Len(answers) = Len(Evidence!Contract[case.contract])
    /\ next = "collect" /\ case.contract # "ssh" /\ case.agent =>
         Spent(counted, Evidence!Contract[case.contract], Len(answers))
    /\ next \in {"collect", "analyze"} /\ case.contract = "ssh" /\ case.agent /\ Len(answers) >= 2 =>
         (answers[2].kept <=> diagnoses > 0)
    /\ next \in {"collect", "analyze"} => RelatedTells(answers, case, correlated.truncated)
    /\ Evidence!PlannedSawEverything
    /\ \A e \in cache : EntryOk(e)

LEMMA EvidenceConstants ==
  /\ Contracts \subseteq Names /\ Tops \subseteq Evidence!Capabilities \cup {"none"}
  /\ MaxCalls \in Nat \ {0} /\ MaxAttempts \in Nat \ {0}
  /\ Threshold \in 0..100 /\ Agents \subseteq BOOLEAN /\ Undiagnosed \notin [confidence : 0..100]
<1>1. Contracts \subseteq Names /\ Tops \subseteq Evidence!Capabilities \cup {"none"}
  BY EvidenceAssumption, ContractNames DEF Evidence!ContractAssumption
<1>2. /\ MaxCalls \in Nat \ {0} /\ MaxAttempts \in Nat \ {0} /\ Threshold \in 0..100
      /\ Agents \subseteq BOOLEAN /\ Undiagnosed \notin [confidence : 0..100]
  BY EvidenceAssumption DEF Evidence!BoundAssumption, Evidence!NoneAssumption
<1> QED
  BY <1>1, <1>2

LEMMA SshIs ==
  LET s == Evidence!Contract["ssh"] IN
  /\ s \in Seq(Requirement) /\ Len(s) = 5
  /\ s[1].by = "related" /\ s[1].pass = 1
  /\ s[2].by = "timeline" /\ s[2].pass = 2 /\ s[3].by = "archives" /\ s[3].pass = 2
  /\ s[4].by = "detection" /\ s[4].pass = 2 /\ s[5].by = "identity" /\ s[5].pass = 1
  /\ s[1].type \in SessionTypes /\ s[2].type \in SessionTypes /\ s[3].type \in SessionTypes
  /\ ~s[4].required /\ ~s[5].required
<1>1. PICK a, b, c, d, e \in Requirement :
        /\ a = Evidence!Need("related", "authentication_timeline")
        /\ b = Evidence!Later(Evidence!Need("timeline", "post_login_activity"))
        /\ c = Evidence!Later(Evidence!Need("archives", "session_archives"))
        /\ d = Evidence!Later(Evidence!Want("detection", "file_integrity_state"))
        /\ e = Evidence!Want("identity", "source_asset_identity")
        /\ a.type \in SessionTypes /\ b.type \in SessionTypes /\ c.type \in SessionTypes
        /\ ~d.required /\ ~e.required
        /\ a.by = "related" /\ a.pass = 1 /\ b.by = "timeline" /\ b.pass = 2
        /\ c.by = "archives" /\ c.pass = 2 /\ d.by = "detection" /\ d.pass = 2
        /\ e.by = "identity" /\ e.pass = 1
  <2>1. \A x \in Requirement :
          /\ Evidence!Later(x) \in Requirement /\ Evidence!Later(x).by = x.by
          /\ Evidence!Later(x).type = x.type /\ Evidence!Later(x).required = x.required
          /\ Evidence!Later(x).pass = 2
    BY DEF Evidence!Later, Requirement
  <2>2. {"related", "timeline", "archives", "detection", "identity"} \subseteq Collectors
    BY DEF Collectors
  <2>3. /\ "authentication_timeline" \in SessionTypes /\ "post_login_activity" \in SessionTypes
        /\ "session_archives" \in SessionTypes
    BY DEF SessionTypes
  <2>4. SessionTypes \cup {"file_integrity_state", "source_asset_identity"} \subseteq EvidenceTypes
    BY DEF EvidenceTypes, CapabilityTypes
  <2> QED
    BY <2>1, <2>2, <2>3, <2>4, NeedsAre
<1>2. PICK s : s = <<a, b, c, d, e>>
  OBVIOUS
<1>3. s \in Seq(Requirement) /\ Len(s) = 5
  BY <1>2
<1>4. s[1] = a /\ s[2] = b /\ s[3] = c /\ s[4] = d /\ s[5] = e
  BY <1>2
<1>5. s = Evidence!Contract["ssh"]
  BY <1>1, <1>2, ContractsAre
<1> QED
  BY <1>1, <1>3, <1>4, <1>5

LEMMA RequirementsAre ==
  ASSUME NEW c \in Contracts
  PROVE  /\ Evidence!Contract[c] \in Seq(Requirement)
         /\ Len(Evidence!Contract[c]) = IF c = "ssh" THEN 5 ELSE 4
         /\ \A i \in 1..Len(Evidence!Contract[c]) : Evidence!Contract[c][i] \in Requirement
<1>1. CASE c = "ssh"
  BY <1>1, SshIs
<1>2. CASE c # "ssh"
  <2>1. Plain(Evidence!Contract[c])
    BY <1>2, ContractsAre, EvidenceConstants
  <2> QED
    BY <1>2, <2>1 DEF Plain
<1> QED
  BY <1>1, <1>2

\* The start of an investigation, before anything is collected.
LEMMA EvidenceInit == Evidence!Init => EvidenceInv
<1> SUFFICES ASSUME Evidence!Init
             PROVE  EvidenceInv
  OBVIOUS
<1>1. /\ inv \in Invs /\ case \in Cases /\ next = "monitor" /\ diagnoses = 0 /\ counted = 0
      /\ made = 0 /\ answers = <<>> /\ diag = Undiagnosed /\ cached = FALSE /\ cache = {}
      /\ correlated = Evidence!Unseen
  <2>1. case \in [contract : Contracts, agent : Agents, field : BOOLEAN]
    BY DEF Evidence!Init
  <2>2. case \in Cases
    BY <2>1, EvidenceConstants DEF Cases
  <2> QED
    BY <2>2 DEF Evidence!Init
<1>2. correlated \in Sights
  BY <1>1 DEF Sights, Evidence!Unseen
<1>3. case.contract \in Contracts
  BY <1>1 DEF Cases
<1>4. answers \in Seq(Results) /\ Len(answers) = 0
  BY <1>1
<1>5. Len(Evidence!Contract[case.contract]) \in Nat
  BY <1>3, RequirementsAre
<1>6. diagnoses \in 0..MaxAttempts /\ diagnoses < MaxAttempts
  BY <1>1, EvidenceConstants
<1>7. Evidence!PlannedSawEverything
  BY <1>1 DEF Evidence!PlannedSawEverything
<1>8. /\ Len(answers) <= Len(Evidence!Contract[case.contract])
      /\ \A i \in 1..Len(answers) :
           ResultOk(answers[i], Evidence!Contract[case.contract][i], case)
  BY <1>4, <1>5
<1>9. /\ next \in {"monitor", "collect", "analyze", "plan", "escalated", "failed"}
      /\ next # "collect" /\ next # "analyze"
  BY <1>1
<1>10. (\A e \in cache : EntryOk(e)) /\ counted \in Nat /\ made \in Nat
  BY <1>1
<1> QED
  BY <1>1, <1>2, <1>4, <1>6, <1>7, <1>8, <1>9, <1>10 DEF EvidenceInv

\* Reading a source gives a result of its kind.
LEMMA ReadOk ==
  ASSUME NEW x \in Sources, NEW a \in Evidence!Answers, a = "off" => x = "archives"
  PROVE  LET r == Evidence!Read(x, a) IN
         /\ r \in Results /\ r.asked
         /\ r.kept => r.status \in {"collected", "not_found", "truncated"}
         /\ r.status \in {"collected", "not_found"} => ~r.failed
         /\ x # "summary" /\ r.status \in {"collected", "not_found"} => r.kept
  BY DEF Evidence!Read, Evidence!Result, Evidence!StatusOf, Evidence!Leaves, Results, Statuses,
         Evidence!Answers

LEMMA ReadInventoryOk ==
  ASSUME NEW a \in Evidence!Answers, a # "off"
  PROVE  LET r == Evidence!Read("inventory", a) IN
         /\ r \in Results /\ r.asked
         /\ r.kept => r.status \in {"collected", "not_found", "truncated"}
         /\ r.status \in {"collected", "not_found"} => ~r.failed /\ r.kept
  BY DEF Evidence!Read, Evidence!Result, Evidence!StatusOf, Evidence!Leaves, Results, Statuses,
         Evidence!Answers

\* What is read ahead of a session gives a result, kept in any case for its timeline.
LEMMA ReadAheadOk ==
  ASSUME NEW x \in {"timeline", "archives", "detection"}, NEW a \in Evidence!Answers,
         a = "off" => x = "archives"
  PROVE  LET r == Evidence!ReadAhead(x, a) IN
         /\ r \in Results /\ r.asked
         /\ r.kept => r.status \in {"collected", "not_found", "truncated"}
         /\ x = "timeline" => r.kept
  BY DEF Evidence!ReadAhead, Evidence!Read, Evidence!Result, Evidence!StatusOf, Evidence!Leaves,
         Results, Statuses, Evidence!Answers

\* While results are missing, the budget of three calls is not used up.
LEMMA NotExhausted ==
  ASSUME NEW n \in Nat, NEW s, Plain(s), NEW k \in 0..3, Spent(n, s, k), s[k + 1].by \in Sources,
         EnoughCalls
  PROVE  n < MaxCalls
<1>1. k # 0
  BY DEF Plain, Sources
<1>2. CASE k = 3
  <2>1. ~\E i \in 4..4 : s[i].by = "inventory"
    BY <1>2 DEF Sources
  <2>2. n <= 2
    BY <1>2, <2>1 DEF Spent
  <2> QED
    BY <2>2, EvidenceConstants DEF EnoughCalls
<1>3. CASE k \in {1, 2}
  <2>1. n <= 2
    BY <1>3 DEF Spent
  <2> QED
    BY <2>1, EvidenceConstants DEF EnoughCalls
<1> QED
  BY <1>1, <1>2, <1>3

\* A call more, or the place of the inventory that was read ahead.
LEMMA SpentMore ==
  ASSUME NEW n \in Nat, NEW s, Plain(s), NEW k \in 0..3, Spent(n, s, k), NEW m \in Nat,
         m = n \/ (m = n + 1 /\ s[k + 1].by \in Sources)
  PROVE  Spent(m, s, k + 1)
<1>1. k = 0 => s[k + 1].by \in {"field", "related"}
  BY DEF Plain
<1>2. \A i \in k + 1..4 : i = k + 1 \/ i \in k + 2..4
  OBVIOUS
<1>3. CASE s[k + 1].by = "inventory"
  <2>1. k # 0 /\ m = n /\ n <= k
    BY <1>1, <1>3 DEF Spent, Sources
  <2> QED
    BY <2>1 DEF Spent
<1>4. CASE s[k + 1].by # "inventory"
  <2>1. (\E i \in k + 1..4 : s[i].by = "inventory") => \E i \in k + 2..4 : s[i].by = "inventory"
    BY <1>2, <1>4
  <2>2. k = 0 => m = n
    BY <1>1 DEF Sources
  <2>3. PICK x \in {0, 1} : /\ x = IF \E i \in k + 2..4 : s[i].by = "inventory" THEN 1 ELSE 0
                            /\ n <= (IF k = 0 THEN 0 ELSE k - 1) + x
    BY <2>1 DEF Spent
  <2>4. m <= k + x
    BY <2>2, <2>3
  <2> QED
    BY <2>3, <2>4 DEF Spent
<1> QED
  BY <1>3, <1>4

\* At most one inventory is read ahead.
LEMMA SpentAhead ==
  ASSUME NEW s, Plain(s)
  PROVE  LET n == Cardinality({i \in DOMAIN s : s[i].by = "inventory"}) IN
         n \in Nat /\ Spent(n, s, 0)
<1> DEFINE U == {i \in DOMAIN s : s[i].by = "inventory"}
<1>1. DOMAIN s = 1..4
  BY DEF Plain
<1>2. CASE U = {}
  BY <1>2, FS_EmptySet DEF Spent
<1>3. CASE U # {}
  <2>1. PICK i \in 1..4 : s[i].by = "inventory"
    BY <1>1, <1>3
  <2>2. U = {i}
    BY <1>1, <2>1 DEF Plain
  <2>3. Cardinality(U) = 1
    BY <2>2, FS_Singleton
  <2> QED
    BY <2>1, <2>3 DEF Spent
<1> QED
  BY <1>2, <1>3

LEMMA CountsAre ==
  /\ MaxCalls \in Nat \ {0} /\ MaxAttempts \in Nat \ {0}
  /\ 0..MaxAttempts \subseteq Nat
  BY EvidenceConstants

LEMMA PlainItems ==
  ASSUME NEW s, Plain(s), NEW i \in 1..4
  PROVE  s[i] \in Requirement /\ s[i].pass = 1 /\ s[i].by # "identity"
<1>1. s[i] \in Requirement
  BY ElementOfSeq DEF Plain
<1> QED
  BY <1>1 DEF Plain

LEMMA NextIndex == \A k \in 0..3 : k + 1 \in 1..4
  OBVIOUS

\* What the next requirement ends with, outside SSH.
LEMMA PlainOutcome ==
  ASSUME EvidenceInv, next = "collect", case.contract # "ssh",
         NEW k \in 0..3, k = Len(answers),
         NEW q, q = Evidence!Contract[case.contract][k + 1],
         NEW a \in Evidence!Answers, a = "off" => q.by = "archives"
  PROVE  /\ ResultOk(Evidence!Outcome(q, a), q, case)
         /\ q.by = "related" => /\ Evidence!Outcome(q, a).kept
                                /\ Evidence!Outcome(q, a).status = "truncated" <=> correlated.truncated
<1> DEFINE s == Evidence!Contract[case.contract]
<1>1. /\ case.contract \in Contracts /\ case.contract \in Names /\ case.agent \in BOOLEAN
      /\ case.field \in BOOLEAN /\ correlated.truncated \in BOOLEAN /\ diagnoses \in Nat
      /\ k \in 0..3 /\ Plain(s) /\ counted \in Nat
  <2>1. case \in Cases /\ correlated \in Sights /\ diagnoses \in 0..MaxAttempts /\ counted \in Nat
        /\ Len(answers) \in Nat
    BY DEF EvidenceInv
  <2>2. case.contract \in Contracts /\ case.agent \in BOOLEAN /\ case.field \in BOOLEAN
        /\ correlated.truncated \in BOOLEAN
    BY <2>1, EvidenceConstants DEF Cases, Sights
  <2>3. diagnoses \in Nat
    BY <2>1, CountsAre
  <2>4. case.contract \in Names
    BY <2>2, EvidenceConstants
  <2>5. Plain(s)
    BY <2>4, ContractsAre
  <2> QED
    BY <2>1, <2>2, <2>3, <2>4, <2>5
<1>2. q.by \in Collectors /\ q.pass = 1 /\ q.by # "identity" /\ q.required \in BOOLEAN
  <2>1. k + 1 \in 1..4 /\ q = s[k + 1]
    BY NextIndex, Zenon
  <2> HIDE DEF s
  <2>2. q \in Requirement
    BY <1>1, <2>1, PlainItems
  <2>3. q.pass = 1 /\ q.by # "identity"
    BY <1>1, <2>1, PlainItems
  <2> QED
    BY <2>2, <2>3 DEF Requirement
<1>4. ~Evidence!Session /\ ~(diagnoses + 1 < q.pass)
  <2>1. ~Evidence!Session
    BY DEF Evidence!Session, Evidence!Ssh
  <2>2. diagnoses \in Nat /\ q.pass = 1
    BY <1>1, <1>2
  <2>3. ~(diagnoses + 1 < q.pass)
    BY <2>2
  <2> QED
    BY <2>1, <2>3
<1> HIDE DEF s
<1>5. CASE q.by = "field"
  <2>1. Evidence!Outcome(q, a) =
          Evidence!Result(IF case.field THEN "collected" ELSE "not_found", TRUE, TRUE, FALSE)
    BY <1>4, <1>5 DEF Evidence!Outcome
  <2> QED
    BY <1>5, <2>1 DEF Evidence!Result, ResultOk, Results, Statuses, Sources
<1>6. CASE q.by = "related"
  <2>1. Evidence!Outcome(q, a) =
          Evidence!Result(IF correlated.truncated THEN "truncated" ELSE "collected", TRUE, TRUE, FALSE)
    BY <1>4, <1>6 DEF Evidence!Outcome
  <2> QED
    BY <1>1, <1>6, <2>1 DEF Evidence!Result, ResultOk, Results, Statuses, Sources
<1>7. CASE q.by = "inventory"
  <2>1. Evidence!Outcome(q, a) =
          IF case.agent THEN Evidence!Read("inventory", a) ELSE Evidence!Unasked("unavailable")
    BY <1>4, <1>7 DEF Evidence!Outcome
  <2>2. CASE case.agent
    <3>1. a # "off"
      BY <1>7
    <3> QED
      BY <1>7, <2>1, <2>2, <3>1, ReadInventoryOk DEF ResultOk, Sources
  <2>3. CASE ~case.agent
    BY <1>7, <2>1, <2>3 DEF Evidence!Unasked, Evidence!Result, ResultOk, Results, Statuses, Sources
  <2> QED
    BY <2>2, <2>3
<1>8. CASE q.by \in Sources
  <2>4. q.by # "related"
    BY <1>8 DEF Sources
  <2>6. SUFFICES ResultOk(Evidence!Outcome(q, a), q, case)
    BY <2>4
  <2>1. Evidence!Outcome(q, a) =
          IF ~case.agent THEN Evidence!Unasked("not_found")
          ELSE IF Evidence!Exhausted THEN Evidence!Unasked("unavailable")
          ELSE Evidence!Read(q.by, a)
    BY <1>2, <1>4, <1>8 DEF Evidence!Outcome, Sources
  <2>2. CASE ~case.agent
    BY <1>8, <2>1, <2>2 DEF Evidence!Unasked, Evidence!Result, ResultOk, Results, Statuses, Sources
  <2>3. CASE case.agent /\ Evidence!Exhausted
    <3>1. Spent(counted, s, k)
      BY <2>3 DEF EvidenceInv, s
    <3>2. ~EnoughCalls
      <4>1. EnoughCalls => counted < MaxCalls
        BY <1>1, <1>8, <3>1, NotExhausted DEF s
      <4> QED
        BY <1>1, <2>3, <4>1, EvidenceConstants DEF Evidence!Exhausted
    <3>3. PICK r : r = Evidence!Unasked("unavailable")
      OBVIOUS
    <3>4. r \in Results /\ r.status = "unavailable" /\ ~r.kept /\ ~r.asked
      BY <3>3 DEF Evidence!Unasked, Evidence!Result, Results, Statuses
    <3>5. ResultOk(r, q, case)
      BY <2>3, <3>2, <3>4 DEF ResultOk
    <3> QED
      BY <2>1, <2>3, <3>3, <3>5
  <2>5. CASE case.agent /\ ~Evidence!Exhausted
    <3>1. PICK r : r = Evidence!Read(q.by, a)
      OBVIOUS
    <3>2. /\ r \in Results /\ r.asked
          /\ (r.kept => r.status \in {"collected", "not_found", "truncated"})
          /\ r.status \in {"collected", "not_found"} => ~r.failed
          /\ q.by # "summary" /\ r.status \in {"collected", "not_found"} => r.kept
      BY <1>8, <3>1, ReadOk
    <3>3. ResultOk(r, q, case)
      BY <2>5, <3>2 DEF ResultOk
    <3> QED
      BY <2>1, <2>5, <3>1, <3>3
  <2> QED
    BY <2>2, <2>3, <2>5
<1> QED
  BY <1>2, <1>5, <1>6, <1>7, <1>8 DEF Collectors, Sources

LEMMA UnaskedIs ==
  ASSUME NEW st \in Statuses
  PROVE  LET r == Evidence!Unasked(st) IN
         r \in Results /\ r.status = st /\ ~r.kept /\ ~r.asked /\ ~r.failed
  BY DEF Evidence!Unasked, Evidence!Result, Results

LEMMA HadIs ==
  ASSUME NEW st \in Statuses, NEW as \in BOOLEAN
  PROVE  LET r == Evidence!Result(st, TRUE, as, FALSE) IN
         r \in Results /\ r.status = st /\ r.kept /\ (r.asked <=> as) /\ ~r.failed
<1>1. CASE as = TRUE
  BY <1>1 DEF Evidence!Result, Results
<1>2. CASE as = FALSE
  BY <1>2 DEF Evidence!Result, Results
<1> QED
  BY <1>1, <1>2

LEMMA SshResult ==
  ASSUME NEW r \in Results, NEW q, NEW cs, cs.contract = "ssh",
         r.kept => r.status \in {"collected", "not_found", "truncated"},
         ~cs.agent \/ r.asked \/ r.status \in {"deferred", "not_configured"}
  PROVE  ResultOk(r, q, cs)
  BY DEF ResultOk

\* What the next requirement of an SSH alert ends with; the timeline leaves evidence as soon
\* as the session is looked at.
LEMMA SshOutcome ==
  ASSUME EvidenceInv, next = "collect", case.contract = "ssh",
         NEW k \in 0..4, k = Len(answers),
         NEW q, q = Evidence!Contract["ssh"][k + 1],
         NEW a \in Evidence!Answers, a = "off" => q.by = "archives",
         NEW r, r = Evidence!Outcome(q, a)
  PROVE  /\ ResultOk(r, q, case)
         /\ case.agent /\ k = 1 => (r.kept <=> diagnoses > 0)
         /\ k = 0 => r.kept /\ (r.status = "truncated" <=> correlated.truncated)
<1>1. /\ case.agent \in BOOLEAN /\ correlated.truncated \in BOOLEAN /\ diagnoses \in Nat
  <2>1. case \in Cases /\ correlated \in Sights /\ diagnoses \in 0..MaxAttempts
      BY DEF EvidenceInv
  <2>2. case.agent \in BOOLEAN /\ correlated.truncated \in BOOLEAN
    BY <2>1, EvidenceConstants DEF Cases, Sights
  <2>3. diagnoses \in Nat
    BY <2>1, CountsAre
  <2> QED
    BY <2>2, <2>3
<1> DEFINE g == Evidence!Session
<1>5. g <=> q.by \in {"timeline", "archives", "detection"}
  BY DEF Evidence!Session, Evidence!Ssh, Evidence!Requirements
<1>6. r = CASE diagnoses + 1 < q.pass -> Evidence!Unasked("deferred")
            [] q.by = "field" ->
                 Evidence!Result(IF case.field THEN "collected" ELSE "not_found", TRUE, TRUE, FALSE)
            [] q.by = "related" ->
                 Evidence!Result(IF correlated.truncated THEN "truncated" ELSE "collected",
                                 TRUE, TRUE, FALSE)
            [] q.by = "inventory" ->
                 IF case.agent THEN Evidence!Read(q.by, a) ELSE Evidence!Unasked("unavailable")
            [] g /\ diagnoses + 1 >= q.pass ->
                 IF Evidence!Enriched THEN Evidence!ReadAhead(q.by, a)
                 ELSE Evidence!NotReadAhead(q.by)
            [] q.by = "identity" -> Evidence!Unasked("not_configured")
            [] OTHER ->
                 IF ~case.agent THEN Evidence!Unasked("not_found")
                 ELSE IF Evidence!Exhausted THEN Evidence!Unasked("unavailable")
                      ELSE Evidence!Read(q.by, a)
  BY DEF Evidence!Outcome
<1> HIDE DEF g
<1>2. CASE k = 0
  <2>1. q.by = "related" /\ q.pass = 1
    BY <1>2, SshIs
  <2>4. ~(diagnoses + 1 < q.pass) /\ ~g
    BY <1>1, <1>5, <2>1
  <2>2. PICK st : st = IF correlated.truncated THEN "truncated" ELSE "collected"
    OBVIOUS
  <2>6. r = Evidence!Result(st, TRUE, TRUE, FALSE)
    BY <1>6, <2>1, <2>2, <2>4
  <2>7. /\ st \in Statuses /\ st \in {"truncated", "collected"}
        /\ (st = "truncated" <=> correlated.truncated)
    BY <1>1, <2>2 DEF Statuses
  <2>3. /\ r \in Results /\ r.status \in {"truncated", "collected"} /\ r.asked /\ ~r.failed
        /\ r.kept /\ (r.status = "truncated" <=> correlated.truncated)
    BY <2>6, <2>7, HadIs
  <2>5. ResultOk(r, q, case)
    BY <2>3, SshResult
  <2> QED
    BY <1>2, <2>3, <2>5
<1>3. CASE k = 4
  <2>1. q.by = "identity" /\ q.pass = 1
    BY <1>3, SshIs
  <2>2. ~g
    BY <1>5, <2>1
  <2>3. r = Evidence!Unasked("not_configured")
    BY <1>1, <1>6, <2>1, <2>2
  <2>4. r \in Results /\ r.status = "not_configured" /\ ~r.kept /\ ~r.asked
    BY <2>3, UnaskedIs DEF Statuses
  <2>5. ResultOk(r, q, case)
    BY <2>4, SshResult
  <2> QED
    BY <1>3, <2>5
<1>4. CASE k \in {1, 2, 3}
  <2>1. /\ q.pass = 2 /\ q.by \in {"timeline", "archives", "detection"}
        /\ k = 1 <=> q.by = "timeline"
    <3>1. CASE k = 1
      BY <3>1, SshIs
    <3>2. CASE k = 2
      BY <3>2, SshIs
    <3>3. CASE k = 3
      BY <3>3, SshIs
    <3> QED
      BY <1>4, <3>1, <3>2, <3>3
  <2>2. CASE diagnoses = 0
    <3>3. diagnoses + 1 < q.pass /\ ~(diagnoses + 1 >= q.pass)
      BY <2>1, <2>2
    <3>1. r = Evidence!Unasked("deferred")
      BY <1>6, <2>1, <3>3
    <3>2. r \in Results /\ r.status = "deferred" /\ ~r.kept /\ ~r.asked
      BY <3>1, UnaskedIs DEF Statuses
    <3>4. ResultOk(r, q, case)
      BY <3>2, SshResult
    <3> QED
      BY <1>4, <2>2, <3>2, <3>4
  <2>3. CASE diagnoses # 0
    <3>1. diagnoses > 0 /\ ~(diagnoses + 1 < q.pass) /\ diagnoses + 1 >= q.pass
      BY <1>1, <2>1, <2>3
    <3>2. g
      BY <1>5, <2>1
    <3>3. r = IF Evidence!Enriched THEN Evidence!ReadAhead(q.by, a) ELSE Evidence!NotReadAhead(q.by)
      BY <1>6, <2>1, <3>1, <3>2
    <3>4. Evidence!Enriched <=> case.agent
      BY <1>1, <3>1 DEF Evidence!Enriched, Evidence!Ssh
    <3>5. CASE case.agent
      <4>1. /\ r \in Results /\ r.asked
            /\ r.kept => r.status \in {"collected", "not_found", "truncated"}
            /\ q.by = "timeline" => r.kept
        BY <2>1, <3>3, <3>4, <3>5, ReadAheadOk
      <4>2. ResultOk(r, q, case)
        BY <4>1, SshResult
      <4> QED
        BY <1>4, <2>1, <3>1, <4>1, <4>2
    <3>6. CASE ~case.agent
      <4>1. r = Evidence!NotReadAhead(q.by)
        BY <3>3, <3>4, <3>6
      <4>2. r \in Results /\ (r.kept => r.status = "not_found")
        BY <2>1, <4>1, HadIs, UnaskedIs DEF Statuses, Evidence!NotReadAhead
      <4>3. ResultOk(r, q, case)
        BY <3>6, <4>2, SshResult
      <4> QED
        BY <1>4, <3>6, <4>3
    <3> QED
      BY <1>1, <3>5, <3>6
  <2> QED
    BY <2>2, <2>3
<1> QED
  BY <1>1, <1>2, <1>3, <1>4

\* What an action that leaves the case and its results alone keeps.
LEMMA ResultsStay ==
  ASSUME EvidenceInv, UNCHANGED <<case, answers>>
  PROVE  /\ case' \in Cases /\ answers' \in Seq(Results)
         /\ Len(answers') <= Len(Evidence!Contract[case'.contract])
         /\ \A i \in 1..Len(answers') :
              ResultOk(answers'[i], Evidence!Contract[case'.contract][i], case')
<1>1. /\ case \in Cases /\ answers \in Seq(Results)
      /\ Len(answers) <= Len(Evidence!Contract[case.contract])
      /\ \A i \in 1..Len(answers) :
           ResultOk(answers[i], Evidence!Contract[case.contract][i], case)
  BY DEF EvidenceInv
<1>2. case' = case /\ answers' = answers
  OBVIOUS
<1> HIDE DEF Cases
<1> QED
  BY <1>1, <1>2

LEMMA EvidenceStutters ==
  ASSUME EvidenceInv, UNCHANGED evidenceVars
  PROVE  EvidenceInv'
  BY DEF EvidenceInv, evidenceVars, Evidence!PlannedSawEverything, Evidence!With,
         Evidence!Required, Evidence!Requirements

LEMMA CorrelateKeeps ==
  ASSUME EvidenceInv, Evidence!Correlate
  PROVE  EvidenceInv'
<1>1. /\ inv' = inv /\ case' = case /\ diagnoses' = diagnoses /\ diag' = diag
      /\ cached' = cached /\ cache' = cache /\ answers' = <<>> /\ next' = "collect"
      /\ next = "monitor" /\ correlated' \in Sights
  BY DEF Evidence!Correlate, Evidence!Sights, Sights
<1>2. /\ inv \in Invs /\ case \in Cases /\ diagnoses \in 0..MaxAttempts /\ cached \in BOOLEAN
      /\ diagnoses < MaxAttempts /\ (diag = Undiagnosed \/ diag.confidence \in 0..100)
      /\ \A e \in cache : EntryOk(e)
  BY <1>1 DEF EvidenceInv
<1>3. case.contract \in Contracts
  BY <1>2 DEF Cases
<1>4. /\ answers' \in Seq(Results) /\ Len(answers') = 0
      /\ Len(answers') <= Len(Evidence!Contract[case'.contract])
      /\ \A i \in 1..Len(answers') :
           ResultOk(answers'[i], Evidence!Contract[case'.contract][i], case')
  <2>1. Len(Evidence!Contract[case.contract]) \in Nat
    BY <1>3, RequirementsAre
  <2> QED
    BY <1>1, <2>1
<1>5. /\ counted' \in Nat /\ made' \in Nat
      /\ case.contract # "ssh" /\ case.agent =>
           Spent(counted', Evidence!Contract[case.contract], 0)
  <2>1. CASE Evidence!Enriched
    <3>1. counted' = 2 /\ made' = 5 /\ case.contract = "ssh"
      BY <2>1 DEF Evidence!Correlate, Evidence!Enriched, Evidence!Ssh
    <3> QED
      BY <3>1
  <2>2. CASE ~Evidence!Enriched /\ case.agent /\ case.contract # "ssh"
    <3>1. PICK s : s = Evidence!Contract[case.contract]
      OBVIOUS
    <3>2. Plain(s)
      BY <1>3, <2>2, <3>1, EvidenceConstants, ContractsAre
    <3>3. PICK n : n = Cardinality({i \in DOMAIN s : s[i].by = "inventory"})
      OBVIOUS
    <3>4. counted' = n /\ made' = n
      <4>1. Evidence!Using("inventory") = {i \in DOMAIN s : s[i].by = "inventory"}
        BY <3>1 DEF Evidence!Using, Evidence!Requirements
      <4>2. /\ counted' = Evidence!Cardinality(Evidence!Using("inventory"))
            /\ made' = counted'
        BY <2>2 DEF Evidence!Correlate, Evidence!Ssh
      <4>3. \A S : Evidence!Cardinality(S) = Cardinality(S)
        BY DEF Evidence!Cardinality, Cardinality
      <4> QED
        BY <3>3, <4>1, <4>2, <4>3
    <3>5. n \in Nat /\ Spent(n, s, 0)
      BY <3>2, <3>3, SpentAhead
    <3> QED
      BY <3>1, <3>4, <3>5
  <2>3. CASE ~Evidence!Enriched /\ ~(case.agent /\ case.contract # "ssh")
    <3>1. counted' = 0 /\ made' = 0
      BY <2>3 DEF Evidence!Correlate, Evidence!Ssh
    <3> QED
      BY <2>3, <3>1
  <2> QED
    BY <2>1, <2>2, <2>3
<1>6. Evidence!PlannedSawEverything'
  BY <1>1 DEF Evidence!PlannedSawEverything
<1>7. /\ inv' \in Invs /\ case' \in Cases /\ correlated' \in Sights
      /\ next' \in {"monitor", "collect", "analyze", "plan", "escalated", "failed"}
      /\ diagnoses' \in 0..MaxAttempts /\ cached' \in BOOLEAN
      /\ diagnoses' < MaxAttempts
      /\ (diag' = Undiagnosed \/ diag'.confidence \in 0..100)
      /\ \A e \in cache' : EntryOk(e)
  BY <1>1, <1>2
<1>8. /\ next' # "analyze" /\ ~(Len(answers') >= 2)
      /\ RelatedTells(answers', case', correlated'.truncated)
      /\ next' = "collect" /\ case'.contract # "ssh" /\ case'.agent =>
           Spent(counted', Evidence!Contract[case'.contract], Len(answers'))
  BY <1>1, <1>4, <1>5 DEF RelatedTells
<1> QED
  BY <1>4, <1>5, <1>6, <1>7, <1>8 DEF EvidenceInv

LEMMA AppendIs ==
  ASSUME NEW S, NEW s \in Seq(S), NEW x \in S
  PROVE  /\ Append(s, x) \in Seq(S) /\ Len(Append(s, x)) = Len(s) + 1
         /\ Append(s, x)[Len(s) + 1] = x
         /\ \A i \in 1..Len(s) : Append(s, x)[i] = s[i]
  OBVIOUS

LEMMA CollectKeeps ==
  ASSUME EvidenceInv, Evidence!Collect
  PROVE  EvidenceInv'
<1>1. /\ inv' = inv /\ case' = case /\ diagnoses' = diagnoses /\ diag' = diag
      /\ cached' = cached /\ cache' = cache /\ next' = next /\ next = "collect"
      /\ correlated' = correlated
  BY DEF Evidence!Collect
<1>2. /\ inv \in Invs /\ case \in Cases /\ diagnoses \in 0..MaxAttempts /\ cached \in BOOLEAN
      /\ correlated \in Sights /\ counted \in Nat /\ made \in Nat /\ answers \in Seq(Results)
      /\ diagnoses < MaxAttempts /\ (diag = Undiagnosed \/ diag.confidence \in 0..100)
      /\ \A e \in cache : EntryOk(e)
  BY <1>1 DEF EvidenceInv
<1>3. case.contract \in Contracts
  BY <1>2 DEF Cases
<1>4. PICK k \in Nat : k = Len(answers)
  BY <1>2
<1>5. PICK s : s = Evidence!Contract[case.contract]
  OBVIOUS
<1>6. /\ s \in Seq(Requirement) /\ Len(s) = (IF case.contract = "ssh" THEN 5 ELSE 4)
      /\ k < Len(s)
  BY <1>3, <1>4, <1>5, RequirementsAre DEF Evidence!Collect, Evidence!Requirements
<1>7. PICK q : q = s[k + 1]
  OBVIOUS
<1>8. PICK a \in Evidence!Answers : /\ a = "off" => q.by = "archives"
                                    /\ answers' = Append(answers, Evidence!Outcome(q, a))
  BY <1>4, <1>5, <1>7 DEF Evidence!Collect, Evidence!Requirements
<1>9. PICK r : r = Evidence!Outcome(q, a)
  OBVIOUS
<1>10. /\ ResultOk(r, q, case)
       /\ case.contract = "ssh" /\ case.agent /\ k = 1 => (r.kept <=> diagnoses > 0)
       /\ k = 0 /\ q.by = "related" => r.kept /\ (r.status = "truncated" <=> correlated.truncated)
  <2>1. CASE case.contract = "ssh"
    <3>1. k \in 0..4 /\ q = Evidence!Contract["ssh"][k + 1]
      BY <1>5, <1>6, <1>7, <2>1
    <3> QED
      BY <1>1, <1>4, <1>8, <1>9, <2>1, <3>1, SshOutcome
  <2>2. CASE case.contract # "ssh"
    <3>1. k \in 0..3 /\ q = Evidence!Contract[case.contract][k + 1]
      BY <1>5, <1>6, <1>7, <2>2
    <3> QED
      BY <1>1, <1>4, <1>8, <1>9, <2>2, <3>1, PlainOutcome
  <2> QED
    BY <2>1, <2>2
<1>11. r \in Results
  BY <1>10 DEF ResultOk
<1>12. /\ answers' \in Seq(Results) /\ Len(answers') = k + 1 /\ answers'[k + 1] = r
       /\ \A i \in 1..k : answers'[i] = answers[i]
  BY <1>2, <1>4, <1>8, <1>9, <1>11, AppendIs
<1>13. \A i \in 1..Len(answers') :
         ResultOk(answers'[i], Evidence!Contract[case'.contract][i], case')
  <2>1. \A i \in 1..k : ResultOk(answers[i], s[i], case)
    BY <1>4, <1>5 DEF EvidenceInv
  <2>2. \A i \in 1..k + 1 : i \in 1..k \/ i = k + 1
    BY <1>4
  <2>3. \A i \in 1..k + 1 : ResultOk(answers'[i], s[i], case)
    BY <1>7, <1>10, <1>12, <2>1, <2>2
  <2> QED
    BY <1>1, <1>5, <1>12, <2>3
<1>14. /\ counted' \in Nat /\ made' \in Nat
       /\ counted' = counted \/ (counted' = counted + 1 /\ q.by \in Sources)
  <2>1. /\ counted' = IF Evidence!ReadHere(q) THEN counted + 1 ELSE counted
        /\ made' = IF Evidence!ReadHere(q) THEN made + 1 ELSE made
    BY <1>4, <1>5, <1>7 DEF Evidence!Collect, Evidence!Requirements
  <2>2. Evidence!ReadHere(q) => q.by \in Sources
    BY DEF Evidence!ReadHere, Sources
  <2> QED
    BY <1>2, <2>1, <2>2
<1>15. case'.contract # "ssh" /\ case'.agent =>
         Spent(counted', Evidence!Contract[case'.contract], Len(answers'))
  <2> SUFFICES ASSUME case.contract # "ssh", case.agent
               PROVE  Spent(counted', s, k + 1)
    BY <1>1, <1>5, <1>12
  <2>1. PICK n, m \in Nat : n = counted /\ m = counted'
    BY <1>2, <1>14
  <2>2. Plain(s)
    BY <1>3, <1>5, EvidenceConstants, ContractsAre
  <2>3. Spent(n, s, k)
    BY <1>1, <1>4, <1>5, <2>1 DEF EvidenceInv
  <2>4. k \in 0..3
    BY <1>6
  <2>5. m = n \/ (m = n + 1 /\ s[k + 1].by \in Sources)
    BY <1>7, <1>14, <2>1
  <2>6. Spent(m, s, k + 1)
    BY <2>1, <2>2, <2>3, <2>4, <2>5, SpentMore
  <2> QED
    BY <2>1, <2>6
<1>16. case'.contract = "ssh" /\ case'.agent /\ Len(answers') >= 2 =>
         (answers'[2].kept <=> diagnoses' > 0)
  <2> SUFFICES ASSUME case.contract = "ssh", case.agent, k + 1 >= 2
               PROVE  answers'[2].kept <=> diagnoses > 0
    BY <1>1, <1>12
  <2>1. CASE k = 1
    BY <1>10, <1>12, <2>1
  <2>2. CASE k >= 2
    <3>1. answers[2].kept <=> diagnoses > 0
      BY <1>1, <1>4, <2>2 DEF EvidenceInv
    <3> QED
      BY <1>12, <2>2, <3>1
  <2> QED
    BY <1>4, <2>1, <2>2
<1>20. RelatedTells(answers', case', correlated'.truncated)
  <2> SUFFICES ASSUME s[1].by = "related"
               PROVE  answers'[1].kept /\ (answers'[1].status = "truncated" <=> correlated.truncated)
    BY <1>1, <1>5 DEF RelatedTells
  <2>1. CASE k = 0
    BY <1>7, <1>10, <1>12, <2>1
  <2>2. CASE k # 0
    <3>1. RelatedTells(answers, case, correlated.truncated)
      BY <1>1 DEF EvidenceInv
    <3>2. answers[1].kept /\ (answers[1].status = "truncated" <=> correlated.truncated)
      BY <1>4, <1>5, <2>2, <3>1 DEF RelatedTells
    <3>3. answers'[1] = answers[1]
      BY <1>12, <2>2
    <3> QED
      BY <3>2, <3>3
  <2> QED
    BY <2>1, <2>2
<1>17. Evidence!PlannedSawEverything'
  BY <1>1 DEF Evidence!PlannedSawEverything
<1>18. Len(answers') <= Len(Evidence!Contract[case'.contract])
  BY <1>1, <1>5, <1>6, <1>12
<1>19. /\ inv' \in Invs /\ case' \in Cases /\ correlated' \in Sights
       /\ next' \in {"monitor", "collect", "analyze", "plan", "escalated", "failed"}
       /\ next' # "analyze" /\ diagnoses' \in 0..MaxAttempts /\ cached' \in BOOLEAN
       /\ diagnoses' < MaxAttempts
       /\ (diag' = Undiagnosed \/ diag'.confidence \in 0..100)
       /\ \A e \in cache' : EntryOk(e)
  BY <1>1, <1>2
<1> QED
  BY <1>12, <1>13, <1>14, <1>15, <1>16, <1>17, <1>18, <1>19, <1>20 DEF EvidenceInv

LEMMA CollectedKeeps ==
  ASSUME EvidenceInv, Evidence!Collected
  PROVE  EvidenceInv'
<1>1. /\ UNCHANGED <<inv, case, diagnoses, correlated, counted, made, answers, diag, cached, cache>>
      /\ next = "collect" /\ next' = "analyze"
      /\ Len(answers) = Len(Evidence!Contract[case.contract])
  BY DEF Evidence!Collected, Evidence!Requirements
<1>2. /\ inv \in Invs /\ case \in Cases /\ diagnoses \in 0..MaxAttempts /\ cached \in BOOLEAN
      /\ correlated \in Sights /\ counted \in Nat /\ made \in Nat
      /\ diagnoses < MaxAttempts /\ (diag = Undiagnosed \/ diag.confidence \in 0..100)
      /\ \A e \in cache : EntryOk(e)
      /\ case.contract = "ssh" /\ case.agent /\ Len(answers) >= 2 =>
           (answers[2].kept <=> diagnoses > 0)
      /\ RelatedTells(answers, case, correlated.truncated)
  BY <1>1 DEF EvidenceInv
<1>3. Evidence!PlannedSawEverything'
  BY <1>1 DEF Evidence!PlannedSawEverything
<1>4. /\ answers' \in Seq(Results)
      /\ Len(answers') <= Len(Evidence!Contract[case'.contract])
      /\ \A i \in 1..Len(answers') :
           ResultOk(answers'[i], Evidence!Contract[case'.contract][i], case')
  BY <1>1, ResultsStay
<1>5. RelatedTells(answers', case', correlated'.truncated)
  BY <1>1, <1>2
<1> QED
  BY <1>1, <1>2, <1>3, <1>4, <1>5 DEF EvidenceInv

LEMMA RatioIs ==
  ASSUME NEW R \in SUBSET (1..5), NEW A \in SUBSET R
  PROVE  Ratio(A, R) \in 0..100
<1>5. IsFiniteSet(R) /\ Cardinality(R) <= 6
  <2>1. R \in SUBSET Nat /\ \A i \in R : i <= 5
    OBVIOUS
  <2>2. IsFiniteSet(R) /\ Cardinality(R) <= 5 + 1
    BY <2>1, FS_BoundedSetOfNaturals
  <2> QED
    BY <2>2
<1>6. IsFiniteSet(A) /\ Cardinality(A) <= Cardinality(R)
  BY <1>5, FS_Subset
<1>7. Cardinality(R) \in Nat /\ Cardinality(A) \in Nat /\ (R # {} => Cardinality(R) # 0)
  BY <1>5, <1>6, FS_CardinalityType, FS_EmptySet
<1>8. PICK a, b \in Nat : a = Cardinality(A) /\ b = Cardinality(R)
  BY <1>7
<1>9. b # 0 => (100 * a) \div b \in 0..100
  <2>1. a <= b /\ b <= 6
    BY <1>5, <1>6, <1>8
  <2>2. b = 1 => (100 * a) \div b \in 0..100
    BY <2>1
  <2>3. b = 2 => (100 * a) \div b \in 0..100
    BY <2>1
  <2>4. b = 3 => (100 * a) \div b \in 0..100
    BY <2>1
  <2>5. b = 4 => (100 * a) \div b \in 0..100
    BY <2>1
  <2>6. b = 5 => (100 * a) \div b \in 0..100
    BY <2>1
  <2>7. b = 6 => (100 * a) \div b \in 0..100
    BY <2>1
  <2> QED
    BY <2>1, <2>2, <2>3, <2>4, <2>5, <2>6, <2>7
<1>10. Ratio(A, R) = IF R = {} THEN 0 ELSE (100 * a) \div b
  BY <1>8 DEF Ratio
<1> QED
  BY <1>7, <1>8, <1>9, <1>10

\* A rule's diagnosis is a record, and its confidence a percentage.
LEMMA SshBound ==
  ASSUME NEW cs, NEW al, NEW K, NEW t, NEW d \in SshOf(cs, al, K, t)
  PROVE  /\ d = [by |-> "ssh", confidence |-> SshSure(al), more |-> SshMore(al, t), ids |-> {}]
         /\ d.by = "ssh" /\ d.confidence = SshSure(al) /\ d.more = SshMore(al, t) /\ d.ids = {}
<1>1. d = Evidence!Diagnosis("ssh", SshSure(al), SshMore(al, t), {})
  BY DEF SshOf
<1>2. d = [by |-> "ssh", confidence |-> SshSure(al), more |-> SshMore(al, t), ids |-> {}]
  BY <1>1 DEF Evidence!Diagnosis
<1> QED
  BY <1>2

LEMMA CapabilityBound ==
  ASSUME NEW v, NEW cs, NEW al, NEW K, NEW t, NEW p, NEW d \in CapabilityOf(v, cs, al, K, t, p)
  PROVE  /\ d = [by |-> "capability", confidence |-> SureOf(al.top, p), more |-> MoreOf(al, t, p),
                 ids |-> IdsOf(v, cs, al.top, K)]
         /\ d.by = "capability" /\ d.confidence = SureOf(al.top, p) /\ d.more = MoreOf(al, t, p)
         /\ d.ids = IdsOf(v, cs, al.top, K) /\ al.top # "none"
<1>1. /\ d = Evidence!Diagnosis("capability", SureOf(al.top, p), MoreOf(al, t, p),
                                IdsOf(v, cs, al.top, K))
      /\ al.top # "none"
  BY DEF CapabilityOf
<1>2. d = [by |-> "capability", confidence |-> SureOf(al.top, p), more |-> MoreOf(al, t, p),
           ids |-> IdsOf(v, cs, al.top, K)]
  BY <1>1 DEF Evidence!Diagnosis
<1> QED
  BY <1>1, <1>2

LEMMA SureIs ==
  ASSUME NEW top, NEW p \in 0..100
  PROVE  SureOf(top, p) \in 0..100
<1>1. PICK x \in {84, 90} : x = IF top = "vulnerable" THEN 90 ELSE 84
  OBVIOUS
<1>2. (40 * p) \div 100 \in 0..40
  OBVIOUS
<1>3. Evidence!Lower(x, 50 + (40 * p) \div 100) \in 0..100
  BY <1>2 DEF Evidence!Lower
<1> QED
  BY <1>1, <1>3 DEF SureOf

LEMMA RulesBound ==
  ASSUME NEW v, NEW cs, NEW al \in Shown, NEW K, NEW t \in BOOLEAN, NEW p \in 0..100,
         NEW d \in RulesOf(v, cs, al, K, t, p)
  PROVE  /\ d = [by |-> d.by, confidence |-> d.confidence, more |-> d.more, ids |-> d.ids]
         /\ d.confidence \in 0..100
<1>1. CASE d \in SshOf(cs, al, K, t)
  <2>1. SshSure(al) \in 0..100
    BY DEF SshSure
  <2> QED
    BY <1>1, <2>1, SshBound
<1>2. CASE d \in CapabilityOf(v, cs, al, K, t, p)
  BY <1>2, CapabilityBound, SureIs
<1> QED
  BY <1>1, <1>2 DEF RulesOf

LEMMA RulesGive ==
  ASSUME NEW v, NEW cs, NEW al, NEW K, NEW t, NEW p, NEW d \in RulesOf(v, cs, al, K, t, p)
  PROVE  d = [by |-> d.by, confidence |-> d.confidence, more |-> d.more, ids |-> d.ids]
<1>1. CASE d \in SshOf(cs, al, K, t)
  BY <1>1, SshBound
<1>2. CASE d \in CapabilityOf(v, cs, al, K, t, p)
  BY <1>2, CapabilityBound
<1> QED
  BY <1>1, <1>2 DEF RulesOf

\* A diagnosis, wherever it comes from, leads on, and to a plan only when nothing that is
\* required was put off.
LEMMA ConcludeKeeps ==
  ASSUME EvidenceInv, next = "analyze",
         NEW by, NEW c \in 0..100, NEW more, NEW ids,
         Evidence!Conclude([by |-> by, confidence |-> c, more |-> more, ids |-> ids]),
         UNCHANGED <<inv, case, correlated, counted, made, answers>>,
         cached' \in BOOLEAN, \A e \in cache' : EntryOk(e)
  PROVE  EvidenceInv'
<1>1. /\ inv \in Invs /\ case \in Cases /\ diagnoses \in 0..MaxAttempts
      /\ correlated \in Sights /\ counted \in Nat /\ made \in Nat /\ diagnoses < MaxAttempts
  BY DEF EvidenceInv
<1>2. PICK d : d = [by |-> by, confidence |-> c, more |-> more, ids |-> ids]
  OBVIOUS
<1>3. /\ diag' = Evidence!Assessed(d) /\ diagnoses' = diagnoses + 1
      /\ next' = Evidence!Route(Evidence!Assessed(d))
  BY <1>2 DEF Evidence!Conclude
<1>4. PICK D : D = Evidence!With({"deferred"})
  OBVIOUS
<1>5. PICK e : e = Evidence!Assessed(d)
  OBVIOUS
<1>6. e.confidence = c /\ (D # {} => e.more)
  BY <1>2, <1>4, <1>5 DEF Evidence!Assessed
<1>7. next' = IF ~(e.confidence < Threshold \/ e.more) THEN "plan"
              ELSE IF diagnoses + 1 < MaxAttempts THEN "monitor" ELSE "escalated"
  BY <1>3, <1>5 DEF Evidence!Route, Evidence!Inconclusive
<1>8. /\ next' \in {"monitor", "plan", "escalated"}
      /\ next' = "monitor" => diagnoses' < MaxAttempts
      /\ next' = "plan" => D = {}
  BY <1>3, <1>6, <1>7
<1>9. Evidence!PlannedSawEverything'
  BY <1>4, <1>8 DEF Evidence!PlannedSawEverything, Evidence!With, Evidence!Required,
                    Evidence!Requirements
<1>10. diagnoses' \in 0..MaxAttempts
  BY <1>1, <1>3, CountsAre
<1>11. /\ answers' \in Seq(Results)
       /\ Len(answers') <= Len(Evidence!Contract[case'.contract])
       /\ \A i \in 1..Len(answers') :
            ResultOk(answers'[i], Evidence!Contract[case'.contract][i], case')
  BY ResultsStay
<1>12. diag' = Undiagnosed \/ diag'.confidence \in 0..100
  BY <1>3, <1>5, <1>6
<1>13. /\ inv' \in Invs /\ case' \in Cases /\ correlated' \in Sights
       /\ counted' \in Nat /\ made' \in Nat
       /\ next' \in {"monitor", "collect", "analyze", "plan", "escalated", "failed"}
       /\ next' # "collect" /\ next' # "analyze"
  BY <1>1, <1>8
<1> QED
  BY <1>8, <1>9, <1>10, <1>11, <1>12, <1>13 DEF EvidenceInv

\* An analysis that fails leaves the case and its results alone.
LEMMA FailKeeps ==
  ASSUME EvidenceInv, next' = "failed", cached' \in BOOLEAN,
         UNCHANGED <<inv, case, diagnoses, correlated, counted, made, answers, diag, cache>>
  PROVE  EvidenceInv'
<1>1. Evidence!PlannedSawEverything'
  BY DEF Evidence!PlannedSawEverything
<1>2. /\ answers' \in Seq(Results)
      /\ Len(answers') <= Len(Evidence!Contract[case'.contract])
      /\ \A i \in 1..Len(answers') :
           ResultOk(answers'[i], Evidence!Contract[case'.contract][i], case')
  BY ResultsStay
<1>3. /\ inv \in Invs /\ case \in Cases /\ diagnoses \in 0..MaxAttempts
      /\ correlated \in Sights /\ counted \in Nat /\ made \in Nat
      /\ (diag = Undiagnosed \/ diag.confidence \in 0..100)
      /\ \A e \in cache : EntryOk(e)
  BY DEF EvidenceInv
<1> QED
  BY <1>1, <1>2, <1>3 DEF EvidenceInv

\* The results of an analysis, requirement by requirement.
LEMMA ResultsAre ==
  ASSUME EvidenceInv, NEW n, n = Len(answers)
  PROVE  /\ n \in 0..5 /\ DOMAIN answers = 1..n /\ case \in Cases /\ case.contract \in Names
         /\ next = "analyze" => n = (IF case.contract = "ssh" THEN 5 ELSE 4)
         /\ \A i \in 1..n : /\ answers[i] \in Results
                            /\ ResultOk(answers[i], Evidence!Contract[case.contract][i], case)
<1>1. /\ case \in Cases /\ answers \in Seq(Results)
      /\ Len(answers) <= Len(Evidence!Contract[case.contract])
      /\ next = "analyze" => Len(answers) = Len(Evidence!Contract[case.contract])
      /\ \A i \in 1..Len(answers) :
           ResultOk(answers[i], Evidence!Contract[case.contract][i], case)
  BY DEF EvidenceInv
<1>2. case.contract \in Contracts
  BY <1>1 DEF Cases
<1>3. PICK m : m = Len(Evidence!Contract[case.contract])
  OBVIOUS
<1>4. m = IF case.contract = "ssh" THEN 5 ELSE 4
  BY <1>2, <1>3, RequirementsAre
<1>5. n \in Nat /\ DOMAIN answers = 1..n
  BY <1>1
<1>6. n \in 0..5 /\ (next = "analyze" => n = m)
  <2>1. n <= m /\ (next = "analyze" => n = m)
    BY <1>1, <1>3
  <2>2. m \in {4, 5}
    BY <1>4
  <2> QED
    BY <1>5, <2>1, <2>2
<1>7. \A i \in 1..n : ResultOk(answers[i], Evidence!Contract[case.contract][i], case)
  BY <1>1
<1>8. \A i \in 1..n : answers[i] \in Results
  BY <1>7 DEF ResultOk
<1> QED
  BY <1>1, <1>2, <1>4, <1>5, <1>6, <1>7, <1>8, EvidenceConstants

LEMMA KeptIs ==
  ASSUME EvidenceInv
  PROVE  /\ KeptOf(answers) \in SUBSET ((1..5) \X Statuses)
         /\ ShownOf(correlated) \in Shown
         /\ Evidence!Version = <<case, ShownOf(correlated), KeptOf(answers)>>
<1>1. PICK n : n = Len(answers)
  OBVIOUS
<1>2. \A i \in DOMAIN answers : i \in 1..5 /\ answers[i].status \in Statuses
  BY <1>1, ResultsAre DEF Results
<1>3. correlated \in Sights
  BY DEF EvidenceInv
<1>4. ShownOf(correlated) \in Shown
  BY <1>3 DEF Sights, Shown, ShownOf
<1> QED
  BY <1>2, <1>4 DEF KeptOf, Evidence!Version, Evidence!Alerts, Evidence!Kept, ShownOf

\* What was kept tells every result that left evidence.
LEMMA KeptTells ==
  ASSUME EvidenceInv, NEW i \in DOMAIN answers
  PROVE  \A st : <<i, st>> \in KeptOf(answers) <=> answers[i].kept /\ answers[i].status = st
  BY DEF KeptOf

\* Nothing that is required of SSH counts for a capability.
LEMMA SshNeedsNothing ==
  ASSUME NEW cs, cs.contract = "ssh", NEW top \in Tops \cup {"none"}
  PROVE  NeededOf(cs, top) = {}
<1>1. CASE top = "none"
  BY <1>1 DEF NeededOf, ApplicableOf
<1>2. CASE top # "none"
  <2>1. Evidence!Types(top) \cap SessionTypes = {}
    BY <1>2, EvidenceConstants, SessionApart
  <2>2. \A i \in 1..5 : i = 1 \/ i = 2 \/ i = 3 \/ i = 4 \/ i = 5
    OBVIOUS
  <2>3. \A i \in 1..5 : Evidence!Contract["ssh"][i].required =>
                          Evidence!Contract["ssh"][i].type \in SessionTypes
    BY <2>2, SshIs
  <2> QED
    BY <2>1, <2>3 DEF NeededOf, ApplicableOf, ItemsOf
<1> QED
  BY <1>1, <1>2

\* The requirements that count for the capability of the most severe alert, and, unless an
\* asset's summary is one of them, which of them answered, as the evidence tells them.
LEMMA NeededAre ==
  ASSUME EvidenceInv, next = "analyze", NEW N, N = NeededOf(case, correlated.top)
  PROVE  /\ Evidence!Applicable = ApplicableOf(case, correlated.top)
         /\ Evidence!Required \cap Evidence!Applicable = N /\ N \in SUBSET (1..5)
         /\ ~SummaryOf(case, correlated.top) =>
              Evidence!Answered \cap N = AnsweredOf(case, correlated.top, KeptOf(answers))
<1>1. PICK n : n = Len(answers)
  OBVIOUS
<1>2. PICK s : s = Evidence!Contract[case.contract]
  OBVIOUS
<1>3. /\ n = (IF case.contract = "ssh" THEN 5 ELSE 4) /\ DOMAIN answers = 1..n
      /\ \A i \in 1..n : ResultOk(answers[i], s[i], case)
  BY <1>1, <1>2, ResultsAre
<1>4. ItemsOf(case) = DOMAIN answers /\ ItemsOf(case) \subseteq 1..5
  BY <1>3 DEF ItemsOf
<1>5. Evidence!Applicable = ApplicableOf(case, correlated.top)
  BY <1>4 DEF Evidence!Applicable, ApplicableOf, Evidence!Requirements
<1>6. Evidence!Required \cap Evidence!Applicable = N
  BY <1>4, <1>5 DEF Evidence!Required, Evidence!Requirements, NeededOf, ApplicableOf
<1>7. \A i \in N : i \in DOMAIN answers /\ i \in Evidence!Required /\ s[i].required
  BY <1>2, <1>4, <1>6 DEF NeededOf, ApplicableOf
<1>8. ASSUME ~SummaryOf(case, correlated.top), NEW i \in N
      PROVE  i \in Evidence!Answered <=> i \in AnsweredOf(case, correlated.top, KeptOf(answers))
  <2>1. s[i].by # "summary" /\ s[i].required /\ i \in DOMAIN answers
    BY <1>2, <1>7, <1>8 DEF SummaryOf
  <2>2. case.contract # "ssh"
    <3>1. correlated.top \in Tops \cup {"none"}
      BY DEF EvidenceInv, Sights
    <3> QED
      BY <3>1, SshNeedsNothing
  <2>3. IF ~case.agent /\ s[i].by \in Sources
        THEN answers[i].status = "not_found" /\ ~answers[i].kept
        ELSE answers[i].status \in {"collected", "not_found"} => answers[i].kept
    BY <1>3, <2>1, <2>2 DEF ResultOk
  <2>4. \A st : <<i, st>> \in KeptOf(answers) <=> answers[i].kept /\ answers[i].status = st
    BY <2>1, KeptTells
  <2>5. i \in Evidence!Answered <=> answers[i].status \in {"collected", "not_found"}
    BY <1>7 DEF Evidence!Answered, Evidence!With
  <2>6. i \in AnsweredOf(case, correlated.top, KeptOf(answers)) <=>
          \/ ~case.agent /\ s[i].by \in Sources
          \/ <<i, "collected">> \in KeptOf(answers) \/ <<i, "not_found">> \in KeptOf(answers)
    BY <1>2 DEF AnsweredOf
  <2> QED
    BY <2>3, <2>4, <2>5, <2>6
<1>9. AnsweredOf(case, correlated.top, KeptOf(answers)) \subseteq N
  BY DEF AnsweredOf
<1>10. ~SummaryOf(case, correlated.top) =>
         Evidence!Answered \cap N = AnsweredOf(case, correlated.top, KeptOf(answers))
  BY <1>8, <1>9
<1>11. N \in SUBSET (1..5)
  BY <1>4, <1>7
<1> QED
  BY <1>5, <1>6, <1>10, <1>11

LEMMA PercentHolds ==
  ASSUME EvidenceInv, next = "analyze"
  PROVE  PercentOk(Evidence!Percent, case, correlated.top, KeptOf(answers))
<1>1. PICK N : N = NeededOf(case, correlated.top)
  OBVIOUS
<1>2. PICK A : A = Evidence!Answered \cap N
  OBVIOUS
<1>3. /\ Evidence!Required \cap Evidence!Applicable = N /\ N \in SUBSET (1..5)
      /\ ~SummaryOf(case, correlated.top) => A = AnsweredOf(case, correlated.top, KeptOf(answers))
  BY <1>1, <1>2, NeededAre
<1>4. Evidence!Percent = Ratio(A, N)
  <2>1. \A S : Evidence!Cardinality(S) = Cardinality(S)
    BY DEF Evidence!Cardinality, Cardinality
  <2> QED
    BY <1>2, <1>3, <2>1 DEF Evidence!Percent, Ratio
<1>5. Ratio(A, N) \in 0..100
  BY <1>2, <1>3, RatioIs
<1> QED
  BY <1>1, <1>3, <1>4, <1>5 DEF PercentOk

LEMMA RelatedHolds ==
  ASSUME EvidenceInv, next = "analyze"
  PROVE  RelatedOk(correlated.truncated, case, KeptOf(answers))
<1>1. PICK n : n = Len(answers)
  OBVIOUS
<1>2. n \in {4, 5} /\ DOMAIN answers = 1..n
  BY <1>1, ResultsAre
<1>3. \A st : <<1, st>> \in KeptOf(answers) <=> answers[1].kept /\ answers[1].status = st
  BY <1>2, KeptTells
<1>4. RelatedTells(answers, case, correlated.truncated) /\ correlated.truncated \in BOOLEAN
  BY DEF EvidenceInv, Sights
<1>5. Evidence!Contract[case.contract][1].by = "related" =>
        answers[1].kept /\ (answers[1].status = "truncated" <=> correlated.truncated)
  BY <1>1, <1>2, <1>4 DEF RelatedTells
<1> QED
  BY <1>3, <1>4, <1>5 DEF RelatedOk

\* An SSH session was read exactly when its timeline left evidence.
LEMMA SshRulesAre ==
  ASSUME EvidenceInv, next = "analyze"
  PROVE  Evidence!SshDiagnosis =
           SshOf(case, ShownOf(correlated), KeptOf(answers), correlated.truncated)
<1>1. CASE case.contract = "ssh"
  <2>1. PICK n : n = Len(answers)
    OBVIOUS
  <2>2. n = 5 /\ DOMAIN answers = 1..5 /\ answers[2] \in Results /\ case \in Cases
    BY <1>1, <2>1, ResultsAre
  <2>3. case.agent => (answers[2].kept <=> diagnoses > 0)
    BY <1>1, <2>1, <2>2 DEF EvidenceInv
  <2>4. (\E s \in Statuses : <<2, s>> \in KeptOf(answers)) <=> answers[2].kept
    <3>1. answers[2].status \in Statuses
      BY <2>2 DEF Results
    <3>2. 2 \in DOMAIN answers
      BY <2>2
    <3>3. \A s : <<2, s>> \in KeptOf(answers) <=> answers[2].kept /\ answers[2].status = s
      BY <3>2, KeptTells, Zenon
    <3> HIDE DEF KeptOf
    <3> QED
      BY <3>1, <3>3, Zenon
  <2>5. Evidence!Enriched <=> case.agent /\ \E s \in Statuses : <<2, s>> \in KeptOf(answers)
    BY <1>1, <2>3, <2>4 DEF Evidence!Enriched, Evidence!Ssh
  <2> QED
    BY <1>1, <2>5 DEF Evidence!SshDiagnosis, SshOf, SshSure, SshMore, Evidence!Ssh, ShownOf
<1>2. CASE case.contract # "ssh"
  BY <1>2 DEF Evidence!SshDiagnosis, SshOf, Evidence!Ssh
<1> QED
  BY <1>1, <1>2

\* The names of what a capability's diagnosis rests on.
LEMMA IdsAre ==
  ASSUME EvidenceInv, next = "analyze"
  PROVE  {Evidence!Own(i) : i \in {j \in Evidence!Applicable :
              answers[j].status = "collected" /\ answers[j].kept}}
           = IdsOf(inv, case, correlated.top, KeptOf(answers))
<1>1. PICK J : J = {j \in ApplicableOf(case, correlated.top) : <<j, "collected">> \in KeptOf(answers)}
  OBVIOUS
<1>2. PICK n : n = Len(answers)
  OBVIOUS
<1>3. ApplicableOf(case, correlated.top) \subseteq DOMAIN answers
  BY <1>2, ResultsAre DEF ApplicableOf, ItemsOf
<1>4. {j \in Evidence!Applicable : answers[j].status = "collected" /\ answers[j].kept} = J
  BY <1>1, <1>3, NeededAre, KeptTells
<1>5. \A i \in J : Evidence!Own(i) = <<inv, i, "collected">>
  BY <1>4 DEF Evidence!Own
<1>6. {Evidence!Own(i) : i \in J} = {<<inv, i, "collected">> : i \in J}
  BY <1>5
<1> QED
  BY <1>1, <1>4, <1>6 DEF IdsOf

LEMMA CapabilityRulesAre ==
  ASSUME EvidenceInv, next = "analyze"
  PROVE  Evidence!CapabilityDiagnosis =
           CapabilityOf(inv, case, ShownOf(correlated), KeptOf(answers),
                        correlated.truncated, Evidence!Percent)
<1>1. PICK I : I = IdsOf(inv, case, correlated.top, KeptOf(answers))
  OBVIOUS
<1>2. PICK P : P = Evidence!Percent
  OBVIOUS
<1> DEFINE al == ShownOf(correlated)
<1>3. al.top = correlated.top /\ al.field = correlated.field
  BY DEF ShownOf
<1>4. Evidence!Lower(Evidence!Certainty, 50 + (40 * P) \div 100) = SureOf(al.top, P)
  BY <1>3 DEF Evidence!Certainty, SureOf
<1>5. MoreOf(al, correlated.truncated, P) =
        (correlated.truncated \/ P < 80 \/ (correlated.top # "persistence" /\ ~correlated.field))
  BY <1>3 DEF MoreOf
<1> HIDE DEF al
<1> DEFINE F(c, more, J) ==
         IF correlated.top = "none" THEN {} ELSE {Evidence!Diagnosis("capability", c, more, J)}
<1>6. Evidence!CapabilityDiagnosis =
        F(Evidence!Lower(Evidence!Certainty, 50 + (40 * Evidence!Percent) \div 100),
          \/ correlated.truncated \/ Evidence!Percent < 80
          \/ (correlated.top # "persistence" /\ ~correlated.field),
          {Evidence!Own(i) : i \in {j \in Evidence!Applicable :
              answers[j].status = "collected" /\ answers[j].kept}})
  BY DEF Evidence!CapabilityDiagnosis
<1>7. CapabilityOf(inv, case, al, KeptOf(answers), correlated.truncated, P) =
        F(SureOf(al.top, P), MoreOf(al, correlated.truncated, P), I)
  BY <1>1, <1>3 DEF CapabilityOf
<1> HIDE DEF F
<1>8. Evidence!CapabilityDiagnosis = F(SureOf(al.top, P), MoreOf(al, correlated.truncated, P), I)
  BY <1>1, <1>2, <1>4, <1>5, <1>6, IdsAre
<1> QED
  BY <1>2, <1>7, <1>8 DEF al

\* The rules' diagnosis follows from the version, but for truncation and percentage.
LEMMA RulesAre ==
  ASSUME EvidenceInv, next = "analyze"
  PROVE  Evidence!Rules = RulesOf(inv, case, ShownOf(correlated), KeptOf(answers),
                                  correlated.truncated, Evidence!Percent)
  BY SshRulesAre, CapabilityRulesAre DEF Evidence!Rules, RulesOf

\* A stored diagnosis was one of the rules for the same evidence, seen under another name,
\* truncation or percentage.
LEMMA HitIs ==
  ASSUME EvidenceInv, next = "analyze", NEW e \in Evidence!Hits
  PROVE  \E v \in Invs, t \in BOOLEAN, p \in 0..100 :
            /\ RelatedOk(t, case, KeptOf(answers))
            /\ PercentOk(p, case, correlated.top, KeptOf(answers))
            /\ e.diag \in RulesOf(v, case, ShownOf(correlated), KeptOf(answers), t, p)
<1>1. e \in cache /\ e.version = <<case, ShownOf(correlated), KeptOf(answers)>>
  BY KeptIs DEF Evidence!Hits
<1>2. EntryOk(e)
  BY <1>1 DEF EvidenceInv
<1>3. PICK v \in Invs, cs \in Cases, al \in Shown, K \in SUBSET ((1..5) \X Statuses),
           t \in BOOLEAN, p \in 0..100 :
        /\ e.version = <<cs, al, K>>
        /\ RelatedOk(t, cs, K) /\ PercentOk(p, cs, al.top, K)
        /\ e.diag \in RulesOf(v, cs, al, K, t, p)
  BY <1>2 DEF EntryOk
<1>4. cs = case /\ al = ShownOf(correlated) /\ K = KeptOf(answers)
  BY <1>1, <1>3
<1>5. al.top = correlated.top
  BY <1>4 DEF ShownOf
<1> QED
  BY <1>3, <1>4, <1>5

\* A diagnosis that names this case's evidence names what the rules name for it.
LEMMA IdsAgree ==
  ASSUME EvidenceInv, NEW v, NEW cs, NEW top, NEW K,
         IdsOf(v, cs, top, K) \subseteq Evidence!Known
  PROVE  IdsOf(v, cs, top, K) = IdsOf(inv, cs, top, K)
<1> DEFINE J == {j \in ApplicableOf(cs, top) : <<j, "collected">> \in K}
<1>1. \A w : IdsOf(w, cs, top, K) = {<<w, i, "collected">> : i \in J}
  BY DEF IdsOf
<1> HIDE DEF J
<1>2. CASE J = {}
  BY <1>1, <1>2
<1>3. CASE J # {}
  <2>1. PICK i \in J : <<v, i, "collected">> \in IdsOf(v, cs, top, K)
    BY <1>1, <1>3
  <2>2. <<v, i, "collected">> \in Evidence!Known
    BY <2>1
  <2>3. v = inv
    BY <2>2 DEF Evidence!Known, Evidence!Own
  <2> QED
    BY <2>3
<1> QED
  BY <1>2, <1>3

LEMMA FromCacheKeeps ==
  ASSUME EvidenceInv, Evidence!FromCache
  PROVE  EvidenceInv'
<1>1. /\ next = "analyze" /\ cached' = TRUE
      /\ UNCHANGED <<inv, case, correlated, counted, made, answers, cache>>
  BY DEF Evidence!FromCache
<1>2. \A e \in cache' : EntryOk(e)
  BY <1>1 DEF EvidenceInv
<1>3. PICK e \in Evidence!Hits :
        \/ Evidence!Conclude(e.diag)
        \/ next' = "failed" /\ UNCHANGED <<diag, diagnoses>>
  BY DEF Evidence!FromCache
<1>4. CASE Evidence!Conclude(e.diag)
  <2>1. PICK d : d = e.diag
    OBVIOUS
  <2>2. /\ d = [by |-> d.by, confidence |-> d.confidence, more |-> d.more, ids |-> d.ids]
        /\ d.confidence \in 0..100
    <3>1. PICK v \in Invs, t \in BOOLEAN, p \in 0..100 :
            d \in RulesOf(v, case, ShownOf(correlated), KeptOf(answers), t, p)
      BY <1>1, <2>1, HitIs
    <3> QED
      BY <3>1, KeptIs, RulesBound
  <2>3. Evidence!Conclude([by |-> d.by, confidence |-> d.confidence, more |-> d.more, ids |-> d.ids])
    BY <1>4, <2>1, <2>2
  <2> QED
    BY <1>1, <1>2, <2>2, <2>3, ConcludeKeeps
<1>5. CASE next' = "failed" /\ UNCHANGED <<diag, diagnoses>>
  BY <1>1, <1>5, FailKeeps
<1> QED
  BY <1>3, <1>4, <1>5

LEMMA FromRulesKeeps ==
  ASSUME EvidenceInv, Evidence!FromRules
  PROVE  EvidenceInv'
<1>1. /\ next = "analyze" /\ cached' = FALSE
      /\ UNCHANGED <<inv, case, correlated, counted, made, answers>>
  BY DEF Evidence!FromRules
<1>2. PICK d \in Evidence!Rules :
        /\ Evidence!Conclude(d)
        /\ cache' = cache \cup {[version |-> Evidence!Version, diag |-> d]}
  BY DEF Evidence!FromRules
<1>3. inv \in Invs /\ case \in Cases /\ correlated \in Sights
  BY DEF EvidenceInv
<1>4. PICK K \in SUBSET ((1..5) \X Statuses), al \in Shown, t \in BOOLEAN, p \in 0..100 :
        /\ K = KeptOf(answers) /\ al = ShownOf(correlated) /\ al.top = correlated.top
        /\ t = correlated.truncated /\ p = Evidence!Percent
        /\ RelatedOk(t, case, K) /\ PercentOk(p, case, correlated.top, K)
  <2>1. RelatedOk(correlated.truncated, case, KeptOf(answers)) /\ correlated.truncated \in BOOLEAN
    BY <1>1, RelatedHolds DEF RelatedOk
  <2>2. /\ PercentOk(Evidence!Percent, case, correlated.top, KeptOf(answers))
        /\ Evidence!Percent \in 0..100
    BY <1>1, PercentHolds DEF PercentOk
  <2>3. ShownOf(correlated).top = correlated.top
    BY DEF ShownOf
  <2> QED
    BY <2>1, <2>2, <2>3, KeptIs
<1>5. d \in RulesOf(inv, case, al, K, t, p)
  BY <1>1, <1>2, <1>4, RulesAre
<1>6. /\ d = [by |-> d.by, confidence |-> d.confidence, more |-> d.more, ids |-> d.ids]
      /\ d.confidence \in 0..100
  BY <1>5, RulesBound
<1>7. PICK e : e = [version |-> Evidence!Version, diag |-> d]
  OBVIOUS
<1>8. EntryOk(e)
  <2>1. e.version = <<case, al, K>> /\ e.diag = d
    BY <1>4, <1>7, KeptIs
  <2> QED
    BY <1>3, <1>4, <1>5, <2>1 DEF EntryOk
<1>9. \A x \in cache' : EntryOk(x)
  <2>1. \A x \in cache : EntryOk(x)
    BY DEF EvidenceInv
  <2>2. cache' = cache \cup {e}
    BY <1>2, <1>7
  <2> QED
    BY <1>8, <2>1, <2>2
<1>10. Evidence!Conclude([by |-> d.by, confidence |-> d.confidence, more |-> d.more, ids |-> d.ids])
  BY <1>2, <1>6
<1> QED
  BY <1>1, <1>6, <1>9, <1>10, ConcludeKeeps

LEMMA FromModelKeeps ==
  ASSUME EvidenceInv, Evidence!FromModel
  PROVE  EvidenceInv'
<1>1. /\ next = "analyze" /\ cached' = FALSE
      /\ UNCHANGED <<inv, case, correlated, counted, made, answers, cache>>
      /\ \/ \E d \in Evidence!ModelDiagnosis : Evidence!Conclude(d)
         \/ next' = "failed" /\ UNCHANGED <<diag, diagnoses>>
  BY DEF Evidence!FromModel
<1>2. \A e \in cache' : EntryOk(e)
  BY <1>1 DEF EvidenceInv
<1>3. CASE \E d \in Evidence!ModelDiagnosis : Evidence!Conclude(d)
  <2>1. PICK c \in {0, 70, 95}, more \in BOOLEAN :
          Evidence!Conclude(Evidence!Diagnosis("model", c, more, {}))
    BY <1>3 DEF Evidence!ModelDiagnosis
  <2>2. Evidence!Conclude([by |-> "model", confidence |-> c, more |-> more, ids |-> {}])
    BY <2>1 DEF Evidence!Diagnosis
  <2>3. c \in 0..100
    OBVIOUS
  <2> QED
    BY <1>1, <1>2, <2>2, <2>3, ConcludeKeeps
<1>4. CASE next' = "failed" /\ UNCHANGED <<diag, diagnoses>>
  BY <1>1, <1>4, FailKeeps
<1> QED
  BY <1>1, <1>3, <1>4

LEMMA ExpireKeeps ==
  ASSUME EvidenceInv, Evidence!Expire
  PROVE  EvidenceInv'
<1>1. UNCHANGED <<inv, case, next, diagnoses, correlated, counted, made, answers, diag, cached>>
      /\ cache' = {}
  BY DEF Evidence!Expire
<1>2. \A e \in cache' : EntryOk(e)
  BY <1>1
<1> QED
  BY <1>1, <1>2 DEF EvidenceInv, Evidence!PlannedSawEverything, Evidence!With,
                    Evidence!Required, Evidence!Requirements

LEMMA ReinvestigateKeeps ==
  ASSUME EvidenceInv, Evidence!Reinvestigate
  PROVE  EvidenceInv'
<1>1. /\ inv' \in Invs /\ case' = case /\ next' = "monitor" /\ diagnoses' = 0 /\ counted' = 0
      /\ made' = 0 /\ answers' = <<>> /\ diag' = Undiagnosed /\ cached' = FALSE /\ cache' = cache
      /\ correlated' = Evidence!Unseen
  BY DEF Evidence!Reinvestigate
<1>2. case \in Cases /\ \A e \in cache : EntryOk(e)
  BY DEF EvidenceInv
<1>3. correlated' \in Sights
  BY <1>1 DEF Sights, Evidence!Unseen
<1>4. case.contract \in Contracts
  BY <1>2 DEF Cases
<1>5. answers' \in Seq(Results) /\ Len(answers') = 0
  BY <1>1
<1>6. Len(Evidence!Contract[case.contract]) \in Nat
  BY <1>4, RequirementsAre
<1>7. diagnoses' \in 0..MaxAttempts /\ diagnoses' < MaxAttempts
  BY <1>1, EvidenceConstants
<1>8. Evidence!PlannedSawEverything'
  BY <1>1 DEF Evidence!PlannedSawEverything
<1>9. /\ Len(answers') <= Len(Evidence!Contract[case'.contract])
      /\ \A i \in 1..Len(answers') :
           ResultOk(answers'[i], Evidence!Contract[case'.contract][i], case')
  BY <1>1, <1>5, <1>6
<1>10. /\ next' \in {"monitor", "collect", "analyze", "plan", "escalated", "failed"}
       /\ next' # "collect" /\ next' # "analyze"
  BY <1>1
<1>11. (\A e \in cache' : EntryOk(e)) /\ counted' \in Nat /\ made' \in Nat
  BY <1>1, <1>2
<1>12. inv' \in Invs /\ case' \in Cases
  BY <1>1, <1>2
<1> QED
  BY <1>1, <1>3, <1>5, <1>7, <1>8, <1>9, <1>10, <1>11, <1>12 DEF EvidenceInv

LEMMA EvidenceKeeps == EvidenceInv /\ [Evidence!Next]_evidenceVars => EvidenceInv'
<1> SUFFICES ASSUME EvidenceInv, [Evidence!Next]_evidenceVars
             PROVE  EvidenceInv'
  OBVIOUS
<1>1. CASE Evidence!Correlate BY <1>1, CorrelateKeeps
<1>2. CASE Evidence!Collect BY <1>2, CollectKeeps
<1>3. CASE Evidence!Collected BY <1>3, CollectedKeeps
<1>4. CASE Evidence!FromCache BY <1>4, FromCacheKeeps
<1>5. CASE Evidence!FromRules BY <1>5, FromRulesKeeps
<1>6. CASE Evidence!FromModel BY <1>6, FromModelKeeps
<1>7. CASE Evidence!Expire BY <1>7, ExpireKeeps
<1>8. CASE Evidence!Reinvestigate BY <1>8, ReinvestigateKeeps
<1>9. CASE UNCHANGED evidenceVars BY <1>9, EvidenceStutters
<1> QED
  BY <1>1, <1>2, <1>3, <1>4, <1>5, <1>6, <1>7, <1>8, <1>9 DEF Evidence!Next

\* What is deferred makes of diagnoses that agree assessments that agree.
LEMMA AssessedAgree ==
  ASSUME NEW c, c = [by |-> c.by, confidence |-> c.confidence, more |-> c.more, ids |-> c.ids],
         NEW d, d = [by |-> d.by, confidence |-> d.confidence, more |-> d.more, ids |-> d.ids]
  PROVE  /\ Evidence!Assessed(c).by = c.by /\ Evidence!Assessed(c).ids = c.ids
         /\ Evidence!Assessed(c).confidence = c.confidence
         /\ c.more = d.more => Evidence!Assessed(c).more = Evidence!Assessed(d).more
<1> DEFINE D == Evidence!With({"deferred"}) # {}
<1>1. PICK m : m = (c.more \/ D)
  OBVIOUS
<1>2. PICK n : n = (d.more \/ D)
  OBVIOUS
<1>3. Evidence!Assessed(c) = [c EXCEPT !.more = m]
  BY <1>1, Zenon DEF Evidence!Assessed
<1>4. Evidence!Assessed(d) = [d EXCEPT !.more = n]
  BY <1>2, Zenon DEF Evidence!Assessed
<1>5. c.more = d.more => m = n
  BY <1>1, <1>2, Zenon
<1> HIDE DEF D
<1>6. /\ Evidence!Assessed(c).by = c.by /\ Evidence!Assessed(c).ids = c.ids
      /\ Evidence!Assessed(c).confidence = c.confidence /\ Evidence!Assessed(c).more = m
  BY <1>3
<1>7. Evidence!Assessed(d).more = n
  BY <1>4
<1> QED
  BY <1>5, <1>6, <1>7

\* What the cache serves is what the rules would say, as far as the version tells.
LEMMA CacheStep ==
  ASSUME EvidenceInv, Evidence!FromCache, next' # "failed"
  PROVE  \E d \in Evidence!Rules :
            /\ diag'.by = d.by /\ diag'.ids = d.ids
            /\ Evidence!SummaryCounts \/ diag'.confidence = d.confidence
            /\ Evidence!SummaryCounts \/ Evidence!Using("related") = {}
                 \/ diag'.more = Evidence!Assessed(d).more
<1>1. next = "analyze"
  BY DEF Evidence!FromCache
<1>2. PICK e \in Evidence!Hits : e.diag.ids \subseteq Evidence!Known /\ Evidence!Conclude(e.diag)
  BY DEF Evidence!FromCache
<1>3. PICK c : c = e.diag
  OBVIOUS
<1>4. PICK cs, K, al :
        /\ cs = case /\ K = KeptOf(answers) /\ al = ShownOf(correlated) /\ al \in Shown
        /\ al.top = correlated.top
  <2>1. ShownOf(correlated).top = correlated.top /\ ShownOf(correlated) \in Shown
    BY KeptIs DEF ShownOf
  <2> QED
    BY <2>1
<1> DEFINE sm == SummaryOf(case, correlated.top)
           rl == Evidence!Contract[case.contract][1].by = "related"
<1>15. sm <=> SummaryOf(cs, al.top)
  BY <1>4
<1>16. rl <=> Evidence!Contract[cs.contract][1].by = "related"
  BY <1>4
<1>5. PICK v \in Invs, t \in BOOLEAN, p \in 0..100 :
        /\ RelatedOk(t, cs, K) /\ PercentOk(p, cs, al.top, K) /\ c \in RulesOf(v, cs, al, K, t, p)
  BY <1>1, <1>2, <1>3, <1>4, HitIs
<1>6. PICK u \in BOOLEAN, q \in 0..100 :
        /\ RelatedOk(u, cs, K) /\ PercentOk(q, cs, al.top, K)
        /\ Evidence!Rules = RulesOf(inv, cs, al, K, u, q)
  <2>1. RelatedOk(correlated.truncated, cs, K) /\ correlated.truncated \in BOOLEAN
    BY <1>1, <1>4, RelatedHolds DEF RelatedOk
  <2>2. PercentOk(Evidence!Percent, cs, al.top, K) /\ Evidence!Percent \in 0..100
    BY <1>1, <1>4, PercentHolds DEF PercentOk
  <2>3. Evidence!Rules = RulesOf(inv, cs, al, K, correlated.truncated, Evidence!Percent)
    BY <1>1, <1>4, RulesAre
  <2> QED
    BY <2>1, <2>2, <2>3
<1> HIDE DEF sm, rl
<1>7. (rl => t = u) /\ (~sm => p = q)
  <2>1. rl => t = u
    BY <1>5, <1>6, <1>16 DEF RelatedOk
  <2>2. ~sm => p = q
    BY <1>5, <1>6, <1>15 DEF PercentOk
  <2> QED
    BY <2>1, <2>2
<1>8. \E d \in Evidence!Rules :
        /\ c.by = d.by /\ c.ids = d.ids /\ (sm \/ c.confidence = d.confidence)
        /\ sm \/ ~rl \/ c.more = d.more
  <2>1. CASE SshOf(cs, al, K, t) # {}
    <3>1. SshOf(cs, al, K, u) # {}
      BY <2>1 DEF SshOf
    <3>2. c \in SshOf(cs, al, K, t) /\ Evidence!Rules = SshOf(cs, al, K, u)
      BY <1>5, <1>6, <2>1, <3>1 DEF RulesOf
    <3>3. PICK d \in Evidence!Rules : TRUE
      BY <3>1, <3>2
    <3>4. /\ c.by = d.by /\ c.ids = d.ids /\ c.confidence = d.confidence
          /\ c.more = SshMore(al, t) /\ d.more = SshMore(al, u)
      <4>1. d \in SshOf(cs, al, K, u)
        BY <3>2, <3>3, Zenon
      <4>2. /\ c.by = "ssh" /\ c.confidence = SshSure(al) /\ c.more = SshMore(al, t)
            /\ c.ids = {}
        BY <3>2, SshBound
      <4>3. /\ d.by = "ssh" /\ d.confidence = SshSure(al) /\ d.more = SshMore(al, u)
            /\ d.ids = {}
        BY <4>1, SshBound
      <4> QED
        BY <4>2, <4>3
    <3>5. rl => c.more = d.more
      <4>1. SUFFICES ASSUME t = u PROVE c.more = d.more
        BY <1>7
      <4> QED
        BY <3>4, <4>1, Zenon
    <3> QED
      BY <3>3, <3>4, <3>5
  <2>2. CASE SshOf(cs, al, K, t) = {}
    <3>1. SshOf(cs, al, K, u) = {}
      BY <2>2 DEF SshOf
    <3>2. c \in CapabilityOf(v, cs, al, K, t, p) /\ Evidence!Rules = CapabilityOf(inv, cs, al, K, u, q)
      BY <1>5, <1>6, <2>2, <3>1 DEF RulesOf
    <3>3. /\ c.by = "capability" /\ c.confidence = SureOf(al.top, p) /\ c.more = MoreOf(al, t, p)
          /\ c.ids = IdsOf(v, cs, al.top, K) /\ al.top # "none"
      BY <3>2, CapabilityBound
    <3>4. PICK d \in Evidence!Rules : TRUE
      BY <3>2, <3>3 DEF CapabilityOf
    <3>5. /\ d.by = "capability" /\ d.confidence = SureOf(al.top, q) /\ d.more = MoreOf(al, u, q)
          /\ d.ids = IdsOf(inv, cs, al.top, K)
      BY <3>2, <3>4, CapabilityBound
    <3>6. c.ids = d.ids
      BY <1>2, <1>3, <3>3, <3>5, IdsAgree
    <3>7. sm \/ c.confidence = d.confidence
      BY <1>7, <3>3, <3>5, Zenon
    <3>8. sm \/ ~rl \/ c.more = d.more
      BY <1>7, <3>3, <3>5, Zenon
    <3> QED
      BY <3>3, <3>4, <3>5, <3>6, <3>7, <3>8
  <2> QED
    BY <2>1, <2>2
<1>9. sm <=> Evidence!SummaryCounts
  <2>1. PICK N : N = NeededOf(case, correlated.top)
    OBVIOUS
  <2>2. Evidence!Required \cap Evidence!Applicable = N
    BY <1>1, <2>1, NeededAre
  <2> QED
    BY <2>1, <2>2 DEF sm, SummaryOf, Evidence!SummaryCounts, Evidence!Requirements
<1>10. Evidence!Using("related") # {} => rl
  <2>1. PICK s : s = Evidence!Contract[case.contract]
    OBVIOUS
  <2>2. case.contract \in Names
    <3>1. case \in Cases
      BY DEF EvidenceInv
    <3> QED
      BY <3>1, EvidenceConstants DEF Cases
  <2>3. CASE case.contract = "ssh"
    BY <2>3, SshIs DEF rl
  <2>4. CASE case.contract # "ssh"
    <3>1. Plain(s)
      BY <2>1, <2>2, <2>4, ContractsAre
    <3>2. DOMAIN s = 1..4 /\ \A i \in 1..4 : i = 1 \/ i \in 2..4
      BY <3>1 DEF Plain
    <3> QED
      BY <2>1, <3>1, <3>2 DEF rl, Plain, Evidence!Using, Evidence!Requirements
  <2> QED
    BY <2>3, <2>4
<1>11. PICK d \in Evidence!Rules :
        /\ c.by = d.by /\ c.ids = d.ids /\ (sm \/ c.confidence = d.confidence)
        /\ sm \/ ~rl \/ c.more = d.more
  BY <1>8
<1>12. /\ c = [by |-> c.by, confidence |-> c.confidence, more |-> c.more, ids |-> c.ids]
       /\ d = [by |-> d.by, confidence |-> d.confidence, more |-> d.more, ids |-> d.ids]
  <2>1. c = [by |-> c.by, confidence |-> c.confidence, more |-> c.more, ids |-> c.ids]
    <3>1. c \in RulesOf(v, cs, al, K, t, p)
      BY <1>5
    <3> QED
      BY <3>1, RulesGive
  <2>2. d \in RulesOf(inv, cs, al, K, u, q)
    BY <1>6, <1>11, Zenon
  <2>3. d = [by |-> d.by, confidence |-> d.confidence, more |-> d.more, ids |-> d.ids]
    BY <2>2, RulesGive
  <2> QED
    BY <2>1, <2>3
<1>13. diag' = Evidence!Assessed(c)
  BY <1>2, <1>3 DEF Evidence!Conclude
<1>14. /\ diag'.by = c.by /\ diag'.ids = c.ids /\ diag'.confidence = c.confidence
       /\ c.more = d.more => diag'.more = Evidence!Assessed(d).more
  BY <1>12, <1>13, AssessedAgree
<1> QED
  BY <1>9, <1>10, <1>11, <1>14

\* The invariant implies what the runs check.
LEMMA EvidenceIsFounded ==
  ASSUME EvidenceInv
  PROVE  /\ Evidence!TypeOK /\ Evidence!AgentAnswers /\ Evidence!EveryRequirementIsTried
         /\ Evidence!PlannedSawEverything
<1>1. PICK n : n = Len(answers)
  OBVIOUS
<1>2. \A i \in DOMAIN answers :
        ResultOk(answers[i], Evidence!Contract[case.contract][i], case)
  BY <1>1, ResultsAre
<1>3. Evidence!TypeOK
  <2>1. \A i \in DOMAIN answers : answers[i].status \in Statuses
    BY <1>2 DEF ResultOk, Results
  <2> QED
    BY <2>1 DEF EvidenceInv, Evidence!TypeOK, Evidence!Sights, Cases, Sights, Statuses
<1>4. Evidence!AgentAnswers
  BY <1>2 DEF Evidence!AgentAnswers, Evidence!AnsweredWasAsked, Evidence!Ssh, ResultOk
<1>5. Evidence!EveryRequirementIsTried
  BY <1>2 DEF Evidence!EveryRequirementIsTried, EnoughCalls, ResultOk
<1>6. Evidence!PlannedSawEverything
  BY DEF EvidenceInv
<1> QED
  BY <1>3, <1>4, <1>5, <1>6

-----------------------------------------------------------------------------
(* The containment of SSH alerts: what the rules make of a set of alerts,   *)
(* for any estate e and any set S of collected alerts.                      *)

AlertIds == 1..2 * (Others + 1)
Alerts == [at : Times, ip : IPs \cup {None}, user : Users \cup {None}, ok : BOOLEAN]
Estates == [1..Others + 1 -> Alerts]

EventOf(e, id) == e[Ssh!Original(id)]
FailuresOf(e, S) == {id \in S : ~EventOf(e, id).ok}
SuccessesOf(e, S) == {id \in S : EventOf(e, id).ok}
NamedOf(e, S) == {EventOf(e, id).user : id \in S} \ {None}
SuccessAfterOf(e, f, s) ==
    /\ EventOf(e, f).at < EventOf(e, s).at
    /\ EventOf(e, s).at - EventOf(e, f).at <= SuccessWindow
    /\ Ssh!Alike(EventOf(e, f).ip, EventOf(e, s).ip)
    /\ Ssh!Alike(EventOf(e, f).user, EventOf(e, s).user)
SucceededOf(e, S) == \E f \in FailuresOf(e, S), s \in SuccessesOf(e, S) : SuccessAfterOf(e, f, s)
FromOf(e, first, S, span) ==
    {id \in S : EventOf(e, id).at >= EventOf(e, first).at
                /\ EventOf(e, id).at - EventOf(e, first).at <= span}
GuessesOf(e, S, ip, user) ==
    {id \in FailuresOf(e, S) : EventOf(e, id).ip = ip /\ EventOf(e, id).user = user}
SprayedByOf(e, S, ip) == {id \in FailuresOf(e, S) : EventOf(e, id).ip = ip}
BruteOf(e, S, ip) ==
    \E user \in Users \cup {None} : \E first \in GuessesOf(e, S, ip, user) :
        Cardinality(FromOf(e, first, GuessesOf(e, S, ip, user), BruteWindow)) >= BruteFailures
SprayOf(e, S, ip) ==
    \E first \in SprayedByOf(e, S, ip) :
        /\ Cardinality(FromOf(e, first, SprayedByOf(e, S, ip), SprayWindow)) >= SprayFailures
        /\ Cardinality(NamedOf(e, FromOf(e, first, SprayedByOf(e, S, ip), SprayWindow)))
               >= SprayUsers
ClassOf(e, S) ==
    IF SucceededOf(e, S) THEN "success"
    ELSE IF \E ip \in IPs \cup {None} : SprayOf(e, S, ip) THEN "spray"
    ELSE IF \E ip \in IPs \cup {None} : BruteOf(e, S, ip) THEN "brute"
    ELSE "weak"
Strongs == {"success", "spray", "brute"}
RankOf == [weak |-> 0, brute |-> 1, spray |-> 2, success |-> 3]

LEMMA SshConstants ==
  /\ Others \in Nat /\ Times \subseteq Nat /\ MaxAttempts \in Nat \ {0} /\ Window \in Nat
  /\ BruteFailures \in Nat \ {0} /\ SprayUsers \in Nat \ {0} /\ SprayFailures \in Nat \ {0}
  /\ BruteWindow \in Nat /\ SprayWindow \in Nat /\ SuccessWindow \in Nat
  /\ None \notin IPs \cup Users
  BY SshAssumption DEF Ssh!BoundAssumption, Ssh!ListAssumption

\* Every identifier, of an alert or of its copy, is that of an event of the endpoint.
LEMMA EventsAre ==
  ASSUME NEW e \in Estates, NEW id \in AlertIds
  PROVE  /\ Ssh!Original(id) \in 1..Others + 1
         /\ EventOf(e, id) \in Alerts
         /\ id \in 1..Others + 1 => Ssh!Original(id) = id
<1>1. Ssh!Original(id) \in 1..Others + 1
  BY SshConstants DEF AlertIds, Ssh!Original
<1>2. id \in 1..Others + 1 => Ssh!Original(id) = id
  BY SshConstants DEF Ssh!Original
<1> QED
  BY <1>1, <1>2 DEF Estates, EventOf

LEMMA AlertSetsAreFinite ==
  ASSUME NEW S \in SUBSET AlertIds
  PROVE  IsFiniteSet(S) /\ Cardinality(S) \in Nat
<1>1. IsFiniteSet(AlertIds)
  BY SshConstants, FS_Interval DEF AlertIds
<1>2. IsFiniteSet(S)
  BY <1>1, FS_Subset
<1> QED
  BY <1>2, FS_CardinalityType

\* More alerts name as many users or more.
LEMMA NamedIs ==
  ASSUME NEW e \in Estates, NEW S \in SUBSET AlertIds
  PROVE  /\ NamedOf(e, S) \subseteq Users
         /\ IsFiniteSet(NamedOf(e, S)) /\ Cardinality(NamedOf(e, S)) \in Nat
<1>1. \A id \in S : EventOf(e, id).user \in Users \cup {None}
  BY EventsAre DEF Alerts
<1>2. NamedOf(e, S) \subseteq Users
  BY <1>1 DEF NamedOf
<1> DEFINE U == {EventOf(e, id).user : id \in S}
           f == [id \in S |-> EventOf(e, id).user]
<1>3. f \in Surjection(S, U)
  BY DEF Surjection
<1>4. IsFiniteSet(U)
  <2> HIDE DEF f, U
  <2> QED
    BY <1>3, AlertSetsAreFinite, FS_Surjection
<1>5. NamedOf(e, S) \in SUBSET U
  BY DEF NamedOf
<1>6. IsFiniteSet(NamedOf(e, S))
  <2> HIDE DEF U
  <2> QED
    BY <1>4, <1>5, FS_Subset
<1> QED
  BY <1>2, <1>6, FS_CardinalityType

LEMMA FailuresGrow ==
  ASSUME NEW e, NEW T, NEW S \in SUBSET T
  PROVE  FailuresOf(e, S) \subseteq FailuresOf(e, T) /\ SuccessesOf(e, S) \subseteq SuccessesOf(e, T)
  BY DEF FailuresOf, SuccessesOf

LEMMA BruteGrows ==
  ASSUME NEW e \in Estates, NEW T \in SUBSET AlertIds, NEW S \in SUBSET T, NEW ip,
         BruteOf(e, S, ip)
  PROVE  BruteOf(e, T, ip)
<1>0. PICK user \in Users \cup {None} : \E first \in GuessesOf(e, S, ip, user) :
        Cardinality(FromOf(e, first, GuessesOf(e, S, ip, user), BruteWindow)) >= BruteFailures
  BY DEF BruteOf
<1>1. PICK first \in GuessesOf(e, S, ip, user) :
        Cardinality(FromOf(e, first, GuessesOf(e, S, ip, user), BruteWindow)) >= BruteFailures
  BY <1>0
<1>2. PICK G, H : G = GuessesOf(e, S, ip, user) /\ H = GuessesOf(e, T, ip, user)
  OBVIOUS
<1>3. G \subseteq H /\ H \subseteq AlertIds
  BY <1>2, FailuresGrow DEF GuessesOf, FailuresOf
<1>4. PICK A, B : A = FromOf(e, first, G, BruteWindow) /\ B = FromOf(e, first, H, BruteWindow)
  OBVIOUS
<1>5. A \in SUBSET B /\ B \in SUBSET AlertIds
  BY <1>3, <1>4 DEF FromOf
<1>6. IsFiniteSet(B) /\ Cardinality(B) \in Nat /\ Cardinality(A) \in Nat
  BY <1>5, AlertSetsAreFinite
<1>7. Cardinality(A) <= Cardinality(B)
  BY <1>5, <1>6, FS_Subset
<1>8. Cardinality(B) >= BruteFailures
  BY <1>1, <1>2, <1>4, <1>6, <1>7, SshConstants
<1>9. first \in H
  BY <1>1, <1>2, <1>3
<1> QED
  BY <1>2, <1>4, <1>8, <1>9 DEF BruteOf

LEMMA SprayGrows ==
  ASSUME NEW e \in Estates, NEW T \in SUBSET AlertIds, NEW S \in SUBSET T, NEW ip,
         SprayOf(e, S, ip)
  PROVE  SprayOf(e, T, ip)
<1>1. PICK first \in SprayedByOf(e, S, ip) :
        /\ Cardinality(FromOf(e, first, SprayedByOf(e, S, ip), SprayWindow)) >= SprayFailures
        /\ Cardinality(NamedOf(e, FromOf(e, first, SprayedByOf(e, S, ip), SprayWindow)))
               >= SprayUsers
  BY DEF SprayOf
<1>2. PICK G, H : G = SprayedByOf(e, S, ip) /\ H = SprayedByOf(e, T, ip)
  OBVIOUS
<1>3. G \subseteq H /\ H \subseteq AlertIds
  BY <1>2, FailuresGrow DEF SprayedByOf, FailuresOf
<1>4. PICK A, B : A = FromOf(e, first, G, SprayWindow) /\ B = FromOf(e, first, H, SprayWindow)
  OBVIOUS
<1>5. A \in SUBSET B /\ B \in SUBSET AlertIds
  BY <1>3, <1>4 DEF FromOf
<1>6. IsFiniteSet(B) /\ Cardinality(B) \in Nat /\ Cardinality(A) \in Nat
  BY <1>5, AlertSetsAreFinite
<1>7. Cardinality(A) <= Cardinality(B)
  BY <1>5, <1>6, FS_Subset
<1>8. PICK M, N : M = NamedOf(e, A) /\ N = NamedOf(e, B)
  OBVIOUS
<1>9. M \in SUBSET N /\ IsFiniteSet(N) /\ Cardinality(N) \in Nat /\ Cardinality(M) \in Nat
  <2>1. M \in SUBSET N
    BY <1>5, <1>8 DEF NamedOf
  <2> QED
    BY <2>1, <1>5, <1>8, NamedIs
<1>10. Cardinality(M) <= Cardinality(N)
  BY <1>9, FS_Subset
<1>11. Cardinality(B) >= SprayFailures /\ Cardinality(N) >= SprayUsers
  BY <1>1, <1>2, <1>4, <1>6, <1>7, <1>8, <1>9, <1>10, SshConstants
<1>12. first \in H
  BY <1>1, <1>2, <1>3
<1> QED
  BY <1>2, <1>4, <1>8, <1>11, <1>12 DEF SprayOf

\* Whatever the rules find in some alerts, they find as much in more.
LEMMA ClassGrows ==
  ASSUME NEW e \in Estates, NEW T \in SUBSET AlertIds, NEW S \in SUBSET T
  PROVE  /\ RankOf[ClassOf(e, T)] >= RankOf[ClassOf(e, S)]
         /\ ClassOf(e, S) \in Strongs => ClassOf(e, T) \in Strongs
<1>1. SucceededOf(e, S) => SucceededOf(e, T)
  BY FailuresGrow DEF SucceededOf
<1>2. (\E ip \in IPs \cup {None} : SprayOf(e, S, ip))
        => (\E ip \in IPs \cup {None} : SprayOf(e, T, ip))
  BY SprayGrows
<1>3. (\E ip \in IPs \cup {None} : BruteOf(e, S, ip))
        => (\E ip \in IPs \cup {None} : BruteOf(e, T, ip))
  BY BruteGrows
<1> QED
  BY <1>1, <1>2, <1>3 DEF ClassOf, RankOf, Strongs

\* What the specification says of a state is what was said above of its alerts.
LEMMA RulesRead ==
  /\ Ssh!Failures = FailuresOf(estate, seen) /\ Ssh!Successes = SuccessesOf(estate, seen)
  /\ \A ip, user : Ssh!Guesses(ip, user) = GuessesOf(estate, seen, ip, user)
  /\ \A ip : Ssh!SprayedBy(ip) = SprayedByOf(estate, seen, ip)
  /\ \A first, S, span : Ssh!From(first, S, span) = FromOf(estate, first, S, span)
  /\ \A S : Ssh!Named(S) = NamedOf(estate, S)
  /\ \A f, s : Ssh!SuccessAfter(f, s) <=> SuccessAfterOf(estate, f, s)
<1>1. Ssh!Failures = FailuresOf(estate, seen) /\ Ssh!Successes = SuccessesOf(estate, seen)
  BY DEF Ssh!Failures, Ssh!Successes, Ssh!Event, FailuresOf, SuccessesOf, EventOf
<1>2. \A ip, user : Ssh!Guesses(ip, user) = GuessesOf(estate, seen, ip, user)
  BY <1>1 DEF Ssh!Guesses, GuessesOf, Ssh!Event, EventOf
<1>3. \A ip : Ssh!SprayedBy(ip) = SprayedByOf(estate, seen, ip)
  BY <1>1 DEF Ssh!SprayedBy, SprayedByOf, Ssh!Event, EventOf
<1>4. \A first, S, span : Ssh!From(first, S, span) = FromOf(estate, first, S, span)
  BY DEF Ssh!From, FromOf, Ssh!Event, EventOf
<1>5. \A S : Ssh!Named(S) = NamedOf(estate, S)
  BY DEF Ssh!Named, NamedOf, Ssh!Event, EventOf
<1>6. \A f, s : Ssh!SuccessAfter(f, s) <=> SuccessAfterOf(estate, f, s)
  BY DEF Ssh!SuccessAfter, SuccessAfterOf, Ssh!SameSubject, Ssh!Event, EventOf
<1> QED
  BY <1>1, <1>2, <1>3, <1>4, <1>5, <1>6

LEMMA ClassIs == Ssh!Class = ClassOf(estate, seen)
<1>0. \A S : Ssh!Cardinality(S) = Cardinality(S)
  BY DEF Ssh!Cardinality, Cardinality
<1>1. Ssh!Succeeded <=> SucceededOf(estate, seen)
  BY RulesRead DEF Ssh!Succeeded, SucceededOf
<1>2. \A ip : Ssh!SprayFrom(ip) <=> SprayOf(estate, seen, ip)
  BY <1>0, RulesRead DEF Ssh!SprayFrom, SprayOf
<1>3. \A ip : Ssh!BruteFrom(ip) <=> BruteOf(estate, seen, ip)
  BY <1>0, RulesRead DEF Ssh!BruteFrom, BruteOf
<1> QED
  BY <1>1, <1>2, <1>3 DEF Ssh!Class, ClassOf

LEMMA ClassWillBe == Ssh!Class' = ClassOf(estate', seen')
  BY DEF Ssh!Class, ClassOf, Ssh!Succeeded, SucceededOf, Ssh!SprayFrom, SprayOf,
         Ssh!BruteFrom, BruteOf, Ssh!Failures, FailuresOf, Ssh!Successes, SuccessesOf,
         Ssh!Guesses, GuessesOf, Ssh!SprayedBy, SprayedByOf, Ssh!From, FromOf, Ssh!Named, NamedOf,
         Ssh!SuccessAfter, SuccessAfterOf, Ssh!SameSubject, Ssh!Event, EventOf,
         Ssh!Cardinality, Cardinality

\* What a search of pass p is to find of the primary alert's source.
NearOf(e, i, p) ==
    LET apart == e[i].at - e[1].at IN apart <= p * Window /\ -apart <= p * Window
RelatedOf(e, p) ==
    {i \in 1..Others + 1 : NearOf(e, i, p) /\ (e[1].ip # None => e[i].ip = e[1].ip)}

Diagnosed ==
    [type : Strongs \cup {"none", "weak", "other"}, by : {"none", "rules", "model"},
     ip : IPs \cup {None}, users : SUBSET Users, more : BOOLEAN]
PlanOk(p) ==
    \/ p = [do |-> "nothing", target |-> None]
    \/ p.do = "block" /\ p.target \in IPs
    \/ p.do = "disable" /\ p.target \in Users

\* A search that was not cut short has collected what it was to find, and the first pass
\* nothing else.  The users of the rules' diagnosis are those of what was collected, an
\* account to be disabled is the only one of them, and what the rules found strong in the
\* first pass is strong in the second.
SshTyped ==
    /\ estate \in Estates /\ archives \in BOOLEAN /\ truncated \in BOOLEAN
    /\ pass \in 0..MaxAttempts /\ seen \in SUBSET AlertIds
    /\ finding \in Diagnosed /\ PlanOk(containment)
    /\ at \in {"monitor", "analyze", "plan", "policy", "approval", "advised", "escalated"}
    /\ at = "monitor" => pass < MaxAttempts
    /\ at = "analyze" => pass >= 1
Searched ==
    /\ pass >= 1 /\ ~truncated => RelatedOf(estate, pass) \subseteq seen
    /\ pass = 1 => seen \subseteq RelatedOf(estate, 1)
Attributed ==
    finding.by = "rules" =>
        /\ at \in {"plan", "policy", "approval"} => finding.users = NamedOf(estate, seen)
        /\ at \in {"policy", "approval"} /\ containment.do = "disable" =>
               finding.users = {containment.target}
Judged ==
    /\ at = "monitor" /\ finding.by = "rules" => finding.type = ClassOf(estate, seen)
    /\ at = "analyze" /\ pass = 2 /\ ~truncated /\ finding.by = "rules"
           /\ finding.type \in Strongs => ClassOf(estate, seen) \in Strongs
SshInv == SshTyped /\ Searched /\ Attributed /\ Judged

LEMMA SshInit == Ssh!Init => SshInv
<1> SUFFICES ASSUME Ssh!Init
             PROVE  SshInv
  OBVIOUS
<1>1. estate \in Estates /\ archives \in BOOLEAN
  BY DEF Ssh!Init, Ssh!Ids, Ssh!Alert, Estates, Alerts
<1>2. /\ pass = 0 /\ seen = {} /\ truncated = FALSE /\ at = "monitor"
      /\ finding = [type |-> "none", by |-> "none", ip |-> None, users |-> {}, more |-> FALSE]
      /\ containment = [do |-> "nothing", target |-> None]
  BY DEF Ssh!Init, Ssh!NoDiagnosis, Ssh!NoPlan
<1>3. finding \in Diagnosed /\ finding.by = "none" /\ PlanOk(containment)
  BY <1>2 DEF Diagnosed, PlanOk
<1>4. SshTyped
  <2>1. pass \in 0..MaxAttempts /\ pass < MaxAttempts
    BY <1>2, SshConstants
  <2>2. truncated \in BOOLEAN /\ seen \in SUBSET AlertIds
    BY <1>2
  <2>3. /\ at \in {"monitor", "analyze", "plan", "policy", "approval", "advised", "escalated"}
        /\ at # "analyze"
    BY <1>2
  <2> QED
    BY <1>1, <1>3, <2>1, <2>2, <2>3 DEF SshTyped
<1>5. Searched /\ Attributed /\ Judged
  BY <1>2, <1>3 DEF Searched, Attributed, Judged
<1> QED
  BY <1>4, <1>5 DEF SshInv

LEMMA RelatedIs ==
  /\ \A p : Ssh!RelatedTo(p) = RelatedOf(estate, p)
  /\ \A i, p : Ssh!Near(i, p) <=> NearOf(estate, i, p)
  BY DEF Ssh!RelatedTo, RelatedOf, Ssh!Near, NearOf, Ssh!Ids

\* The primary alert is among them, and a later pass is to find what the first was.
LEMMA RelatedGrows ==
  ASSUME NEW e \in Estates, NEW p \in Nat
  PROVE  /\ RelatedOf(e, p) \subseteq 1..Others + 1 /\ 1 \in RelatedOf(e, p)
         /\ RelatedOf(e, 1) \subseteq RelatedOf(e, 2)
<1>1. \A i \in 1..Others + 1 : e[i].at \in Nat
  BY SshConstants DEF Estates, Alerts
<1>2. 1 \in 1..Others + 1 /\ Window \in Nat
  BY SshConstants
<1>3. p * Window \in Nat
  BY <1>2
<1>4. PICK w \in Nat : w = p * Window
  BY <1>3
<1>5. NearOf(e, 1, p)
  BY <1>1, <1>2, <1>4 DEF NearOf
<1>6. \A i \in 1..Others + 1 : NearOf(e, i, 1) => NearOf(e, i, 2)
  BY <1>1, <1>2 DEF NearOf
<1> QED
  BY <1>2, <1>5, <1>6 DEF RelatedOf

LEMMA OldestAreSome ==
  ASSUME NEW S, NEW n
  PROVE  Ssh!Oldest(S, n) \subseteq S /\ Ssh!Newest(S, n) \subseteq S
  BY DEF Ssh!Oldest, Ssh!Newest

LEMMA SessionIs ==
  ASSUME NEW p
  PROVE  Ssh!Session(p) \subseteq AlertIds /\ Ssh!Session(1) = {}
<1>1. 1..Others + 1 \subseteq AlertIds
  BY SshConstants DEF AlertIds
<1>2. \A S, n : S \subseteq 1..Others + 1 =>
        Ssh!Oldest(S, n) \subseteq 1..Others + 1 /\ Ssh!Newest(S, n) \subseteq 1..Others + 1
  BY OldestAreSome
<1>3. \A i \in 1..Others + 1 : Ssh!Copy(i) \in AlertIds
  BY SshConstants DEF Ssh!Copy, AlertIds
<1>4. Ssh!FromArchive(p) \subseteq AlertIds
  BY <1>2, <1>3 DEF Ssh!FromArchive, Ssh!Ids
<1>5. Ssh!Oldest({i \in Ssh!Ids : Ssh!Near(i, p)}, SessionLimit) \subseteq AlertIds
  BY <1>1, <1>2 DEF Ssh!Ids
<1> QED
  BY <1>4, <1>5 DEF Ssh!Session

\* A set that holds 1, all but as many of whose members as are missed were returned.
LEMMA NoneMissed ==
  ASSUME NEW R \in SUBSET AlertIds, NEW O \in SUBSET R, 1 \in R,
         ~(Cardinality(R) - 1 > Cardinality(O \ {1}))
  PROVE  R \subseteq O \cup {1}
<1>1. PICK A, B : A = R \ {1} /\ B = O \ {1}
  OBVIOUS
<1>2. B \in SUBSET A /\ A \in SUBSET AlertIds
  BY <1>1
<1>3. /\ IsFiniteSet(A) /\ IsFiniteSet(B) /\ Cardinality(A) \in Nat /\ Cardinality(B) \in Nat
      /\ IsFiniteSet(R) /\ Cardinality(R) \in Nat
  BY <1>2, AlertSetsAreFinite
<1>4. Cardinality(A) = Cardinality(R) - 1
  BY <1>1, <1>3, FS_RemoveElement
<1>5. Cardinality(B) <= Cardinality(A)
  BY <1>2, <1>3, FS_Subset
<1>6. Cardinality(A) = Cardinality(B)
  BY <1>1, <1>3, <1>4, <1>5
<1>7. A = B
  BY <1>2, <1>3, <1>6, FS_Subset
<1> QED
  BY <1>1, <1>7

LEMMA MonitorIs ==
  ASSUME SshInv, Ssh!Monitor
  PROVE  /\ UNCHANGED <<estate, archives, finding, containment>>
         /\ at = "monitor" /\ at' = "analyze" /\ pass' = pass + 1
         /\ pass \in Nat /\ pass' \in 1..MaxAttempts
         /\ truncated' \in BOOLEAN /\ seen' \in SUBSET AlertIds
         /\ ~truncated' => RelatedOf(estate, pass') \subseteq seen'
         /\ pass' = 1 => seen' \subseteq RelatedOf(estate, 1)
<1>1. /\ UNCHANGED <<estate, archives, finding, containment>>
      /\ at = "monitor" /\ at' = "analyze" /\ pass' = pass + 1
  BY DEF Ssh!Monitor
<1>2. estate \in Estates /\ pass \in Nat /\ pass + 1 \in 1..MaxAttempts
  BY <1>1, SshConstants DEF SshInv, SshTyped
<1>3. PICK p \in 1..MaxAttempts : p = pass + 1
  BY <1>2
<1>4. PICK R, O : R = RelatedOf(estate, p) /\ O = Ssh!Oldest(R, RelatedLimit)
  OBVIOUS
<1>5. /\ seen' = {1} \cup O \cup Ssh!Session(p)
      /\ truncated' = (Cardinality(R) - 1 > Cardinality(O \ {1}))
  <2>1. Ssh!RelatedTo(p) = R
    BY <1>4, RelatedIs
  <2>2. \A S : Ssh!Cardinality(S) = Cardinality(S)
    BY DEF Ssh!Cardinality, Cardinality
  <2> QED
    BY <1>3, <1>4, <2>1, <2>2 DEF Ssh!Monitor
<1>6. /\ R \subseteq 1..Others + 1 /\ 1 \in R /\ R \in SUBSET AlertIds
      /\ O \in SUBSET R
  <2>1. R \subseteq 1..Others + 1 /\ 1 \in R
    BY <1>2, <1>3, <1>4, RelatedGrows, SshConstants
  <2>2. 1..Others + 1 \subseteq AlertIds
    BY SshConstants DEF AlertIds
  <2> QED
    BY <1>4, <2>1, <2>2, OldestAreSome
<1>7. truncated' \in BOOLEAN
  BY <1>5
<1>8. seen' \in SUBSET AlertIds
  <2>1. Ssh!Session(p) \subseteq AlertIds
    BY SessionIs
  <2> QED
    BY <1>5, <1>6, <2>1
<1>9. ~truncated' => R \subseteq seen'
  BY <1>5, <1>6, NoneMissed
<1>10. p = 1 => seen' \subseteq R
  BY <1>5, <1>6, SessionIs
<1> QED
  BY <1>1, <1>2, <1>3, <1>4, <1>7, <1>8, <1>9, <1>10

\* What the first pass collected the second does too, unless its search was cut short.
LEMMA SecondPassSeesMore ==
  ASSUME SshInv, Ssh!Monitor, pass = 1, ~truncated'
  PROVE  seen \subseteq seen' /\ Ssh!Class' = ClassOf(estate, seen')
<1>1. estate \in Estates /\ seen \subseteq RelatedOf(estate, 1)
  BY DEF SshInv, SshTyped, Searched
<1>2. RelatedOf(estate, 2) \subseteq seen' /\ estate' = estate
  BY MonitorIs
<1>3. RelatedOf(estate, 1) \subseteq RelatedOf(estate, 2)
  BY <1>1, RelatedGrows
<1> QED
  BY <1>1, <1>2, <1>3, ClassWillBe

LEMMA MonitorKeeps ==
  ASSUME SshInv, Ssh!Monitor
  PROVE  SshInv'
<1>1. /\ UNCHANGED <<estate, archives, finding, containment>>
      /\ at = "monitor" /\ at' = "analyze" /\ pass' = pass + 1
      /\ pass \in Nat /\ pass' \in 1..MaxAttempts
      /\ truncated' \in BOOLEAN /\ seen' \in SUBSET AlertIds
      /\ ~truncated' => RelatedOf(estate, pass') \subseteq seen'
      /\ pass' = 1 => seen' \subseteq RelatedOf(estate, 1)
  BY MonitorIs
<1>2. SshTyped'
  <2>1. pass' \in 0..MaxAttempts /\ pass' >= 1
    BY <1>1, SshConstants
  <2> QED
    BY <1>1, <2>1 DEF SshInv, SshTyped, PlanOk
<1>3. Searched'
  BY <1>1 DEF Searched
<1>4. Attributed'
  BY <1>1 DEF Attributed
<1>5. Judged'
  <2> SUFFICES ASSUME pass' = 2, ~truncated', finding.by = "rules", finding.type \in Strongs
               PROVE  ClassOf(estate, seen') \in Strongs
    BY <1>1 DEF Judged
  <2>1. pass = 1
    BY <1>1
  <2>2. ClassOf(estate, seen) \in Strongs
    BY <1>1 DEF SshInv, Judged
  <2>3. estate \in Estates /\ seen \in SUBSET seen' /\ seen' \in SUBSET AlertIds
    BY <1>1, <2>1, SecondPassSeesMore DEF SshInv, SshTyped
  <2> QED
    BY <2>2, <2>3, ClassGrows
<1> QED
  BY <1>2, <1>3, <1>4, <1>5 DEF SshInv

LEMMA NamedAre ==
  ASSUME SshInv
  PROVE  /\ Ssh!Accounts = NamedOf(estate, seen) /\ Ssh!Accounts \in SUBSET Users
         /\ Ssh!Source \subseteq IPs \cup {None}
<1>1. estate \in Estates /\ seen \in SUBSET AlertIds
  BY DEF SshInv, SshTyped
<1>2. Ssh!Accounts = NamedOf(estate, seen)
  BY RulesRead DEF Ssh!Accounts
<1>3. NamedOf(estate, seen) \subseteq Users
  BY <1>1, NamedIs
<1>4. \A i \in 1..Others + 1 : estate[i].ip \in IPs \cup {None}
  BY <1>1 DEF Estates, Alerts
<1>5. 1 \in 1..Others + 1
  BY SshConstants
<1>6. \A S : Ssh!Oldest(S \cap Ssh!Ids, 1) \subseteq 1..Others + 1
  BY OldestAreSome DEF Ssh!Ids
<1>7. Ssh!Newest({Ssh!Original(id) : id \in Ssh!Sources}, 1) \subseteq 1..Others + 1
  <2>1. Ssh!Sources \subseteq seen
    BY DEF Ssh!Sources
  <2>2. {Ssh!Original(id) : id \in Ssh!Sources} \subseteq 1..Others + 1
    BY <1>1, <2>1, EventsAre
  <2> QED
    BY <2>2, OldestAreSome
<1> QED
  BY <1>2, <1>3, <1>4, <1>5, <1>6, <1>7 DEF Ssh!Source

\* A diagnosis, of the rules or of the model, and what is done with it.
LEMMA DiagnosisKeeps ==
  ASSUME SshInv, at = "analyze", UNCHANGED <<estate, archives, pass, seen, truncated, containment>>,
         finding' \in Diagnosed,
         finding'.by = "rules" =>
             finding'.users = NamedOf(estate, seen) /\ finding'.type = ClassOf(estate, seen),
         at' \in {"plan", "monitor", "escalated"}, at' = "monitor" => pass < MaxAttempts
  PROVE  SshInv'
<1>1. SshTyped'
  BY DEF SshInv, SshTyped, PlanOk
<1>2. Searched'
  BY DEF SshInv, Searched
<1>3. Attributed'
  BY DEF Attributed
<1>4. Judged'
  BY DEF Judged
<1> QED
  BY <1>1, <1>2, <1>3, <1>4 DEF SshInv

LEMMA ClassesAre == ClassOf(estate, seen) \in Strongs \cup {"weak"}
  BY DEF ClassOf, Strongs

LEMMA RuleDiagnosisIs ==
  ASSUME SshInv, NEW d \in Ssh!RuleDiagnoses
  PROVE  /\ d \in Diagnosed /\ d.by = "rules"
         /\ d.users = NamedOf(estate, seen) /\ d.type = ClassOf(estate, seen)
<1>1. PICK ip \in Ssh!Source :
        d = [type |-> Ssh!Class, by |-> "rules", ip |-> ip, users |-> Ssh!Accounts,
             more |-> (Ssh!Class = "weak" \/ truncated \/ ip = None \/ Ssh!Deferred(pass))]
  BY DEF Ssh!RuleDiagnoses
<1>2. PICK more \in BOOLEAN :
        more = (Ssh!Class = "weak" \/ truncated \/ ip = None \/ Ssh!Deferred(pass))
  OBVIOUS
<1>3. d = [type |-> ClassOf(estate, seen), by |-> "rules", ip |-> ip,
           users |-> NamedOf(estate, seen), more |-> more]
  BY <1>1, <1>2, ClassIs, NamedAre
<1>4. /\ ClassOf(estate, seen) \in Strongs \cup {"none", "weak", "other"}
      /\ ip \in IPs \cup {None} /\ NamedOf(estate, seen) \in SUBSET Users
  BY <1>1, NamedAre, ClassesAre
<1> QED
  BY <1>3, <1>4 DEF Diagnosed

LEMMA ModelDiagnosisIs ==
  ASSUME NEW d \in Ssh!ModelDiagnoses
  PROVE  d \in Diagnosed /\ d.by = "model"
  BY DEF Ssh!ModelDiagnoses, Diagnosed, Ssh!Strong, Strongs

LEMMA AnalyzeKeeps ==
  ASSUME SshInv, Ssh!Analyze
  PROVE  SshInv'
<1>1. at = "analyze" /\ UNCHANGED <<estate, archives, pass, seen, truncated, containment>>
  BY DEF Ssh!Analyze
<1>2. /\ at' \in {"plan", "monitor", "escalated"}
      /\ at' = "monitor" => pass < MaxAttempts
  BY DEF Ssh!Analyze, Ssh!Onward
<1>3. \/ finding' \in Ssh!RuleDiagnoses
      \/ finding' \in Ssh!ModelDiagnoses
  BY DEF Ssh!Analyze
<1>4. CASE finding' \in Ssh!RuleDiagnoses
  <2>1. /\ finding' \in Diagnosed
        /\ finding'.users = NamedOf(estate, seen) /\ finding'.type = ClassOf(estate, seen)
    BY <1>4, RuleDiagnosisIs
  <2> QED
    BY <1>1, <1>2, <2>1, DiagnosisKeeps
<1>5. CASE finding' \in Ssh!ModelDiagnoses
  <2>1. finding' \in Diagnosed /\ finding'.by # "rules"
    BY <1>5, ModelDiagnosisIs
  <2> QED
    BY <1>1, <1>2, <2>1, DiagnosisKeeps
<1> QED
  BY <1>3, <1>4, <1>5

\* A case that ends without a plan.
LEMMA EndKeeps ==
  ASSUME SshInv, at' \in {"escalated", "advised"},
         UNCHANGED <<estate, archives, pass, seen, truncated, finding, containment>>
  PROVE  SshInv'
<1>1. SshTyped'
  BY DEF SshInv, SshTyped, PlanOk
<1>2. Searched' /\ Attributed' /\ Judged'
  BY DEF SshInv, Searched, Attributed, Judged
<1> QED
  BY <1>1, <1>2 DEF SshInv

LEMMA GiveUpKeeps == ASSUME SshInv, Ssh!GiveUp PROVE SshInv'
  BY EndKeeps DEF Ssh!GiveUp

LEMMA AdviseKeeps == ASSUME SshInv, Ssh!Advise PROVE SshInv'
  BY EndKeeps DEF Ssh!Advise

LEMMA SshStutters == ASSUME SshInv, UNCHANGED sshVars PROVE SshInv'
  BY DEF SshInv, SshTyped, Searched, Attributed, Judged, PlanOk, sshVars

LEMMA PolicyKeeps ==
  ASSUME SshInv, Ssh!Policy
  PROVE  SshInv'
<1>1. /\ at = "policy" /\ at' \in {"approval", "escalated"}
      /\ UNCHANGED <<estate, archives, pass, seen, truncated, finding, containment>>
  BY DEF Ssh!Policy
<1>2. SshTyped'
  BY <1>1 DEF SshInv, SshTyped, PlanOk
<1>3. Searched' /\ Attributed' /\ Judged'
  BY <1>1 DEF SshInv, Searched, Attributed, Judged
<1> QED
  BY <1>2, <1>3 DEF SshInv

\* What is built blocks a source that was named or disables the only account there is.
LEMMA PlanIs ==
  ASSUME SshInv, at = "plan", NEW type, NEW p \in Ssh!Build(type)
  PROVE  /\ PlanOk(p)
         /\ finding.by = "rules" /\ p.do = "disable" => finding.users = {p.target}
<1>1. finding.ip \in IPs \cup {None} /\ finding.users \in SUBSET Users
  BY DEF SshInv, SshTyped, Diagnosed
<1>2. CASE Ssh!Playbook[type] = "block"
  <2>1. finding.ip # None /\ p = [do |-> "block", target |-> finding.ip]
    BY <1>2 DEF Ssh!Build
  <2>2. p.do = "block" /\ p.target \in IPs
    BY <1>1, <2>1
  <2> QED
    BY <2>2 DEF PlanOk
<1>3. CASE Ssh!Playbook[type] # "block"
  <2>1. Ssh!Cardinality(finding.users) = 1
    BY <1>3 DEF Ssh!Build
  <2>2. PICK u \in finding.users : p = [do |-> "disable", target |-> u]
    BY <1>3, <2>1 DEF Ssh!Build
  <2>3. p.do = "disable" /\ p.target = u /\ u \in Users
    BY <1>1, <2>2
  <2>4. finding.by = "rules" => finding.users = {u}
    <3>1. \A S : Ssh!Cardinality(S) = Cardinality(S)
      BY DEF Ssh!Cardinality, Cardinality
    <3>2. finding.by = "rules" => IsFiniteSet(finding.users)
      BY NamedIs DEF SshInv, SshTyped, Attributed
    <3> QED
      BY <2>1, <2>2, <3>1, <3>2, FS_Singleton
  <2> QED
    BY <2>3, <2>4 DEF PlanOk
<1> QED
  BY <1>2, <1>3

LEMMA PlanKeeps ==
  ASSUME SshInv, Ssh!Plan
  PROVE  SshInv'
<1>1. at = "plan" /\ at' = "policy" /\ UNCHANGED <<estate, archives, pass, seen, truncated>>
  BY DEF Ssh!Plan
<1>2. PICK type \in Ssh!Selected :
        finding' = [finding EXCEPT !.type = type] /\ containment' \in Ssh!Build(type)
  BY DEF Ssh!Plan
<1>3. type \in Strongs
  BY <1>2 DEF Ssh!Selected, Ssh!Strong, Strongs
<1>4. finding \in Diagnosed
  BY DEF SshInv, SshTyped
<1>5. /\ finding' \in Diagnosed
      /\ finding'.by = finding.by /\ finding'.users = finding.users
  BY <1>2, <1>3, <1>4 DEF Diagnosed
<1>6. /\ PlanOk(containment')
      /\ finding.by = "rules" /\ containment'.do = "disable" => finding.users = {containment'.target}
  BY <1>1, <1>2, PlanIs
<1>7. SshTyped'
  BY <1>1, <1>5, <1>6 DEF SshInv, SshTyped, PlanOk
<1>8. Searched' /\ Judged'
  BY <1>1 DEF SshInv, Searched, Judged
<1>9. Attributed'
  BY <1>1, <1>5, <1>6 DEF SshInv, Attributed
<1> QED
  BY <1>7, <1>8, <1>9 DEF SshInv

LEMMA SshKeeps == SshInv /\ [Ssh!Next]_sshVars => SshInv'
<1> SUFFICES ASSUME SshInv, [Ssh!Next]_sshVars
             PROVE  SshInv'
  OBVIOUS
<1> QED
  BY MonitorKeeps, AnalyzeKeeps, GiveUpKeeps, PlanKeeps, AdviseKeeps, PolicyKeeps, SshStutters
  DEF Ssh!Next

\* Of what is near in time to one alert, some alert comes first.
LEMMA EarliestExists ==
  ASSUME NEW e \in Estates, NEW G \in SUBSET (1..Others + 1), G # {}
  PROVE  \E g \in G : \A i \in G : e[i].at >= e[g].at
<1> DEFINE Less == {p \in Nat \X Nat : p[1] < p[2]}
           T == {e[i].at : i \in G}
<1>1. IsWellFoundedOn(Less, Nat)
  BY NatLessThanWellFounded DEF OpToRel
<1>2. \A i, j \in Nat : i < j => <<i, j>> \in Less
  OBVIOUS
<1>3. T \in SUBSET Nat /\ T # {}
  <2>1. \A i \in G : e[i].at \in Nat
    BY SshConstants DEF Estates, Alerts
  <2> QED
    BY <2>1
<1>4. PICK t \in T : \A u \in T : ~(<<u, t>> \in Less)
  <2> HIDE DEF Less, T
  <2> QED
    BY <1>1, <1>3, WFMin
<1>5. \A u \in T : u >= t
  <2> HIDE DEF Less, T
  <2>1. \A u \in T : ~(u < t)
    BY <1>2, <1>3, <1>4
  <2> QED
    BY <1>3, <1>4, <2>1
<1>6. PICK g \in G : e[g].at = t
  BY <1>4
<1>7. \A i \in G : e[i].at \in T
  OBVIOUS
<1> QED
  BY <1>5, <1>6, <1>7

LEMMA GuessingFound ==
  ASSUME SshInv
  PROVE  Ssh!GuessingIsSeen
<1> SUFFICES ASSUME at = "analyze", ~truncated, estate[1].ip # None, Ssh!GuessedNear(pass)
             PROVE  Ssh!Class \in Ssh!Strong
  BY DEF Ssh!GuessingIsSeen
<1>1. /\ estate \in Estates /\ pass \in Nat /\ pass >= 1 /\ seen \in SUBSET AlertIds
      /\ RelatedOf(estate, pass) \subseteq seen
  BY SshConstants DEF SshInv, SshTyped, Searched
<1> DEFINE Guessed(user, first) ==
             {i \in 1..Others + 1 :
                /\ NearOf(estate, i, pass) /\ ~estate[i].ok
                /\ estate[i].ip = estate[1].ip /\ estate[i].user = user
                /\ estate[i].at >= estate[first].at
                /\ estate[i].at - estate[first].at <= BruteWindow}
<1>2. PICK user \in Users, first \in 1..Others + 1 :
        Cardinality(Guessed(user, first)) >= BruteFailures
  <2>1. \A S : Ssh!Cardinality(S) = Cardinality(S)
    BY DEF Ssh!Cardinality, Cardinality
  <2> QED
    BY <2>1, RelatedIs DEF Ssh!GuessedNear, Ssh!Ids
<1>3. PICK G : G = Guessed(user, first)
  OBVIOUS
<1>4. /\ G \in SUBSET (1..Others + 1) /\ G \in SUBSET AlertIds
      /\ IsFiniteSet(G) /\ Cardinality(G) \in Nat
  <2>1. G \in SUBSET (1..Others + 1) /\ G \in SUBSET AlertIds
    BY <1>3, SshConstants DEF AlertIds
  <2> QED
    BY <2>1, AlertSetsAreFinite
<1>5. G # {}
  BY <1>2, <1>3, <1>4, FS_EmptySet, SshConstants
<1>6. PICK g \in G : \A i \in G : estate[i].at >= estate[g].at
  BY <1>1, <1>4, <1>5, EarliestExists
<1>7. \A i \in 1..Others + 1 : EventOf(estate, i) = estate[i] /\ estate[i].at \in Nat
  <2>1. \A i \in 1..Others + 1 : i \in AlertIds
    BY SshConstants DEF AlertIds
  <2> QED
    BY <1>1, <2>1, EventsAre, SshConstants DEF EventOf, Alerts
<1>8. PICK ip : ip = estate[1].ip
  OBVIOUS
<1>9. ip \in IPs
  BY <1>1, <1>8, SshConstants DEF Estates, Alerts
<1>10. PICK H : H = GuessesOf(estate, seen, ip, user)
  OBVIOUS
<1>11. G \subseteq H
  <2>1. G \subseteq seen
    BY <1>1, <1>3 DEF RelatedOf
  <2> QED
    BY <1>3, <1>4, <1>7, <1>8, <1>10, <2>1 DEF GuessesOf, FailuresOf
<1>12. PICK B : B = FromOf(estate, g, H, BruteWindow)
  OBVIOUS
<1>13. \A i \in G : estate[i].at - estate[g].at <= BruteWindow
  BY <1>3, <1>4, <1>6, <1>7, SshConstants
<1>14. G \in SUBSET B /\ B \in SUBSET AlertIds
  <2>1. G \in SUBSET B
    BY <1>4, <1>6, <1>7, <1>11, <1>12, <1>13 DEF FromOf
  <2>2. B \in SUBSET AlertIds
    BY <1>1, <1>10, <1>12 DEF FromOf, GuessesOf, FailuresOf
  <2> QED
    BY <2>1, <2>2
<1>15. Cardinality(B) >= BruteFailures
  <2>1. IsFiniteSet(B) /\ Cardinality(B) \in Nat
    BY <1>14, AlertSetsAreFinite
  <2>2. Cardinality(G) <= Cardinality(B)
    BY <1>14, <2>1, FS_Subset
  <2> QED
    BY <1>2, <1>3, <1>4, <2>1, <2>2, SshConstants
<1>16. BruteOf(estate, seen, ip)
  BY <1>6, <1>10, <1>11, <1>12, <1>15 DEF BruteOf
<1> QED
  BY <1>9, <1>16, ClassIs DEF ClassOf, Ssh!Strong

\* The invariant implies what the runs check.
LEMMA SshIsFounded ==
  ASSUME SshInv
  PROVE  Ssh!TypeOK /\ Ssh!GuessingIsSeen /\ Ssh!DisabledIsTheOnlyAccount
<1>1. Ssh!TypeOK
  <2>1. estate \in [Ssh!Ids -> Ssh!Alert]
    BY DEF SshInv, SshTyped, Estates, Alerts, Ssh!Ids, Ssh!Alert
  <2>2. seen \subseteq Ssh!Ids \cup {Ssh!Copy(i) : i \in Ssh!Ids}
    <3>1. ASSUME NEW id \in AlertIds, id \notin Ssh!Ids
          PROVE  id - (Others + 1) \in Ssh!Ids /\ id = Ssh!Copy(id - (Others + 1))
      BY <3>1, SshConstants DEF AlertIds, Ssh!Ids, Ssh!Copy
    <3> QED
      BY <3>1 DEF SshInv, SshTyped
  <2>3. /\ finding.type \in Ssh!Strong \cup {"none", "weak", "other"}
        /\ finding.ip \in IPs \cup {None} /\ finding.users \subseteq Users
        /\ finding.more \in BOOLEAN
    BY DEF SshInv, SshTyped, Diagnosed, Strongs, Ssh!Strong
  <2>4. \/ containment = Ssh!NoPlan
        \/ containment.do = "block" /\ containment.target \in IPs
        \/ containment.do = "disable" /\ containment.target \in Users
    BY DEF SshInv, SshTyped, PlanOk, Ssh!NoPlan
  <2> QED
    BY <2>1, <2>2, <2>3, <2>4 DEF SshInv, SshTyped, Ssh!TypeOK
<1>2. Ssh!DisabledIsTheOnlyAccount
  <2>1. Ssh!Named(seen) = NamedOf(estate, seen)
    BY RulesRead
  <2> QED
    BY <2>1 DEF SshInv, Attributed, Ssh!DisabledIsTheOnlyAccount
<1> QED
  BY <1>1, <1>2, GuessingFound

\* A second search that was not cut short does not weaken what the rules found.
LEMMA StrongStep ==
  ASSUME SshInv, Ssh!Monitor, pass = 1, ~truncated'
  PROVE  Ssh!Rank[Ssh!Class'] >= Ssh!Rank[Ssh!Class]
<1>1. /\ estate \in Estates /\ seen \in SUBSET seen' /\ seen' \in SUBSET AlertIds
  BY MonitorIs, SecondPassSeesMore DEF SshInv, SshTyped
<1>2. RankOf[ClassOf(estate, seen')] >= RankOf[ClassOf(estate, seen)]
  BY <1>1, ClassGrows
<1>3. Ssh!Rank = RankOf
  BY DEF Ssh!Rank, RankOf
<1> QED
  BY <1>2, <1>3, SecondPassSeesMore, ClassIs

\* The model is not asked where the rules were sure.
LEMMA OutrankStep ==
  ASSUME SshInv, Ssh!Analyze, pass = 2, ~truncated, finding.by = "rules",
         finding.type \in Ssh!Strong
  PROVE  finding'.by = "rules"
<1>1. ClassOf(estate, seen) \in Strongs
  BY DEF SshInv, Judged, Ssh!Analyze, Ssh!Strong, Strongs
<1>2. Ssh!Class # "weak"
  BY <1>1, ClassIs DEF Strongs
<1>3. finding' \in Ssh!RuleDiagnoses
  BY <1>2 DEF Ssh!Analyze, Ssh!Declined
<1> QED
  BY <1>3, RuleDiagnosisIs

-----------------------------------------------------------------------------
(* The five parts together.                                                 *)

\* The parts share no variable: what is true of each alone is true of it beside the others.
THEOREM PartsStandAlone ==
  NodesSpec => Spec /\ Gate!Spec /\ Request!Spec /\ Evidence!Spec /\ Ssh!Spec
<1>1. NodesInit => Init /\ Gate!Init /\ Request!Init /\ Evidence!Init /\ Ssh!Init
  BY DEF NodesInit
<1>2. [NodesNext]_nodesVars =>
        /\ [Next]_vars /\ [Gate!Next]_(Gate!vars) /\ [Request!Next]_(Request!vars)
        /\ [Evidence!Next]_(Evidence!vars) /\ [Ssh!Next]_(Ssh!vars)
  <2> SUFFICES ASSUME [NodesNext]_nodesVars
               PROVE  /\ [Next]_vars /\ [Gate!Next]_(Gate!vars)
                      /\ [Request!Next]_(Request!vars)
                      /\ [Evidence!Next]_(Evidence!vars) /\ [Ssh!Next]_(Ssh!vars)
    OBVIOUS
  <2>1. UNCHANGED gateVars => UNCHANGED Gate!vars
    BY DEF Gate!vars, gateVars
  <2>2. UNCHANGED requestVars => UNCHANGED Request!vars
    BY DEF Request!vars, requestVars
  <2>3. UNCHANGED evidenceVars => UNCHANGED Evidence!vars
    BY DEF Evidence!vars, evidenceVars
  <2>4. UNCHANGED sshVars => UNCHANGED Ssh!vars
    BY DEF Ssh!vars, sshVars
  <2>5. CASE UNCHANGED nodesVars
    BY <2>1, <2>2, <2>3, <2>4, <2>5 DEF nodesVars
  <2> QED
    BY <2>1, <2>2, <2>3, <2>4, <2>5 DEF NodesNext
<1> QED
  BY <1>1, <1>2, PTL DEF NodesSpec, Spec, Gate!Spec, Request!Spec, Evidence!Spec, Ssh!Spec

\* However many threads of however many processes call the provider, and whenever Redis
\* fails, the window that governs a call holds no more than the budget, one sleep is enough,
\* the fallback comes last and every call is counted.
THEOREM ProviderPacing == NodesSpec => []ProviderIsPaced
<1>1. GateInv /\ [Gate!Next]_(Gate!vars) => GateInv'
  <2>1. UNCHANGED Gate!vars => UNCHANGED gateVars
    BY DEF Gate!vars, gateVars
  <2> QED
    BY <2>1, GateStep
<1> QED
  BY <1>1, PartsStandAlone, GateInit, GateInvIsPaced, PTL DEF Gate!Spec

\* Whatever the tools, their schemas, the conversation and the results, what the analyst's
\* loop sends fits its budget, is trimmed by priority and between turns, and is withheld
\* only when nothing fits.
THEOREM RequestBound == NodesSpec => []RequestIsBounded
<1>1. RequestInv /\ [Request!Next]_(Request!vars) => RequestInv'
  <2>1. UNCHANGED Request!vars => UNCHANGED requestVars
    BY DEF Request!vars, requestVars
  <2> QED
    BY <2>1, RequestStep
<1> QED
  BY <1>1, PartsStandAlone, RequestInit, RequestInvIsBounded, PTL DEF Request!Spec

LEMMA EvidenceStays == NodesSpec => []EvidenceInv
<1>1. EvidenceInv /\ [Evidence!Next]_(Evidence!vars) => EvidenceInv'
  <2>1. UNCHANGED Evidence!vars => UNCHANGED evidenceVars
    BY DEF Evidence!vars, evidenceVars
  <2> QED
    BY <2>1, EvidenceKeeps
<1> QED
  BY <1>1, PartsStandAlone, EvidenceInit, PTL DEF Evidence!Spec

LEMMA SshStays == NodesSpec => []SshInv
<1>1. SshInv /\ [Ssh!Next]_(Ssh!vars) => SshInv'
  <2>1. UNCHANGED Ssh!vars => UNCHANGED sshVars
    BY DEF Ssh!vars, sshVars
  <2> QED
    BY <2>1, SshKeeps
<1> QED
  BY <1>1, PartsStandAlone, SshInit, PTL DEF Ssh!Spec

\* Whatever an alert's contract asks for and whatever the indexer holds of an endpoint, what
\* counts as answered was asked, a plan waits for what its diagnosis lacked, guessing that a
\* pass collected is diagnosed, and an account that the rules have disabled is the only one.
THEOREM DiagnosisFounded == NodesSpec => []DiagnosisIsFounded
<1>1. EvidenceInv /\ SshInv => DiagnosisIsFounded
  BY EvidenceIsFounded, SshIsFounded DEF DiagnosisIsFounded
<1> QED
  BY <1>1, EvidenceStays, SshStays, PTL

\* Whatever the indexer holds, the cache answers as the rules would, a second pass that was
\* not cut short finds what the first found, and the model is not asked where the rules
\* were sure.
THEOREM DiagnosesStanding == NodesSpec => DiagnosesStand
<1>1. EvidenceInv =>
        [Evidence!FromCache /\ next' # "failed" =>
           \E d \in Evidence!Rules :
             /\ diag'.by = d.by /\ diag'.ids = d.ids
             /\ Evidence!SummaryCounts \/ diag'.confidence = d.confidence
             /\ Evidence!SummaryCounts \/ Evidence!Using("related") = {}
                  \/ diag'.more = Evidence!Assessed(d).more]_(Evidence!vars)
  BY CacheStep
<1>2. SshInv =>
        [Ssh!Monitor /\ pass = 1 /\ ~truncated' =>
            Ssh!Rank[Ssh!Class'] >= Ssh!Rank[Ssh!Class]]_(Ssh!vars)
  BY StrongStep
<1>3. SshInv =>
        [Ssh!Analyze /\ pass = 2 /\ ~truncated /\ finding.by = "rules"
             /\ finding.type \in Ssh!Strong => finding'.by = "rules"]_(Ssh!vars)
  BY OutrankStep
<1>4. NodesSpec => Evidence!CacheAgrees
  BY <1>1, EvidenceStays, PTL DEF Evidence!CacheAgrees
<1>5. NodesSpec => Ssh!StrongStaysStrong
  BY <1>2, SshStays, PTL DEF Ssh!StrongStaysStrong
<1>6. NodesSpec => Ssh!RulesOutrankModel
  BY <1>3, SshStays, PTL DEF Ssh!RulesOutrankModel
<1> QED
  BY <1>4, <1>5, <1>6 DEF DiagnosesStand
=============================================================================
