---------------------------- MODULE MapeKWorkflow ----------------------------
(***************************************************************************)
(* The MAPE-K graph of one investigation.  An action is one run of a node: *)
(* it writes the state and the router of the node picks the next one.  The *)
(* interrupts (human_approval, execution_authorization, verification_wait) *)
(* wait for a payload from outside.  Evidence and policy are version       *)
(* numbers, a plan is what it was built from, and a check of telemetry, a  *)
(* model or a provider is a choice over its results.  Every published      *)
(* playbook has exactly one forward action and one inverse, all mutating,  *)
(* so a plan always needs an approval.                                     *)
(***************************************************************************)
EXTENDS Naturals

CONSTANTS MaxAttempts,  \* MAPEK_MAX_ANALYSIS_ATTEMPTS
          MaxPlanning,  \* MAPEK_MAX_PLANNING_RETRIES
          MaxPolicies,  \* bound: policy versions ever deployed
          MaxCollects,  \* bound: analyst requests for more evidence
          None          \* no plan, no request, no decision

ASSUME BudgetAssumption == MaxAttempts \in Nat \ {0} /\ MaxPlanning \in Nat
ASSUME BoundAssumption == MaxPolicies \in Nat \ {0} /\ MaxCollects \in Nat

VARIABLES
    node,                  \* the node the checkpoint runs next
    stage, status,         \* WorkflowStage, WorkflowStatus
    attempts, planning,    \* analysis_attempts, planning_attempts
    evidence, plan,        \* evidence_version, remediation_plan
    request, decision,     \* approval_request, approval_decision
    authorized,            \* execution_authorization is there
    result, verification,  \* status of execution_results, outcome of verification
    rollback,              \* "none", or what RollbackResult reports
    policy,                \* the policy version of the running service
    planLive, requestLive, \* plan and request have not expired
    observed,              \* verification_not_before has passed
    real,                  \* real execution is enabled
    blocked, calls, undos, \* Wazuh: effect in force, commands and inverses sent
    passes, collects       \* analyses run, analyst requests made

control == <<node, stage, status>>
budget  == <<attempts, planning, passes, collects>>
basis   == <<evidence, plan, planLive>>
consent == <<request, requestLive, decision, authorized>>
outcome == <<result, observed, verification, rollback>>
world   == <<policy, real, blocked, calls, undos>>
vars    == <<control, budget, basis, consent, outcome, world>>

Init ==
    /\ node = "monitor" /\ stage = "monitor" /\ status = "created"
    /\ attempts = 0 /\ planning = 0 /\ passes = 0 /\ collects = 0
    /\ evidence = 0 /\ plan = None /\ planLive = FALSE
    /\ request = None /\ requestLive = FALSE
    /\ decision = None /\ authorized = FALSE
    /\ result = "none" /\ observed = FALSE
    /\ verification = "none" /\ rollback = "none"
    /\ policy = 1 /\ real \in BOOLEAN
    /\ blocked = FALSE /\ calls = 0 /\ undos = 0

-----------------------------------------------------------------------------
(* Routers: the node that follows a stage and a status.  Mutants are the   *)
(* plausible slips the properties must notice: Name_Slip stands for Name   *)
(* with that slip made.                                                    *)

AfterMonitor(s) == IF s = "failed" THEN "knowledge" ELSE "analyze"

AfterAnalyze_Retries(g) == IF g = "plan" THEN g ELSE "monitor"
AfterAnalyze(g) == IF g \in {"plan", "monitor"} THEN g ELSE "knowledge"

AfterPlan(g) == IF g = "policy_gate" THEN "policy_gate" ELSE "knowledge"

AfterPolicyGate(s) == IF s = "waiting_approval" THEN "human_approval" ELSE "knowledge"

AfterApproval(s) == IF s = "approved" THEN "execution_authorization" ELSE "knowledge"

AfterAuthorization(g) == IF g = "execute" THEN "execute" ELSE "knowledge"

AfterExecute(s) ==
    CASE s = "failed" -> "rollback"
      [] s = "waiting_verification" -> "verification_wait"
      [] OTHER -> "verify"

AfterVerify_Stays(g) == "knowledge"
AfterVerify(g) == IF g = "rollback" THEN "rollback" ELSE "knowledge"

\* A node leaves stage g and status s, and its router leads to n.
Leave(g, s, n) == stage' = g /\ status' = s /\ node' = n

-----------------------------------------------------------------------------
(* Monitor, analyze, plan.                                                 *)

\* Every pass may see other alerts, which gives the evidence another version.
Monitor ==
    /\ node = "monitor"
    /\ \/ /\ Leave("analyze", "running", AfterMonitor("running"))
          /\ evidence' \in {evidence, passes + 1}
       \/ /\ Leave("monitor", "failed", AfterMonitor("failed"))
          /\ UNCHANGED evidence
    /\ UNCHANGED <<budget, plan, planLive, consent, outcome, world>>

\* An inconclusive diagnosis goes back to Monitor while attempts are left.
Recollect(n) == n < MaxAttempts

Analyze ==
    LET n == attempts + 1 IN
    /\ node = "analyze"
    /\ IF attempts >= MaxAttempts
       THEN Leave("analyze", "escalated", AfterAnalyze("analyze")) /\ UNCHANGED budget
       ELSE \/ Leave("analyze", "failed", AfterAnalyze("analyze")) /\ UNCHANGED budget
            \/ /\ \/ Leave("plan", "running", AfterAnalyze("plan"))
                  \/ /\ Recollect(n)
                     /\ Leave("monitor", "running", AfterAnalyze("monitor"))
                  \/ /\ ~Recollect(n)
                     /\ Leave("analyze", "escalated", AfterAnalyze("analyze"))
               /\ attempts' = n /\ passes' = passes + 1
               /\ UNCHANGED <<planning, collects>>
    /\ UNCHANGED <<basis, consent, outcome, world>>

\* The evidence may not allow remediation or the planner may fail, there may be only
\* advice to give, or a playbook fits.
Plan ==
    /\ node = "plan"
    /\ IF planning > MaxPlanning
       THEN Leave("plan", "escalated", AfterPlan("plan")) /\ UNCHANGED <<planning, plan, planLive>>
       ELSE \/ /\ Leave("plan", "escalated", AfterPlan("plan"))
               /\ UNCHANGED <<planning, plan, planLive>>
            \/ /\ Leave("update_knowledge", "escalated", AfterPlan("update_knowledge"))
               /\ planning' = planning + 1 /\ plan' = None
               /\ UNCHANGED planLive
            \/ /\ Leave("policy_gate", status, AfterPlan("policy_gate"))
               /\ planning' = planning + 1
               /\ plan' = [evidence |-> evidence, policy |-> policy]
               /\ planLive' = TRUE
    /\ UNCHANGED <<attempts, passes, collects, evidence, consent, outcome, world>>

\* PolicyEngine.evaluate: what it compares with the state and the settings; the checks
\* of the plan's own content may deny any plan.
PolicyAllows == plan # None /\ planLive /\ plan = [evidence |-> evidence, policy |-> policy]

PolicyGate ==
    /\ node = "policy_gate"
    /\ \/ /\ Leave("policy_gate", "escalated", AfterPolicyGate("escalated"))
          /\ UNCHANGED consent
       \/ /\ PolicyAllows
          /\ Leave("policy_gate", "waiting_approval", AfterPolicyGate("waiting_approval"))
          /\ request' = plan /\ requestLive' = planLive
          /\ UNCHANGED <<decision, authorized>>
    /\ UNCHANGED <<budget, basis, outcome, world>>

-----------------------------------------------------------------------------
(* The two interrupts between a plan and its execution.                    *)

\* What a caller may send: an answer to this request, to another one, or nonsense.
Answer == {"this", "other", "malformed"}

\* _validate_approval_binding.
Bound == /\ plan # None /\ request # None /\ request = plan
         /\ request = [evidence |-> evidence, policy |-> policy]
         /\ requestLive /\ planLive

Refuse == Leave("policy_gate", "escalated", "knowledge")

Approve(answer, verdict, entitled) ==
    /\ node = "human_approval"
    /\ \/ /\ answer # "this" \/ ~Bound
          /\ Refuse
          /\ UNCHANGED decision
       \/ /\ answer = "this" /\ Bound
          /\ decision' = verdict
          /\ \/ verdict = "approve" /\ ~entitled /\ Refuse
             \/ /\ verdict = "approve" /\ entitled
                /\ Leave("policy_gate", "approved", AfterApproval("approved"))
             \/ /\ verdict = "reject"
                /\ Leave("policy_gate", "rejected", AfterApproval("rejected"))
    /\ UNCHANGED <<budget, basis, request, requestLive, authorized, outcome, world>>

\* The action ids and the executor's role are part of the answer; the policy is asked
\* again and may have other reasons by now.
Authorizes_Unchecked(answer, entitled) == decision = "approve" /\ answer = "this" /\ entitled
Authorizes(answer, entitled) == /\ decision = "approve" /\ answer = "this"
                                /\ Bound /\ entitled /\ PolicyAllows

AuthorizeExecution(answer, entitled) ==
    /\ node = "execution_authorization"
    /\ \/ /\ Refuse
          /\ UNCHANGED authorized
       \/ /\ Authorizes(answer, entitled)
          /\ authorized' = TRUE
          /\ Leave("execute", status, AfterAuthorization("execute"))
    /\ UNCHANGED <<budget, basis, request, requestLive, decision, outcome, world>>

-----------------------------------------------------------------------------
(* Execution, verification, rollback.                                      *)

Successful == {"accepted", "no_op"}
Mutating   == {"accepted", "outcome_unknown"}

\* No command is sent: dry run, the effect is there already, the preflight fails, or
\* another execution has the row.
Skipped == IF real THEN {"no_op", "failed_terminal", "duplicate"} ELSE {"dry_run", "duplicate"}

Observe(r) ==
    LET s == IF r \in Successful THEN "waiting_verification" ELSE "running" IN
    result' = r /\ Leave("verify", s, AfterExecute(s))

\* executor.run raises (its write of the result fails): the results are lost.
Lose == result' = "none" /\ Leave("execute", "failed", AfterExecute("failed"))

Execute ==
    /\ node = "execute"
    /\ \/ /\ \E r \in Skipped : Observe(r)
          /\ UNCHANGED <<blocked, calls>>
       \/ /\ real
          /\ calls' = calls + 1
          /\ \/ /\ blocked' = TRUE
                /\ (\E r \in Mutating : Observe(r)) \/ Lose
             \/ /\ (\E r \in {"outcome_unknown", "failed_terminal"} : Observe(r)) \/ Lose
                /\ UNCHANGED blocked
    /\ UNCHANGED <<budget, basis, consent, observed, verification, rollback, policy, real, undos>>

\* A wrong or an early resume leaves the wait as it is.
VerificationWait(answer) ==
    /\ node = "verification_wait"
    /\ IF answer = "this" /\ observed
       THEN Leave("verify", "running", "verify")
       ELSE UNCHANGED control
    /\ UNCHANGED <<budget, basis, consent, outcome, world>>

\* ResponseVerifier.run.
Outcomes_UnknownPasses ==
    CASE result = "failed_terminal" -> {"failed"}
      [] result # "failed_terminal" /\ ~real -> {"simulated"}
      [] real /\ result = "duplicate" -> {"not_verified"}
      [] OTHER -> {"passed", "failed", "partial"}
Outcomes ==
    CASE result = "failed_terminal" -> {"failed"}
      [] result # "failed_terminal" /\ ~real -> {"simulated"}
      [] real /\ result \notin Successful \cup {"failed_terminal"} -> {"not_verified"}
      [] OTHER -> {"passed", "failed", "partial"}

\* The stage an outcome leads to.
JudgedStage_Pending(o) ==
    CASE o = "passed" -> "update_knowledge"
      [] o \in {"failed", "partial"} -> "rollback"
      [] OTHER -> "verification_wait"
JudgedStage(o) ==
    CASE o = "passed" -> "update_knowledge"
      [] o \in {"failed", "partial"} -> "rollback"
      [] OTHER -> "verify"

Verify ==
    /\ node = "verify"
    /\ \/ \E o \in Outcomes :
             /\ verification' = o
             /\ Leave(JudgedStage(o), IF o = "passed" THEN "running" ELSE "escalated",
                      AfterVerify(JudgedStage(o)))
       \/ /\ Leave("rollback", "escalated", AfterVerify("rollback"))
          /\ UNCHANGED verification
    /\ UNCHANGED <<budget, basis, consent, result, observed, rollback, world>>

\* The rollback is successful only when it had nothing to do: an inverse that Wazuh
\* accepted is not among the statuses rollback_node counts.
ReportsSuccess(inverse) == inverse \in {"not_required", "dry_run"}

Rollback ==
    /\ node = "rollback"
    /\ \E inverse \in {"not_required", "no_op", "accepted", "outcome_unknown", "failed_terminal"} :
          /\ inverse = "not_required" <=> result \notin Mutating
          /\ rollback' = IF ReportsSuccess(inverse) THEN "successful" ELSE "unsuccessful"
          /\ IF inverse \in {"not_required", "no_op"}
             THEN UNCHANGED <<blocked, undos>>
             ELSE /\ undos' = undos + 1
                  /\ \/ inverse \in {"accepted", "outcome_unknown"} /\ blocked' = FALSE
                     \/ inverse \in {"outcome_unknown", "failed_terminal"} /\ UNCHANGED blocked
    /\ Leave("rollback", "escalated", "knowledge")
    /\ UNCHANGED <<budget, basis, consent, result, observed, verification, policy, real, calls>>

\* Only a workflow still running at update_knowledge has succeeded.
Concluded == IF stage = "update_knowledge" /\ status = "running" THEN "completed" ELSE status

Knowledge ==
    /\ node = "knowledge"
    /\ Leave(stage, Concluded, "end")
    /\ UNCHANGED <<budget, basis, consent, outcome, world>>

-----------------------------------------------------------------------------
(* Around the graph.                                                       *)

\* InvestigationService.collect_more_evidence: one more attempt for a workflow that
\* escalated from Analyze.
LastAttempt_Fresh == 0
LastAttempt == MaxAttempts - 1

CollectMoreEvidence ==
    /\ collects < MaxCollects
    /\ node = "end" /\ stage = "analyze" /\ status = "escalated"
    /\ Leave("monitor", "running", AfterAnalyze("monitor"))
    /\ attempts' = LastAttempt /\ collects' = collects + 1
    /\ UNCHANGED <<planning, passes, basis, consent, outcome, world>>

Waiting == {"human_approval", "execution_authorization", "verification_wait"}

\* Time passes while the graph waits: a request expires no later than its plan.
RequestExpires == /\ node \in Waiting /\ requestLive
                  /\ requestLive' = FALSE /\ planLive' \in {planLive, FALSE}
                  /\ UNCHANGED <<control, budget, evidence, plan, request, decision,
                                 authorized, outcome, world>>

ObservationEnds == /\ node = "verification_wait" /\ ~observed
                   /\ observed' = TRUE
                   /\ UNCHANGED <<control, budget, basis, consent, result, verification,
                                  rollback, world>>

\* The service restarts with another policy version while the graph waits.
Redeploy == /\ node \in Waiting /\ policy < MaxPolicies
            /\ policy' = policy + 1
            /\ UNCHANGED <<control, budget, basis, consent, outcome, real, blocked, calls, undos>>

Run == \/ Monitor \/ Analyze \/ Plan \/ PolicyGate
       \/ Execute \/ Verify \/ Rollback \/ Knowledge

Resume == \/ \E answer \in Answer, verdict \in {"approve", "reject"}, entitled \in BOOLEAN :
                Approve(answer, verdict, entitled)
          \/ \E answer \in Answer, entitled \in BOOLEAN : AuthorizeExecution(answer, entitled)
          \/ \E answer \in Answer : VerificationWait(answer)

Next == Run \/ Resume \/ CollectMoreEvidence \/ RequestExpires \/ ObservationEnds \/ Redeploy

Spec == Init /\ [][Next]_vars

\* graph.invoke runs node after node until an interrupt or the end.
FairSpec == Spec /\ WF_vars(Run)

-----------------------------------------------------------------------------
(* Properties.                                                             *)

Version == 0 .. MaxAttempts + MaxCollects
Basis   == [evidence : Version, policy : 1 .. MaxPolicies]

\* The type invariant.
TypeOK ==
    /\ node \in {"monitor", "analyze", "plan", "policy_gate", "execute", "verify",
                 "rollback", "knowledge", "end"} \cup Waiting
    /\ stage \in {"monitor", "analyze", "plan", "policy_gate", "execute", "verify",
                  "rollback", "update_knowledge"}
    /\ status \in {"created", "running", "waiting_approval", "approved", "rejected",
                   "waiting_verification", "completed", "escalated", "failed"}
    /\ attempts \in 0 .. MaxAttempts /\ planning \in 0 .. MaxPlanning + 1
    /\ passes \in Version /\ collects \in 0 .. MaxCollects
    /\ evidence \in Version /\ plan \in Basis \cup {None} /\ planLive \in BOOLEAN
    /\ request \in Basis \cup {None} /\ requestLive \in BOOLEAN
    /\ decision \in {None, "approve", "reject"} /\ authorized \in BOOLEAN
    /\ result \in {"none", "duplicate", "dry_run", "failed_terminal"} \cup Successful \cup Mutating
    /\ observed \in BOOLEAN
    /\ verification \in {"none", "passed", "failed", "partial", "not_verified", "simulated"}
    /\ rollback \in {"none", "successful", "unsuccessful"}
    /\ policy \in 1 .. MaxPolicies /\ real \in BOOLEAN
    /\ blocked \in BOOLEAN /\ calls \in Nat /\ undos \in Nat

\* A command reaches Wazuh only for the plan that was approved: the approver said yes,
\* nothing expired, and neither evidence nor policy moved since, however long the
\* workflow waited at its interrupts.
OnlyApprovedPlansReachWazuh ==
    [][calls' # calls => /\ decision = "approve" /\ authorized
                         /\ requestLive /\ planLive
                         /\ request = plan
                         /\ request = [evidence |-> evidence, policy |-> policy]]_vars

\* "Completed" claims a containment that Wazuh took and that was observed to hold; it is
\* never claimed for an unknown, failed, simulated or undone one.
CompletedMeansContained ==
    status = "completed" => /\ verification = "passed" /\ result \in Successful
                            /\ real /\ observed /\ undos = 0

\* A containment that failed its checks, or whose checks raised, does not stay behind:
\* the workflow reports no end before its inverse was tried.
FailedContainmentIsReverted ==
    /\ node = "end" /\ result \in Mutating
    /\ verification \notin {"passed", "not_verified"}
    => rollback # "none"

\* Every analyst request buys exactly one more analysis.
AnalysisIsBudgeted == passes <= MaxAttempts + collects

\* The graph always comes to rest, at an interrupt or at its end.
GraphComesToRest == node \notin Waiting \cup {"end"} ~> node \in Waiting \cup {"end"}

\* The documented meaning of an outcome that could not be verified: the workflow stays
\* pending.
UnverifiedStaysPending == verification = "not_verified" => node # "end"
=============================================================================
