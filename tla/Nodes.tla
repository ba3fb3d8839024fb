-------------------------------- MODULE Nodes --------------------------------
(***************************************************************************)
(* The graph of one investigation beside what runs inside its nodes: the   *)
(* collection of evidence and its diagnosis, the diagnosis and containment *)
(* of SSH alerts, the calls of the provider; and beside the requests the   *)
(* analyst's own loop makes of it.  The five share no variable.            *)
(***************************************************************************)
EXTENDS MapeKWorkflow, Sums

CONSTANTS
    Calls, Procs, Proc, Shared, TokenBudget, Period, MaxWait, Costs,   \* ProviderGate
    Fallback, Flaky, LosesReplies,
    Core, Specialized, Report, SchemaCost, SchemaBudget, RequestBudget, SystemCost,
    NoticeCost, Histories, HistoryLimit, ResultCosts, MaxResults,      \* AnalystRequest
    Invs, Contracts, Tops, Agents, MaxCalls, Threshold, Undiagnosed,   \* EvidenceCollection
    Others, IPs, Users, Times, Window, RelatedLimit, SessionLimit, ArchiveLimit,
    BruteWindow, BruteFailures, SprayWindow, SprayUsers, SprayFailures, SuccessWindow,
    AdminIPs, ProtectedIPs, ProtectedUsers, Semantic                   \* SshContainment

VARIABLES
    up, steady, window, call,
    phase, asks, trusted, hinted, bound, history, outputs, sent,
    inv, case, next, diagnoses, correlated, counted, made, answers, diag, cached, cache,
    estate, archives, pass, seen, truncated, finding, containment, at

gateVars == <<up, steady, window, call>>
requestVars == <<phase, asks, trusted, hinted, bound, history, outputs, sent>>
evidenceVars == <<inv, case, next, diagnoses, correlated, counted, made, answers, diag,
                  cached, cache>>
sshVars == <<estate, archives, pass, seen, truncated, finding, containment, at>>
nodesVars == <<vars, gateVars, requestVars, evidenceVars, sshVars>>

Gate == INSTANCE ProviderGate WITH Budget <- TokenBudget
Request == INSTANCE AnalystRequest WITH
    Budget <- RequestBudget, results <- outputs, request <- sent
Evidence == INSTANCE EvidenceCollection WITH
    NoDiagnosis <- Undiagnosed, stage <- next, attempts <- diagnoses, seen <- correlated,
    calls <- counted, results <- answers
Ssh == INSTANCE SshContainment WITH
    Attempts <- MaxAttempts, diag <- finding, plan <- containment, stage <- at

ASSUME GateAssumption ==
    Gate!ProcAssumption /\ Gate!BudgetAssumption /\ Gate!SwitchAssumption
ASSUME ToolAssumption == Request!RequestAssumption
ASSUME EvidenceAssumption ==
    Evidence!ContractAssumption /\ Evidence!BoundAssumption /\ Evidence!NoneAssumption

ASSUME SshAssumption == Ssh!BoundAssumption /\ Ssh!ListAssumption

NodesInit == Init /\ Gate!Init /\ Request!Init /\ Evidence!Init /\ Ssh!Init

NodesNext ==
    \/ Next /\ UNCHANGED <<gateVars, requestVars, evidenceVars, sshVars>>
    \/ Gate!Next /\ UNCHANGED <<vars, requestVars, evidenceVars, sshVars>>
    \/ Request!Next /\ UNCHANGED <<vars, gateVars, evidenceVars, sshVars>>
    \/ Evidence!Next /\ UNCHANGED <<vars, gateVars, requestVars, sshVars>>
    \/ Ssh!Next /\ UNCHANGED <<vars, gateVars, requestVars, evidenceVars>>

NodesSpec == NodesInit /\ [][NodesNext]_nodesVars

-----------------------------------------------------------------------------
(* The parts' properties.                                                  *)

\* ProviderGate: the processes stay within one budget while Redis answers, no window holds
\* more than it when Redis fails, one sleep is enough, the fallback is asked last, and no
\* call is made that is not counted.
ProviderIsPaced ==
    /\ Gate!TypeOK /\ Gate!WindowHolds /\ Gate!WorkersShareBudget /\ Gate!SleepIsEnough
    /\ Gate!FallbackIsLast /\ Gate!UsageCoversCalls

\* AnalystRequest: what is sent fits the budget, history is cut between turns, less
\* important tools go first, and the loop gives up only when nothing fits.
RequestIsBounded ==
    /\ Request!TypeOK /\ Request!RequestFits /\ Request!TurnsStayWhole
    /\ Request!LimitIsReal /\ Request!TrimIsByPriority

\* EvidenceCollection: what counts as answered was asked, a required collector is left out
\* for the budget only, and a plan waits for what its diagnosis lacked.  SshContainment:
\* guessing that a pass collected is diagnosed, and the one account it names is disabled.
DiagnosisIsFounded ==
    /\ Evidence!TypeOK /\ Evidence!AgentAnswers /\ Evidence!EveryRequirementIsTried
    /\ Evidence!PlannedSawEverything
    /\ Ssh!TypeOK /\ Ssh!GuessingIsSeen /\ Ssh!DisabledIsTheOnlyAccount

\* The cache serves the diagnosis the rules would give (EvidenceCollection); looking further
\* does not weaken a strong diagnosis, and the model is asked only what the rules decline
\* (SshContainment).
DiagnosesStand ==
    Evidence!CacheAgrees /\ Ssh!StrongStaysStrong /\ Ssh!RulesOutrankModel
=============================================================================
