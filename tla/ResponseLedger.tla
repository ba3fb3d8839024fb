---------------------------- MODULE ResponseLedger ----------------------------
(***************************************************************************)
(* One temporary containment (block_ip with a TTL) per incident, from its  *)
(* approval to its rollback.  The ledger row (ResponseActionRecord) is     *)
(* moved by three kinds of callers that share nothing but the database:    *)
(* execute_approved runs the plan under the incident and target leases,    *)
(* resume_verification judges it and may roll it back, and the recovery    *)
(* worker undoes what has outlived its TTL.  Time is a set of countdowns   *)
(* moved by Tick; a process that is working may be slow for at most        *)
(* MaxStall ticks.  Permanent actions have no TTL and never reach the      *)
(* recovery; they are not modelled.                                        *)
(***************************************************************************)
EXTENDS Integers, FiniteSets

CONSTANTS Action,        \* the forward actions, one per incident
          Target,        \* what they contain
          TargetOf,      \* the target of each action
          Executor,      \* callers of execute_approved and resume_verification
          Worker,        \* recovery workers
          None,          \* nobody, nothing
          TTL,           \* MAPEK_TEMPORARY_BLOCK_TTL_SECONDS
          LockTTL,       \* MAPEK_EXECUTION_LOCK_TTL_SECONDS
          MaxRetries,    \* MAPEK_MAX_EXECUTION_RETRIES
          MaxUndos,      \* bound: how far the inverse calls are counted
          MaxStall,      \* bound: ticks one operation may take
          MaxCrashes,    \* bound: how many processes may die
          StoreMayFail   \* whether a write of the database may raise

Process  == Executor \cup Worker
Resource == Action \cup Target   \* incident leases and target leases

ASSUME ShapeAssumption ==
    /\ TargetOf \in [Action -> Target]
    /\ Action \cap Target = {} /\ Executor \cap Worker = {}
    /\ None \notin Process \cup Resource
ASSUME TimeAssumption ==
    TTL \in Nat \ {0} /\ LockTTL \in Nat \ {0} /\ MaxStall \in Nat
ASSUME BoundAssumption ==
    MaxRetries \in Nat /\ MaxCrashes \in Nat /\ MaxUndos \in Nat /\ MaxUndos > MaxRetries + 1

VARIABLES
    status,      \* status of each ledger row
    execution,   \* execution_id: the executor holding the row
    expiresIn,   \* time to expires_at: 0 when overdue, Never when null
    claim,       \* rollback_claim_id: the worker holding the row
    claimAge,    \* time since last_rollback_attempt, up to LockTTL
    retries,     \* rollback_retry_count
    gate,        \* where the checkpoint of each incident stands
    owner,       \* holder of each lease row
    left,        \* time to its expiry, negative once expired
    pc, job,     \* per process: its next step, the action it works on
    lag,         \* time since its operation began (observed_at of a batch)
    result,      \* what it will report for job
    todo,        \* per worker: the claimed rows still to be processed
    blocked,     \* the targets Wazuh blocks
    calls,       \* forward calls made per action
    undos,       \* recovery calls made per action
    crashes

row    == <<status, execution, expiresIn, claim, claimAge, retries>>
leases == <<owner, left>>
procs  == <<pc, job, lag, result, todo>>
world  == <<blocked, calls, undos>>
vars   == <<row, gate, leases, procs, world, crashes>>

Never  == -1
Saturated(n, top) == IF n < top THEN n + 1 ELSE top

\* Mutants are the plausible slips the properties must notice: Name_Slip stands for
\* Name with that slip made.
Eligible_WithRunning == {"running", "accepted", "outcome_unknown", "rollback_failed_retryable"}
Eligible  == {"accepted", "outcome_unknown", "rollback_failed_retryable"}
Contained == {"accepted", "outcome_unknown"}

Init ==
    /\ status = [a \in Action |-> "approved"]
    /\ execution = [a \in Action |-> None]
    /\ expiresIn = [a \in Action |-> Never]
    /\ claim = [a \in Action |-> None]
    /\ claimAge = [a \in Action |-> 0]
    /\ retries = [a \in Action |-> 0]
    /\ gate = [a \in Action |-> "authorization"]
    /\ owner = [r \in Resource |-> None]
    /\ left = [r \in Resource |-> -MaxStall]
    /\ pc = [p \in Process |-> "idle"]
    /\ job = [p \in Process |-> None]
    /\ lag = [p \in Process |-> 0]
    /\ result = [p \in Process |-> "none"]
    /\ todo = [w \in Worker |-> {}]
    /\ blocked = {}
    /\ calls = [a \in Action |-> 0]
    /\ undos = [a \in Action |-> 0]
    /\ crashes = 0

-----------------------------------------------------------------------------
(* Leases, as in ResourceLease.  An operation that decides with a time     *)
(* sampled `ago` ticks earlier sees the expiry that much later.  A row     *)
(* expired for longer than any operation lasts is the same as no row.      *)

Leased_EndsEarly(r, ago) == left[r] + ago > 1
Leased(r, ago) == left[r] + ago > 0

Take(r, p, ago, length) ==
    /\ owner' = [owner EXCEPT ![r] = p]
    /\ left' = [left EXCEPT ![r] = length - ago]

Drop(rs, p) ==
    /\ owner' = [r \in Resource |-> IF r \in rs /\ owner[r] = p THEN None ELSE owner[r]]
    /\ left' = [r \in Resource |-> IF r \in rs /\ owner[r] = p THEN -MaxStall ELSE left[r]]

TargetLease == IF LockTTL > TTL THEN LockTTL ELSE TTL

(* The control state of one process.                                       *)

Goto(p, at) == /\ pc' = [pc EXCEPT ![p] = at]
               /\ UNCHANGED <<job, lag, result, todo>>

Report(p, at, r) == /\ pc' = [pc EXCEPT ![p] = at]
                    /\ result' = [result EXCEPT ![p] = r]
                    /\ UNCHANGED <<job, lag, todo>>

Start(p, at, a) == /\ pc' = [pc EXCEPT ![p] = at]
                   /\ job' = [job EXCEPT ![p] = a]
                   /\ UNCHANGED <<lag, result, todo>>

Stop(p) == /\ pc' = [pc EXCEPT ![p] = "idle"]
           /\ job' = [job EXCEPT ![p] = None]
           /\ lag' = [lag EXCEPT ![p] = 0]
           /\ result' = [result EXCEPT ![p] = "none"]

-----------------------------------------------------------------------------
(* execute_approved.                                                       *)

\* The pending node is read before any lease is taken.
StartExecution(e, a) ==
    /\ pc[e] = "idle" /\ gate[a] = "authorization"
    /\ Start(e, "entering", a)
    /\ UNCHANGED <<row, gate, leases, world, crashes>>

LockIncident(e) ==
    /\ pc[e] \in {"entering", "resuming"}
    /\ ~Leased(job[e], 0)
    /\ Take(job[e], e, 0, LockTTL)
    /\ Goto(e, IF pc[e] = "entering" THEN "incident" ELSE "resumed")
    /\ UNCHANGED <<row, gate, world, crashes>>

IncidentConflict(e) ==
    /\ pc[e] \in {"entering", "resuming"}
    /\ Leased(job[e], 0)
    /\ Stop(e)
    /\ UNCHANGED <<row, gate, leases, todo, world, crashes>>

LockTarget(e) ==
    LET t == TargetOf[job[e]] IN
    /\ pc[e] = "incident"
    /\ ~Leased(t, 0)
    /\ Take(t, e, 0, TargetLease)
    /\ Goto(e, "target")
    /\ UNCHANGED <<row, gate, world, crashes>>

TargetConflict(e) ==
    /\ pc[e] = "incident"
    /\ Leased(TargetOf[job[e]], 0)
    /\ Drop({job[e]}, e)
    /\ Stop(e)
    /\ UNCHANGED <<row, gate, todo, world, crashes>>

\* claim_response_actions: every row of the plan is still approved.
Claimable(a) == status[a] = "approved"

Claim(e) ==
    LET a == job[e] IN
    /\ pc[e] = "target"
    /\ Claimable(a)
    /\ status' = [status EXCEPT ![a] = "claimed"]
    /\ execution' = [execution EXCEPT ![a] = e]
    /\ Goto(e, "claimed")
    /\ UNCHANGED <<expiresIn, claim, claimAge, retries, gate, leases, world, crashes>>

\* The row is taken, or the approval has expired or was invalidated.
ClaimRefused(e) ==
    /\ pc[e] = "target"
    /\ Goto(e, "leaving")
    /\ UNCHANGED <<row, gate, leases, world, crashes>>

\* execution_authorization_node checks binding, role and policy again; a refusal
\* escalates the workflow without any execution result.
Authorize(e) ==
    /\ pc[e] = "claimed" /\ gate[job[e]] = "authorization"
    /\ gate' = [gate EXCEPT ![job[e]] = "execution"]
    /\ Goto(e, "authorized")
    /\ UNCHANGED <<row, leases, world, crashes>>

AuthorizationRefused(e) ==
    /\ pc[e] = "claimed" /\ gate[job[e]] = "authorization"
    /\ gate' = [gate EXCEPT ![job[e]] = "closed"]
    /\ Goto(e, "ended")
    /\ UNCHANGED <<row, leases, world, crashes>>

\* The state before the action cannot be collected: a failed result is reported
\* and verified as failed, and the row keeps its claim.
PreflightFails(e) ==
    /\ pc[e] = "authorized"
    /\ gate' = [gate EXCEPT ![job[e]] = "closed"]
    /\ Report(e, "ended", "failed_terminal")
    /\ UNCHANGED <<row, leases, world, crashes>>

Begin(e) ==
    LET a == job[e] IN
    /\ pc[e] = "authorized"
    /\ status[a] = "claimed" /\ execution[a] = e
    /\ status' = [status EXCEPT ![a] = "running"]
    /\ expiresIn' = [expiresIn EXCEPT ![a] = TTL]
    /\ Goto(e, "calling")
    /\ UNCHANGED <<execution, claim, claimAge, retries, gate, leases, world, crashes>>

\* Wazuh takes the command, refuses it, or leaves its outcome unknown; in no case is
\* it sent again.
AfterCall_Retries(r) == IF r = "outcome_unknown" THEN "calling" ELSE "answered"
AfterCall(r) == "answered"

CallProvider(e) ==
    LET a == job[e] IN
    /\ pc[e] = "calling"
    /\ calls' = [calls EXCEPT ![a] = Saturated(@, 2)]
    /\ \/ /\ blocked' = blocked \cup {TargetOf[a]}
          /\ \E r \in Contained : Report(e, AfterCall(r), r)
       \/ /\ \E r \in {"outcome_unknown", "failed_terminal"} : Report(e, AfterCall(r), r)
          /\ UNCHANGED blocked
    /\ UNCHANGED <<row, gate, leases, undos, crashes>>

\* The status a result is recorded with.
Outcome_Optimistic(r) == IF r = "accepted" THEN "applied" ELSE r
Outcome_TimeoutFailed(r) == IF r = "outcome_unknown" THEN "failed_terminal" ELSE r
Outcome(r) == r

\* complete_response_action, then the graph runs on: to the observation wait after
\* an accepted call, to a verification that cannot pass after the others.
Complete(e) ==
    LET a == job[e] IN
    /\ pc[e] = "answered"
    /\ status[a] = "running" /\ execution[a] = e
    /\ status' = [status EXCEPT ![a] = Outcome(result[e])]
    /\ expiresIn' = [expiresIn EXCEPT ![a] = IF result[e] \in Contained THEN @ ELSE Never]
    /\ gate' = [gate EXCEPT ![a] = IF result[e] = "accepted" THEN "observation" ELSE "closed"]
    /\ Goto(e, "ended")
    /\ UNCHANGED <<execution, claim, claimAge, retries, leases, world, crashes>>

\* An exception of the write: the node reports a failure without any result, and
\* rollback_node finds no forward action that may have changed state.
CompleteFails(e) ==
    /\ StoreMayFail
    /\ pc[e] = "answered"
    /\ gate' = [gate EXCEPT ![job[e]] = "closed"]
    /\ Report(e, "ended", "none")
    /\ UNCHANGED <<row, leases, world, crashes>>

\* The snapshot is projected (its rows are preserved), or that raises and the
\* result is lost; with no result mark_execution_failed closes the open row.
Finish(e) ==
    LET a == job[e]
        Fails == status[a] \in {"claimed", "running"} /\ execution[a] = e IN
    /\ pc[e] = "ended"
    /\ \E lost \in {FALSE, StoreMayFail} :
          LET r == IF lost THEN "none" ELSE result[e] IN
          /\ status' = IF r = "none" /\ Fails
                       THEN [status EXCEPT ![a] = "failed_terminal"] ELSE status
          /\ Report(e, "leaving", r)
    /\ UNCHANGED <<execution, expiresIn, claim, claimAge, retries, gate, leases, world, crashes>>

\* The leases are released, that of a contained target excepted.
Retains(e) == result[e] \in Contained
Leave(e) ==
    LET a == job[e] IN
    /\ pc[e] = "leaving"
    /\ Drop(IF Retains(e) THEN {a} ELSE {a, TargetOf[a]}, e)
    /\ Stop(e)
    /\ UNCHANGED <<row, gate, todo, world, crashes>>

-----------------------------------------------------------------------------
(* resume_verification, and the rollback_node it may lead to.              *)

StartVerification(e, a) ==
    /\ pc[e] = "idle" /\ gate[a] = "observation"
    /\ Start(e, "resuming", a)
    /\ UNCHANGED <<row, gate, leases, world, crashes>>

\* The graph goes on from where its checkpoint stands by now: another resume may
\* have passed the interrupt, or run to the end.
Verify(e) ==
    LET a == job[e]
        Open == gate[a] # "closed" IN
    /\ pc[e] = "resumed"
    /\ gate' = [gate EXCEPT ![a] = IF Open THEN "verification" ELSE @]
    /\ Goto(e, IF Open THEN "verifying" ELSE "verified")
    /\ UNCHANGED <<row, leases, world, crashes>>

\* The check passes, or fails while the ledger shows no effect to undo or the state
\* before the rollback cannot be collected.
VerificationEnds(e) ==
    /\ pc[e] = "verifying"
    /\ gate' = [gate EXCEPT ![job[e]] = "closed"]
    /\ Goto(e, "verified")
    /\ UNCHANGED <<row, leases, world, crashes>>

VerificationFails(e) ==
    /\ pc[e] = "verifying"
    /\ status[job[e]] \in Eligible
    /\ Goto(e, "reverting")
    /\ UNCHANGED <<row, gate, leases, world, crashes>>

\* executor.rollback sends the inverse; the ledger row is not touched.
Revert(e) ==
    LET a == job[e] IN
    /\ pc[e] = "reverting"
    /\ blocked' \in {blocked, blocked \ {TargetOf[a]}}
    /\ gate' = [gate EXCEPT ![a] = "closed"]
    /\ Goto(e, "verified")
    /\ UNCHANGED <<row, leases, calls, undos, crashes>>

LeaveVerification(e) ==
    /\ pc[e] = "verified"
    /\ Drop({job[e]}, e)
    /\ Stop(e)
    /\ UNCHANGED <<row, gate, todo, world, crashes>>

-----------------------------------------------------------------------------
(* recover_expired_temporary_actions.                                      *)

Stale_Never(a) == FALSE
Stale(a) == status[a] = "rollback_running" /\ claimAge[a] >= LockTTL

Overdue_Early(a) == /\ retries[a] <= MaxRetries
                    /\ status[a] \in Eligible \/ Stale(a)
Overdue(a) == /\ expiresIn[a] = 0
              /\ retries[a] <= MaxRetries
              /\ status[a] \in Eligible \/ Stale(a)

\* claim_overdue_response_actions: the whole batch, with one observed_at.
ClaimOverdue(w) ==
    LET batch == {a \in Action : Overdue(a)} IN
    /\ pc[w] = "idle" /\ batch # {}
    /\ status' = [a \in Action |-> IF a \in batch THEN "rollback_running" ELSE status[a]]
    /\ claim' = [a \in Action |-> IF a \in batch THEN w ELSE claim[a]]
    /\ claimAge' = [a \in Action |-> IF a \in batch THEN 0 ELSE claimAge[a]]
    /\ todo' = [todo EXCEPT ![w] = batch]
    /\ pc' = [pc EXCEPT ![w] = "batch"]
    /\ UNCHANGED <<execution, expiresIn, retries, gate, leases, job, lag, result, world, crashes>>

\* The lease of the next row's target, as of observed_at.
LockForRollback(w, a) ==
    LET t == TargetOf[a] IN
    /\ pc[w] = "batch" /\ a \in todo[w]
    /\ ~Leased(t, lag[w])
    /\ Take(t, w, lag[w], LockTTL)
    /\ Start(w, "undoing", a)
    /\ UNCHANGED <<row, gate, world, crashes>>

\* The conflict counts as a failed attempt.
LockedOut(w, a) ==
    /\ pc[w] = "batch" /\ a \in todo[w]
    /\ Leased(TargetOf[a], lag[w])
    /\ pc' = [pc EXCEPT ![w] = "settling"]
    /\ job' = [job EXCEPT ![w] = a]
    /\ result' = [result EXCEPT ![w] = "locked_out"]
    /\ UNCHANGED <<row, gate, leases, lag, todo, world, crashes>>

\* Success needs acceptance and a connected agent; a timeout, a server error or a
\* disconnected agent may be retried; other errors may not.
CallInverse(w) ==
    LET a == job[w] IN
    /\ pc[w] = "undoing"
    /\ undos' = [undos EXCEPT ![a] = Saturated(@, MaxUndos)]
    /\ \/ /\ blocked' = blocked \ {TargetOf[a]}
          /\ \E r \in {"success", "retryable"} : Report(w, "settling", r)
       \/ /\ \E r \in {"retryable", "rejected"} : Report(w, "settling", r)
          /\ UNCHANGED blocked
    /\ UNCHANGED <<row, gate, leases, calls, crashes>>

\* complete_response_action_rollback: only for the claim the row carries.
Holds_Unfenced(w, a) == claim[a] # None
Holds(w, a) == status[a] = "rollback_running" /\ claim[a] = w

Spent_TimeoutsFree(r, tries) == IF r \in {"success", "retryable"} THEN tries ELSE tries + 1
Spent(r, tries) == IF r = "success" THEN tries ELSE tries + 1

Verdict(r, tries) ==
    IF r = "success" THEN "rolled_back"
    ELSE IF r \in {"retryable", "locked_out"} /\ tries <= MaxRetries
         THEN "rollback_failed_retryable" ELSE "rollback_failed_terminal"

Settle(w) ==
    LET a == job[w]
        n == Spent(result[w], retries[a]) IN
    /\ pc[w] = "settling"
    /\ IF Holds(w, a)
       THEN /\ status' = [status EXCEPT ![a] = Verdict(result[w], n)]
            /\ retries' = [retries EXCEPT ![a] = n]
       ELSE UNCHANGED <<status, retries>>
    /\ Drop(IF result[w] = "locked_out" THEN {} ELSE {TargetOf[a]}, w)
    /\ todo' = [todo EXCEPT ![w] = @ \ {a}]
    /\ IF todo[w] = {a}
       THEN Stop(w)
       ELSE /\ pc' = [pc EXCEPT ![w] = "batch"]
            /\ job' = [job EXCEPT ![w] = None]
            /\ result' = [result EXCEPT ![w] = "none"]
            /\ UNCHANGED lag
    /\ UNCHANGED <<execution, expiresIn, claim, claimAge, gate, world, crashes>>

-----------------------------------------------------------------------------
(* Crashes and time.                                                       *)

\* Rows, checkpoint and leases stay as they are.
Crash(p) ==
    /\ pc[p] # "idle" /\ crashes < MaxCrashes
    /\ crashes' = crashes + 1
    /\ Stop(p)
    /\ todo' = [w \in Worker |-> IF w = p THEN {} ELSE todo[w]]
    /\ UNCHANGED <<row, gate, leases, world>>

Tick ==
    /\ \A p \in Process : pc[p] # "idle" => lag[p] < MaxStall
    /\ lag' = [p \in Process |-> IF pc[p] = "idle" THEN 0 ELSE lag[p] + 1]
    /\ expiresIn' = [a \in Action |-> IF expiresIn[a] > 0 THEN expiresIn[a] - 1 ELSE expiresIn[a]]
    /\ claimAge' = [a \in Action |-> IF status[a] = "rollback_running"
                                     THEN Saturated(claimAge[a], LockTTL) ELSE 0]
    /\ left' = [r \in Resource |-> IF left[r] > -MaxStall THEN left[r] - 1 ELSE left[r]]
    /\ owner' = [r \in Resource |-> IF left[r] > 1 - MaxStall THEN owner[r] ELSE None]
    /\ UNCHANGED <<status, execution, claim, retries, gate, pc, job, result, todo, world, crashes>>

ExecutorStep(e) ==
    \/ LockIncident(e) \/ IncidentConflict(e) \/ LockTarget(e) \/ TargetConflict(e)
    \/ Claim(e) \/ ClaimRefused(e) \/ Authorize(e) \/ AuthorizationRefused(e)
    \/ PreflightFails(e) \/ Begin(e) \/ CallProvider(e) \/ Complete(e)
    \/ CompleteFails(e) \/ Finish(e) \/ Leave(e)
    \/ Verify(e) \/ VerificationEnds(e) \/ VerificationFails(e) \/ Revert(e)
    \/ LeaveVerification(e)

WorkerStep(w) ==
    \/ ClaimOverdue(w)
    \/ \E a \in Action : LockForRollback(w, a) \/ LockedOut(w, a)
    \/ CallInverse(w) \/ Settle(w)

Next ==
    \/ Tick
    \/ \E e \in Executor : \/ \E a \in Action : StartExecution(e, a) \/ StartVerification(e, a)
                           \/ ExecutorStep(e)
    \/ \E w \in Worker : WorkerStep(w)
    \/ \E p \in Process : Crash(p)

Spec == Init /\ [][Next]_vars

\* Time passes, the recovery worker polls, and what was started is carried on;
\* nobody has to start an execution.
Fairness == /\ WF_vars(Tick)
            /\ \A e \in Executor : WF_vars(ExecutorStep(e))
            /\ \A w \in Worker : WF_vars(WorkerStep(w))

FairSpec == Spec /\ Fairness

-----------------------------------------------------------------------------
(* Properties.                                                             *)

Status == {"approved", "claimed", "running", "accepted", "outcome_unknown",
           "failed_terminal", "rollback_running", "rollback_failed_retryable",
           "rollback_failed_terminal", "rolled_back"}

\* The type invariant.
TypeOK ==
    /\ status \in [Action -> Status]
    /\ execution \in [Action -> Executor \cup {None}]
    /\ expiresIn \in [Action -> -1 .. TTL]
    /\ claim \in [Action -> Worker \cup {None}]
    /\ claimAge \in [Action -> 0 .. LockTTL]
    /\ retries \in [Action -> 0 .. MaxRetries + 1]
    /\ gate \in [Action -> {"authorization", "execution", "observation",
                            "verification", "closed"}]
    /\ owner \in [Resource -> Process \cup {None}]
    /\ left \in [Resource -> Int]
    /\ pc \in [Process -> {"idle", "entering", "incident", "target", "claimed",
                           "authorized", "calling", "answered", "ended", "leaving",
                           "resuming", "resumed", "verifying", "reverting", "verified",
                           "batch", "undoing", "settling"}]
    /\ job \in [Process -> Action \cup {None}]
    /\ lag \in [Process -> Nat]
    /\ result \in [Process -> {"none", "accepted", "outcome_unknown", "failed_terminal",
                               "success", "retryable", "rejected", "locked_out"}]
    /\ todo \in [Worker -> SUBSET Action]
    /\ blocked \in SUBSET Target
    /\ calls \in [Action -> 0 .. 2]
    /\ undos \in [Action -> 0 .. MaxUndos]
    /\ crashes \in 0 .. MaxCrashes

\* However executions race, stall, crash and are retried, Wazuh is asked at most
\* once to apply an approved action.
AtMostOneForwardCall == \A a \in Action : calls[a] <= 1

\* A row is rolled back only when its block is gone: no forward call of the same
\* action can still be on its way.  (A later action may block the target again.)
RolledBackIsLifted ==
    \A a \in Action :
        status[a] = "rolled_back" /\ TargetOf[a] \in blocked
        => \E b \in Action \ {a} : TargetOf[b] = TargetOf[a] /\ calls[b] > 0

\* The recovery never shortens a containment: while a worker has a row in hand, that
\* row was contained and its time is over.
RecoveryWaitsForExpiry ==
    \A w \in Worker :
        pc[w] \in {"undoing", "settling"} =>
            expiresIn[job[w]] = 0 /\ calls[job[w]] = 1

\* A final verdict on a row stands, however late another process reports.
Final == {"failed_terminal", "rollback_failed_terminal", "rolled_back"}
VerdictsStand ==
    [][\A a \in Action : status[a] \in Final => status'[a] = status[a]]_vars

\* Executions and recoveries that are faster than their leases never talk to Wazuh
\* about one target at once.  The rollback of a failed verification takes no target
\* lease and is not among them: see ContainmentIsNotMutatedByOthers.
Touching(p) == pc[p] \in {"calling", "undoing"}
OneMutatorPerTarget ==
    \A p, q \in Process :
        /\ Touching(p) /\ Touching(q)
        /\ TargetOf[job[p]] = TargetOf[job[q]]
        => p = q

\* A block that nobody works on any more is on record: its row can still be
\* recovered, or the recovery has given it up.
Recoverable == Eligible \cup {"rollback_running", "rollback_failed_terminal"}
NoOrphanedBlock ==
    \A a \in Action :
        /\ calls[a] > 0 /\ TargetOf[a] \in blocked
        /\ \A b \in Action \ {a} : TargetOf[b] = TargetOf[a] => calls[b] = 0
        /\ \A p \in Process : job[p] # a
        => status[a] \in Recoverable

\* The retry budget bounds the calls of the recovery.
RollbackAttemptsBounded == \A a \in Action : undos[a] <= MaxRetries + 1

\* No other workflow lifts the block of an accepted containment before its TTL.
ContainmentIsNotMutatedByOthers ==
    [][\A a \in Action :
          /\ status[a] = "accepted" /\ expiresIn[a] > 0
          /\ TargetOf[a] \in blocked /\ TargetOf[a] \notin blocked'
          => \E p \in Process : job[p] = a /\ pc[p] # pc'[p]]_vars

\* Every containment is lifted in the end, or given up on record.
EveryContainmentSettles ==
    \A a \in Action :
        status[a] \in Contained ~> status[a] \in {"rolled_back", "rollback_failed_terminal"}
=============================================================================
