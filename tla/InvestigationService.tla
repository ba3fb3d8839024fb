------------------------- MODULE InvestigationService -------------------------
(***************************************************************************)
(* One investigation as its callers see it: the LangGraph thread (the      *)
(* checkpoint), the snapshot row with its state_version, the approval and  *)
(* action rows a snapshot is projected into, and the incident lease.       *)
(* Orchestration workers and analysts (API requests) run in any number of  *)
(* processes; a call takes the lease, invokes the graph, and writes the    *)
(* view of the checkpoint back with a compare-and-swap.  A node of the     *)
(* graph is detail of MapeKWorkflow: here an invocation only enters a      *)
(* phase (one checkpoint) and comes to rest (the last checkpoint).         *)
(***************************************************************************)
EXTENDS Naturals, FiniteSets

CONSTANTS Worker,        \* orchestration worker threads
          Analyst,       \* API requests being served
          MaxAttempts,   \* MAPEK_WORKER_MAX_ATTEMPTS
          MaxRequests,   \* bound: API requests ever made
          MaxFaults,     \* bound: processes that die, leases that end under their holder
          None           \* nobody holds the lease

ASSUME CallersAssumption == Worker \cap Analyst = {} /\ None \notin Worker \cup Analyst
ASSUME AttemptsAssumption == MaxAttempts \in Nat \ {0}
ASSUME BoundsAssumption == MaxRequests \in Nat /\ MaxFaults \in Nat

Caller == Worker \cup Analyst
Dead   == "dead"         \* the lease of a caller that is gone
ASSUME DeadAssumption == Dead \notin Worker \cup Analyst \cup {None}

VARIABLES
    thread,    \* the checkpoint: where it is, how often it came to rest, approved or not
    snap,      \* the snapshot row: status, worker_attempts, the checkpoint it is a view of
    ledger,    \* approval and action rows: "none", "approved", "claimed", "failed"
    holder,    \* the caller whose incident lease is running
    pc, op,    \* where a caller is, in which call
    view,      \* the checkpoint a caller read
    seen,      \* the snapshot a caller read
    current,   \* callers that read the state_version the row still has
    phase,     \* where a caller's invocation of the graph is
    sent,      \* the execute node has run
    lost,      \* callers whose lease ended while they were at work
    requests, faults, lapses

locals  == <<op, view, seen, phase, lost>>
bounds  == <<requests, faults, lapses>>
rows    == <<snap, current, ledger>>
vars    == <<thread, rows, holder, pc, locals, sent, bounds>>

Underway == {"diagnosing", "responding", "concluding"}
Resting  == {"human_approval", "execution_authorization", "verification_wait",
             "escalated", "finished"}

NoThread == [at |-> "none", turn |-> 0, approved |-> FALSE]
Queued   == [status |-> "queued", turn |-> 0, approved |-> FALSE, attempts |-> 0]

\* _enqueue has written the queued snapshot; the graph has not run.
Init ==
    /\ thread = NoThread /\ snap = Queued /\ ledger = "none" /\ holder = None
    /\ pc = [c \in Caller |-> "idle"] /\ op = [c \in Caller |-> "none"]
    /\ view = [c \in Caller |-> NoThread] /\ seen = [c \in Caller |-> Queued]
    /\ current = {}
    /\ phase = [c \in Caller |-> "none"]
    /\ sent = FALSE /\ lost = {}
    /\ requests = 0 /\ faults = 0 /\ lapses = 0

Goto(c, label) == pc' = [pc EXCEPT ![c] = label]
Call(c, o, label) == Goto(c, label) /\ op' = [op EXCEPT ![c] = o]

\* The locals of a call: all that a caller knows is gone when it returns or dies.
Forget(c) == /\ op' = [op EXCEPT ![c] = "none"] /\ view' = [view EXCEPT ![c] = NoThread]
             /\ seen' = [seen EXCEPT ![c] = Queued] /\ phase' = [phase EXCEPT ![c] = "none"]
             /\ lost' = lost \ {c}
Return(c, label) == Goto(c, label) /\ Forget(c)

-----------------------------------------------------------------------------
(* Calls begin: the checks made before the lease is taken.                 *)

\* process_background_once: a candidate is queued, or waits for verification and its
\* observation window has passed.
Pick(w) ==
    /\ pc[w] = "idle"
    /\ \/ snap.status = "queued" /\ Call(w, "run", "called")
       \/ snap.status = "waiting_verification" /\ Call(w, "verify", "checking")
    /\ UNCHANGED <<thread, rows, holder, view, seen, phase, lost, sent, bounds>>

\* resume_verification looks at the checkpoint; its refusal counts as a worker failure.
CheckVerification(w) ==
    /\ pc[w] = "checking"
    /\ IF thread.at = "verification_wait"
       THEN Goto(w, "called") /\ UNCHANGED locals
       ELSE Return(w, "failing")
    /\ UNCHANGED <<thread, rows, holder, sent, bounds>>

\* The API takes an approval or an execution only while the checkpoint waits for it;
\* collect_more_evidence checks later.
Request(a) ==
    /\ pc[a] = "idle" /\ requests < MaxRequests
    /\ requests' = requests + 1
    /\ \/ thread.at = "human_approval" /\ Call(a, "approve", "called")
       \/ thread.at = "execution_authorization" /\ Call(a, "execute", "called")
       \/ Call(a, "collect", "called")
    /\ UNCHANGED <<thread, rows, holder, view, seen, phase, lost, sent, faults, lapses>>

-----------------------------------------------------------------------------
(* Under the incident lease.  Mutants are the plausible slips the          *)
(* properties must notice: Name_Slip stands for Name with that slip made.  *)

Acquire(c) ==
    /\ pc[c] = "called" /\ holder = None
    /\ holder' = c /\ Goto(c, "holding")
    /\ UNCHANGED <<thread, rows, locals, sent, bounds>>

\* run_queued lets the lease conflict through and the worker skips the candidate;
\* _resume_trusted turns it into another error, which counts as a failure.
Refused(c) ==
    /\ pc[c] = "called" /\ holder # None
    /\ Return(c, IF op[c] = "verify" THEN "failing" ELSE "idle")
    /\ UNCHANGED <<thread, rows, holder, sent, bounds>>

StillQueued_Unchecked == TRUE
StillQueued == snap.status = "queued"

\* What a call checks again, now that nobody else may move the investigation.
Admitted(c) ==
    CASE op[c] = "run"     -> StillQueued
      [] op[c] = "collect" -> thread.at = "escalated"
      [] op[c] = "execute" -> ledger = "approved"
      [] OTHER -> TRUE

Admit(c) ==
    /\ pc[c] = "holding"
    /\ IF Admitted(c)
       THEN /\ Goto(c, "invoking")
            /\ ledger' = IF op[c] = "execute" THEN "claimed" ELSE ledger
       ELSE Goto(c, "releasing") /\ UNCHANGED ledger
    /\ UNCHANGED <<thread, snap, current, holder, locals, sent, bounds>>

\* The first checkpoint of an invocation.  run and collect start over at Monitor; a
\* resume goes to whatever interrupt the thread is at, and a payload meant for another
\* interrupt ends the workflow (or leaves it waiting for verification).
First(o, at) ==
    IF o \in {"run", "collect"} THEN {"diagnosing"}
    ELSE CASE at = "human_approval" ->
                {"concluding"} \cup (IF o = "approve" THEN {"execution_authorization"} ELSE {})
           [] at = "execution_authorization" ->
                {"concluding"} \cup (IF o = "execute" THEN {"responding"} ELSE {})
           [] at = "verification_wait" -> IF o = "verify" THEN {"concluding"} ELSE {at}
           [] OTHER -> {at}

\* Where a phase comes to rest.
Rest(p) == CASE p = "diagnosing" -> {"human_approval", "escalated", "finished"}
             [] p = "responding" -> {"verification_wait", "finished"}
             [] p = "concluding" -> {"finished"}

Approved(o, p) ==
    o \notin {"run", "collect"} /\ (p = "execution_authorization" \/ thread.approved)

Checkpoint(o, p) ==
    thread' = [at |-> p, approved |-> Approved(o, p),
               turn |-> IF p \in Resting THEN thread.turn + 1 ELSE thread.turn]

Enter(c) ==
    /\ pc[c] = "invoking"
    /\ \E p \in First(op[c], thread.at) :
          /\ phase' = [phase EXCEPT ![c] = p]
          /\ IF p = thread.at /\ op[c] \notin {"run", "collect"}
             THEN UNCHANGED thread
             ELSE Checkpoint(op[c], p)
          /\ sent' = (sent \/ p = "responding")
          /\ Goto(c, IF p \in Underway THEN "running" ELSE "viewing")
    /\ UNCHANGED <<rows, holder, op, view, seen, lost, bounds>>

Settle(c) ==
    /\ pc[c] = "running"
    /\ \E p \in Rest(phase[c]) : Checkpoint(op[c], p)
    /\ Goto(c, "viewing")
    /\ UNCHANGED <<rows, holder, locals, sent, bounds>>

\* An exception leaves graph.invoke: a checkpointer, store or provider failed.
Raise(c) ==
    /\ pc[c] \in {"invoking", "running"}
    /\ Goto(c, "aborting")
    /\ UNCHANGED <<thread, rows, holder, locals, sent, bounds>>

-----------------------------------------------------------------------------
(* _sync_snapshot: the view, then the version, then the write.             *)

ReadView(c) ==
    /\ pc[c] = "viewing"
    /\ view' = [view EXCEPT ![c] = thread]
    /\ Goto(c, "versioning")
    /\ UNCHANGED <<thread, rows, holder, op, seen, phase, lost, sent, bounds>>

ReadVersion(c) ==
    /\ pc[c] = "versioning"
    /\ current' = current \cup {c}
    /\ Goto(c, "saving")
    /\ UNCHANGED <<thread, snap, ledger, holder, locals, sent, bounds>>

StatusOf_Raw(at) == at
StatusOf(at) == CASE at = "human_approval" -> "waiting_approval"
                  [] at = "execution_authorization" -> "approved"
                  [] at = "verification_wait" -> "waiting_verification"
                  [] at \in {"escalated", "finished"} -> at
                  [] OTHER -> "running"

\* _save_approval and _save_actions: rows of a claimed action keep their status, the
\* others follow the decision in the snapshot.
Projected(approved) == IF ledger = "claimed" THEN "claimed"
                       ELSE IF approved THEN "approved" ELSE "none"

\* save_snapshot accepts a write only over the version it was based on.
Current_Unversioned(c) == TRUE
Current(c) == c \in current

Save(c) ==
    /\ pc[c] = "saving"
    /\ IF Current(c)
       THEN /\ snap' = [status |-> StatusOf(view[c].at), turn |-> view[c].turn,
                        approved |-> view[c].approved,
                        attempts |-> 0]
            /\ current' = {}
            /\ ledger' = Projected(view[c].approved)
            /\ Goto(c, "releasing")
       ELSE Goto(c, "aborting") /\ UNCHANGED rows
    /\ UNCHANGED <<thread, holder, locals, sent, bounds>>

-----------------------------------------------------------------------------
(* Leaving: finally release the lease, then count a worker's failure.      *)

Remaining_AnyToken(c) == None
Remaining(c) == IF holder = c THEN None ELSE holder

\* mark_execution_failed: the claimed rows of an execution that gave no result.
Fruitless(c) == op[c] = "execute" /\ ledger = "claimed"
                /\ (pc[c] = "aborting" \/ phase[c] # "responding")

Release(c) ==
    /\ pc[c] \in {"releasing", "aborting"}
    /\ holder' = Remaining(c)
    /\ ledger' = IF Fruitless(c) THEN "failed" ELSE ledger
    /\ Return(c, IF pc[c] = "aborting" /\ c \in Worker THEN "failing" ELSE "idle")
    /\ UNCHANGED <<thread, snap, current, sent, bounds>>

\* _record_worker_failure reads and writes without the lease.
ReadFailure(w) ==
    /\ pc[w] = "failing"
    /\ seen' = [seen EXCEPT ![w] = snap] /\ current' = current \cup {w}
    /\ Goto(w, "counting")
    /\ UNCHANGED <<thread, snap, ledger, holder, op, view, phase, lost, sent, bounds>>

CountFailure(w) ==
    LET n == seen[w].attempts + 1 IN
    /\ pc[w] = "counting"
    /\ IF Current(w)
       THEN /\ current' = {}
            /\ snap' = [status |-> IF n >= MaxAttempts THEN "failed" ELSE seen[w].status,
                        turn |-> seen[w].turn, approved |-> seen[w].approved, attempts |-> n]
            /\ ledger' = Projected(seen[w].approved)
       ELSE UNCHANGED rows
    /\ Return(w, "idle")
    /\ UNCHANGED <<thread, holder, sent, bounds>>

-----------------------------------------------------------------------------
(* Failures.                                                               *)

\* The process of a caller dies: what it had not written is gone, its lease stays.
Crash(c) ==
    /\ faults < MaxFaults /\ pc[c] # "idle"
    /\ faults' = faults + 1
    /\ Return(c, "idle")
    /\ holder' = IF holder = c THEN Dead ELSE holder
    /\ current' = current \ {c}
    /\ UNCHANGED <<thread, snap, ledger, sent, requests, lapses>>

\* The lease of a dead caller ends after MAPEK_EXECUTION_LOCK_TTL_SECONDS.
Ended_Never == FALSE
Ended == holder = Dead

Expire ==
    /\ Ended
    /\ holder' = None
    /\ UNCHANGED <<thread, rows, pc, locals, sent, bounds>>

\* Nobody renews a lease: a caller whose graph runs longer than the TTL loses it unawares.
Lapse(c) ==
    /\ faults < MaxFaults /\ holder = c /\ pc[c] = "running"
    /\ faults' = faults + 1 /\ lapses' = lapses + 1
    /\ holder' = None /\ lost' = lost \cup {c}
    /\ UNCHANGED <<thread, rows, pc, op, view, seen, phase, sent, requests>>

Inside(c) == \/ Admit(c) \/ Enter(c) \/ Settle(c) \/ Raise(c)
             \/ ReadView(c) \/ ReadVersion(c) \/ Save(c) \/ Release(c)

Proceed(c) == Acquire(c) \/ Refused(c) \/ Inside(c)

WorkerStep(w) == Pick(w) \/ CheckVerification(w) \/ ReadFailure(w) \/ CountFailure(w)

Next == \/ \E c \in Caller : Proceed(c) \/ Crash(c) \/ Lapse(c)
        \/ \E w \in Worker : WorkerStep(w)
        \/ \E a \in Analyst : Request(a)
        \/ Expire

Spec == Init /\ [][Next]_vars

\* Workers cycle for ever, a request that began is served, and a lease ends by its clock.
FairSpec == /\ Spec
            /\ \A w \in Worker : WF_vars(WorkerStep(w) \/ Proceed(w))
            /\ \A a \in Analyst : WF_vars(Proceed(a))
            /\ WF_vars(Expire)

-----------------------------------------------------------------------------
(* Properties.                                                             *)

Views == [at : {"none"} \cup Underway \cup Resting, turn : Nat, approved : BOOLEAN]
Rows  == [status : {"queued", "running", "waiting_approval", "approved",
                    "waiting_verification", "escalated", "finished", "failed"},
          turn : Nat, approved : BOOLEAN, attempts : Nat]

\* At work under the lease.
Held == {"holding", "invoking", "running", "viewing", "versioning", "saving",
         "releasing", "aborting"}

\* The type invariant.
TypeOK ==
    /\ thread \in Views /\ snap \in Rows
    /\ ledger \in {"none", "approved", "claimed", "failed"}
    /\ holder \in Caller \cup {None, Dead}
    /\ pc \in [Caller -> {"idle", "called", "checking", "failing", "counting"} \cup Held]
    /\ op \in [Caller -> {"none", "run", "verify", "approve", "execute", "collect"}]
    /\ view \in [Caller -> Views] /\ seen \in [Caller -> Rows]
    /\ phase \in [Caller -> {"none"} \cup Underway \cup Resting]
    /\ sent \in BOOLEAN /\ lost \subseteq Caller /\ current \subseteq Caller
    /\ requests \in 0 .. MaxRequests /\ faults \in 0 .. MaxFaults /\ lapses \in 0 .. MaxFaults

\* A caller works on the investigation only under its own lease, whoever else releases,
\* crashes or takes over meanwhile; the one way out is that its own lease ended first.
OnlyALapseSharesTheThread ==
    \A c \in Caller : pc[c] \in Held => holder = c \/ c \in lost

\* Without such a lapse the snapshot never returns to an earlier checkpoint: neither a
\* slow worker nor the late count of a failure overwrites what came after it.
SnapshotNeverGoesBack == [][lapses = 0 => snap'.turn >= snap.turn]_vars

\* Without a lapse, an investigation whose response has begun is never diagnosed again,
\* however stale the list of candidates a worker goes by.
NoRestartAfterResponse ==
    lapses = 0 /\ sent => thread.at \notin {"diagnosing", "human_approval"}

\* A queued investigation does not stay queued: it is worked on, or given up after
\* MaxAttempts failures.
QueuedIsTakenUp == snap.status = "queued" ~> snap.status # "queued"

\* The incident lease, as the comment on graph.invoke has it: exclusive ownership across
\* workers and threads.
LeaseIsExclusive == \A c, d \in Caller : pc[c] \in Held /\ pc[d] \in Held => c = d

\* The documented durability of the execution interrupt: a thread that waits there, with
\* nobody at work on it, can be executed, so its approval is on record.
ExecutionInterruptSurvives ==
    thread.at = "execution_authorization" /\ (\A c \in Caller : pc[c] = "idle")
    => ledger = "approved"
=============================================================================
