--------------------------- MODULE RecordRetention ---------------------------
(***************************************************************************)
(* What the database keeps of the investigations: the rows a save writes    *)
(* beside the snapshot (db/repositories/investigations.py), the checkpoint  *)
(* of the graph, and the retention job that deletes them by age             *)
(* (db/retention.py, run by hand or by a timer as "make retention-clean").  *)
(*                                                                          *)
(* The job is one transaction: it finds what is old, deletes and rewrites   *)
(* it, and commits, without a lock on the investigations it read.  A case   *)
(* that escalated is over for the job and reusable for everybody else: the  *)
(* analyst may reopen it, which runs the graph on its old checkpoint.       *)
(* Evidence is keyed by what it shows, an alert, and not by the case.       *)
(***************************************************************************)
EXTENDS Naturals, FiniteSets

CONSTANTS
    Cases,          \* investigations
    Alerts,         \* alerts the monitor correlates
    CheckpointAge,  \* RETENTION_CHECKPOINT_DAYS
    CaseAge,        \* RETENTION_INVESTIGATION_DAYS
    Overlap,        \* bound: whether the job may run beside the workers, a set of answers
    MaxTime         \* bound on time

RetentionAssumption ==
    /\ {CheckpointAge, CaseAge, MaxTime} \subseteq Nat \ {0}
    /\ CheckpointAge <= CaseAge
    /\ Overlap \subseteq BOOLEAN

VARIABLES
    now,
    row,        \* soc_investigations, by case
    thread,     \* the latest checkpoint of the graph, by case
    evidence,   \* soc_evidence_records, by alert
    audit,      \* soc_audit_events
    driver,     \* what a worker does with the case
    job,        \* the transaction of the retention job
    beside      \* whether the job is run beside the workers

vars == <<now, row, thread, evidence, audit, driver, job, beside>>

Terminal == {"completed", "escalated"}
Statuses == {"none", "queued", "waiting"} \cup Terminal
Never == MaxTime + 1                        \* completed_at is null

\* events of the nodes, and those the job keeps for ever
Decisions == {"approval_granted", "execution_authorized"}
Events == {"monitor_completed"} \cup Decisions
PermanentAuditEvents ==
    {"approval_required", "approval_decision_received", "response_execution_authorized",
     "response_execution_pending", "response_actions_executed", "response_action_failed",
     "investigation_completed"}

NoRow == [status |-> "none", done |-> Never, saved |-> 0, snapshot |-> "none", says |-> "none"]
NoThread == [status |-> "none", evidence |-> {}]
NoEvidence == [case |-> {}, at |-> 0]
Quiet == [pc |-> "idle", threads |-> {}, stubs |-> {}, says |-> [c \in Cases |-> "none"],
          events |-> {}, evidence |-> {}]

Init ==
    /\ now = 1
    /\ row = [c \in Cases |-> NoRow]
    /\ thread = [c \in Cases |-> NoThread]
    /\ evidence = [a \in Alerts |-> NoEvidence]
    /\ audit = {}
    /\ driver = [c \in Cases |-> "idle"]
    /\ job = Quiet
    /\ beside \in Overlap

Old(at, age) == at + age <= now

(***************************************************************************)
(* The life of a case.                                                      *)
(***************************************************************************)
Enqueue(c) ==
    /\ row[c].status = "none"
    /\ row' = [row EXCEPT ![c] = [status |-> "queued", done |-> Never, saved |-> now,
                                  snapshot |-> "full", says |-> "queued"]]
    /\ UNCHANGED <<now, thread, evidence, audit, driver, job, beside>>

\* run_queued, an approval or authorization, collect_more_evidence
Startable(c) ==
    \/ row[c].says = "queued" /\ thread[c] = NoThread
    \/ thread[c].status \in {"waiting", "escalated"}
Start(c) ==
    /\ driver[c] = "idle" /\ row[c].status # "none" /\ Startable(c)
    /\ beside \/ job.pc = "idle"
    /\ driver' = [driver EXCEPT ![c] = "running"]
    /\ UNCHANGED <<now, row, thread, evidence, audit, job, beside>>

\* a node: the audit sink stores its event at once
Record(c, event) == audit' = audit \cup {[case |-> c, event |-> event, at |-> now]}

\* the monitor correlates alerts and cites them in the checkpoint
Monitor(c) ==
    /\ driver[c] = "running" /\ thread[c].status \in {"none", "escalated"}
    /\ \E found \in (SUBSET Alerts) \ {{}} :
         thread' = [thread EXCEPT ![c] = [status |-> "running", evidence |-> found]]
    /\ Record(c, "monitor_completed")
    /\ UNCHANGED <<now, row, evidence, driver, job, beside>>

\* human_approval and execution_authorization, resumed with a decision
Decide(c) ==
    /\ driver[c] = "running" /\ thread[c].status = "waiting"
    /\ \E event \in Decisions : Record(c, event)
    /\ thread' = [thread EXCEPT ![c].status = "running"]
    /\ UNCHANGED <<now, row, evidence, driver, job, beside>>

\* an interrupt or the end of the graph
Stop(c) ==
    /\ driver[c] = "running" /\ thread[c].status = "running"
    /\ \E s \in {"waiting"} \cup Terminal : thread' = [thread EXCEPT ![c].status = s]
    /\ driver' = [driver EXCEPT ![c] = "stopped"]
    /\ UNCHANGED <<now, row, evidence, audit, job, beside>>

\* the checkpoint was deleted under the worker: nothing is left to save
Lose(c) ==
    /\ driver[c] \in {"running", "stopped"} /\ thread[c] = NoThread
    /\ row[c].says # "queued"
    /\ driver' = [driver EXCEPT ![c] = "idle"]
    /\ UNCHANGED <<now, row, thread, evidence, audit, job, beside>>

\* a reopened case is active again; a finished one keeps its first completion
Completion_Kept(c, s) == IF row[c].done # Never THEN row[c].done
                         ELSE IF s \in Terminal THEN now ELSE Never
Completion(c, s) ==
    IF s \in Terminal THEN (IF row[c].done # Never THEN row[c].done ELSE now) ELSE Never

\* _save_evidence: only what has no row yet
Kept(c) == [a \in Alerts |->
              IF a \in thread[c].evidence /\ evidence[a] = NoEvidence
              THEN [case |-> {c}, at |-> now] ELSE evidence[a]]

\* _sync_snapshot and save_snapshot: columns and snapshot of one row
Saved_SnapshotOnly(c, s) == [row[c] EXCEPT !.saved = now, !.snapshot = "full", !.says = s]
Saved(c, s) == [status |-> s, done |-> Completion(c, s), saved |-> now,
                snapshot |-> "full", says |-> s]
Save(c) ==
    /\ driver[c] = "stopped" /\ thread[c] # NoThread
    /\ row' = [row EXCEPT ![c] = Saved(c, thread[c].status)]
    /\ evidence' = Kept(c)
    /\ driver' = [driver EXCEPT ![c] = "idle"]
    /\ UNCHANGED <<now, thread, audit, job, beside>>

(***************************************************************************)
(* apply_retention.                                                         *)
(***************************************************************************)
Finished(age) == {c \in Cases : row[c].done # Never /\ Old(row[c].done, age)}
Begin ==
    /\ job.pc = "idle"
    /\ beside \/ \A c \in Cases : driver[c] = "idle"
    /\ job' = [pc |-> "begun",
               threads |-> Finished(CheckpointAge),
               stubs |-> Finished(CaseAge),
               says |-> [c \in Cases |-> row[c].status],
               events |-> {e \in audit : /\ Old(e.at, CaseAge)
                                         /\ e.event \notin PermanentAuditEvents},
               evidence |-> {a \in Alerts : /\ evidence[a] # NoEvidence
                                            /\ Old(evidence[a].at, CaseAge)}]
    /\ UNCHANGED <<now, row, thread, evidence, audit, driver, beside>>

\* an archived row keeps its columns; its snapshot becomes a stub of what was read
Archive_Emptied(c) == [row[c] EXCEPT !.snapshot = "none", !.says = job.says[c]]
Archive(c) == [row[c] EXCEPT !.snapshot = "stub", !.says = job.says[c]]
Commit ==
    /\ job.pc = "begun"
    /\ thread' = [c \in Cases |-> IF c \in job.threads THEN NoThread ELSE thread[c]]
    /\ row' = [c \in Cases |-> IF c \in job.stubs THEN Archive(c) ELSE row[c]]
    /\ audit' = audit \ job.events
    /\ evidence' = [a \in Alerts |-> IF a \in job.evidence THEN NoEvidence ELSE evidence[a]]
    /\ job' = Quiet
    /\ UNCHANGED <<now, driver, beside>>

Tick ==
    /\ now < MaxTime /\ job.pc = "idle"
    /\ now' = now + 1
    /\ UNCHANGED <<row, thread, evidence, audit, driver, job, beside>>

Next ==
    \/ \E c \in Cases : Enqueue(c) \/ Start(c) \/ Monitor(c) \/ Decide(c) \/ Stop(c)
                        \/ Lose(c) \/ Save(c)
    \/ Begin \/ Commit \/ Tick

Spec == Init /\ [][Next]_vars

-----------------------------------------------------------------------------
(* Rows, checkpoints and evidence are of the code's kinds.                   *)
TypeOK ==
    /\ now \in 1..MaxTime /\ beside \in BOOLEAN
    /\ \A c \in Cases :
         /\ row[c].status \in Statuses /\ row[c].says \in Statuses
         /\ row[c].snapshot \in {"none", "full", "stub"}
         /\ row[c].done \in (1..now) \cup {Never}
         /\ (row[c].snapshot = "none") <=> (row[c].status = "none")
         /\ thread[c].evidence \subseteq Alerts
    /\ \A a \in Alerts : evidence[a].case \subseteq Cases
    /\ \A e \in audit : e.case \in Cases /\ e.event \in Events

(* A case that waits for a decision keeps what it needs to go on: its       *)
(* checkpoint and its snapshot (save_snapshot: "Its lifecycle is active     *)
(* again").                                                                  *)
WaitingKeepsItsState ==
    \A c \in Cases : row[c].status = "waiting" =>
        /\ thread[c] # NoThread
        /\ row[c].snapshot = "full"

(* A snapshot tells the status of its row, which is what lists, locks and    *)
(* workers go by.                                                            *)
SnapshotAgrees == \A c \in Cases : row[c].says = row[c].status

(* A stub is of a finished case, also when the case was reopened while the  *)
(* job ran: it never passes for a case that waits for somebody.              *)
ArchivedSaysFinished ==
    \A c \in Cases : row[c].snapshot = "stub" => row[c].says \in Terminal

(* Decisions are not deleted ("without deleting durable decisions").        *)
DecisionsAreKept ==
    [][\A e \in audit : e.event \in Decisions => e \in audit']_vars

(* After a save the case has a row for every piece of evidence it cites     *)
(* ("persist ... evidence/report projections").                              *)
EvidenceIsStored ==
    [][\A c \in Cases : row'[c].saved = now /\ driver[c] = "stopped" /\ driver'[c] = "idle" =>
         \A a \in thread[c].evidence : c \in evidence'[a].case]_vars

(* An escalated case that is handed out for its alert can be continued.      *)
ReusableCanContinue ==
    \A c \in Cases : row[c].status = "escalated" => thread[c] # NoThread

(* A case that was worked on within the retention time keeps its checkpoint. *)
RecentIsKept ==
    \A c \in Cases : row[c].status # "none" /\ row[c].says # "queued" /\ ~Old(row[c].saved, CheckpointAge)
                     => thread[c] # NoThread
=============================================================================
