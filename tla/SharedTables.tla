---------------------------- MODULE SharedTables ----------------------------
(***************************************************************************)
(* The tables workers share and their locks: lease rows, the enqueue that  *)
(* takes one, a finding merged under a row lock, and the report that       *)
(* follows the tables with a cursor.  The parts share no variable: one of  *)
(* them moves in a behaviour, and the others stay as they begin.  Each is  *)
(* instantiated through the module of its proofs, which extends it, so     *)
(* that what is proved of a part can be cited of the whole.                *)
(***************************************************************************)
EXTENDS ResourceLease

CONSTANTS
    None, Gone,
    Call, Alert, Investigation, Legacy, Migrated, Crashes,         \* AlertEnqueue
    Worker, Last, DocTime, Key, Severe, PageSize, MaxPages,        \* AlertIngestion
    Overlap, Window, MaxOpen, NamedAlert, MaxFaults,
    Writer, Reviewer, AlertTime, RefLimit, Org, Verdict,           \* FindingStore
    Checker, AlertRow, Finding, Analysis, Scope, Hours, MaxTime,
    AuditFails, Overlapping                                        \* ChangeReport

VARIABLES part,
    lease, status, of, pc, call,
    indexed, stored, linked, findings, opened, checkpoint, claim, redis, run,
    reported, lapsed, quiet, capped, faults,
    finding, lock, at, work, review, feedback, covered, changes, touches, notices,
    time, writing, created, updated, cursor, query, check, counted, missed, shown, passed,
    baseline

enqueueVars == <<lease, status, of, pc, call>>
ingestionVars == <<indexed, stored, linked, findings, opened, checkpoint, claim, redis, run,
                   reported, lapsed, quiet, capped, faults>>
findingVars == <<finding, lock, at, work, review, feedback, covered, changes, touches, notices>>
reportVars == <<time, writing, created, updated, cursor, query, check, counted, missed, shown,
                passed, baseline>>
all == <<part, vars, enqueueVars, ingestionVars, findingVars, reportVars>>

Enqueue   == INSTANCE AlertEnqueue_proofs WITH Row <- Investigation
Ingestion == INSTANCE AlertIngestion_proofs WITH Time <- DocTime, Submitted <- NamedAlert
Findings  == INSTANCE FindingStore_proofs WITH Alert <- AlertTime, row <- finding, pc <- at
Report    == INSTANCE ChangeReport_proofs WITH Check <- Checker, clock <- time, pc <- query

ASSUME EnqueueAssumption ==
    Enqueue!LegacyAssumption /\ Enqueue!ScenarioAssumption /\ Enqueue!NoneAssumption
ASSUME IngestionAssumption ==
    /\ Ingestion!LastAssumption /\ Ingestion!TimeAssumption /\ Ingestion!PageAssumption
    /\ Ingestion!WindowAssumption /\ Ingestion!OwnerAssumption /\ Ingestion!SubsetAssumption
ASSUME FindingsAssumption ==
    Findings!AlertAssumption /\ Findings!LimitAssumption /\ Findings!NoneAssumption
ASSUME ReportAssumption ==
    /\ Report!TimeAssumption /\ Report!ScopeAssumption /\ Report!ScenarioAssumption
    /\ Report!ItemAssumption /\ Report!NoneAssumption

PartsInit ==
    /\ part \in {"lease", "enqueue", "ingestion", "finding", "report"}
    /\ Init /\ Enqueue!Init /\ Ingestion!Init /\ Findings!Init /\ Report!Init

PartsNext ==
    \/ /\ part = "lease" /\ Next
       /\ UNCHANGED <<part, enqueueVars, ingestionVars, findingVars, reportVars>>
    \/ /\ part = "enqueue" /\ Enqueue!Next
       /\ UNCHANGED <<part, vars, ingestionVars, findingVars, reportVars>>
    \/ /\ part = "ingestion" /\ Ingestion!Next
       /\ UNCHANGED <<part, vars, enqueueVars, findingVars, reportVars>>
    \/ /\ part = "finding" /\ Findings!Next
       /\ UNCHANGED <<part, vars, enqueueVars, ingestionVars, reportVars>>
    \/ /\ part = "report" /\ Report!Next
       /\ UNCHANGED <<part, vars, enqueueVars, ingestionVars, findingVars>>

PartsSpec == PartsInit /\ [][PartsNext]_all

-----------------------------------------------------------------------------
(* The parts' properties.                                                  *)

\* AlertEnqueue: however the calls of several processes interleave, outlive their lease and
\* die, an alert has one active investigation.
OneActivePerAlert == part = "enqueue" => Enqueue!TypeOK /\ Enqueue!OneActivePerAlert

\* AlertIngestion: two cycles work at once only after a claim lapsed; even then a document
\* is new to one of them, and without it an alert ends in one finding.
AlertsAreNewOnce == part = "ingestion" => Ingestion!TypeOK /\ Ingestion!AlertsAreNewOnce

\* FindingStore: triages and reviews that overlap leave a finding with all of its evidence,
\* nothing that a refused triage brought, and every alert counted once.
FindingIsOfItsAlerts == part = "finding" => Findings!TypeOK /\ Findings!FindingIsOfItsAlerts

\* ChangeReport: what the cursor has passed is of the time before a baseline or was reported,
\* unless the query that had to count it came too early for its commit or filtered it out.
NothingSlips == part = "report" => Report!TypeOK /\ Report!NothingSlips

\* A late enqueue leaves the lease of its successor and is answered with the winner's row
\* (AlertEnqueue); a late page does not move the high-water mark back (AlertIngestion).
LatecomersDoNoHarm ==
    Enqueue!LatecomersDoNoHarm /\ Ingestion!HighWaterIsMonotonic
=============================================================================
