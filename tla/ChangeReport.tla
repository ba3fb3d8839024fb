----------------------------- MODULE ChangeReport -----------------------------
(***************************************************************************)
(* "What is new?"  A check samples the clock, reads the analyst's cursor,  *)
(* counts the findings, the completed analyses and the alerts since that   *)
(* cursor, each in a query of its own, and advances the cursor to its      *)
(* sample.  The first one has no cursor: it is the baseline, counts over a *)
(* window and reports nothing as new.  Meanwhile the ingestion, the triage *)
(* and the workflow write what is counted: a record carries the time its   *)
(* writer stamped it with and becomes visible when its transaction         *)
(* commits, later.  Every stamp and every sample takes a tick of its own.  *)
(***************************************************************************)
EXTENDS Integers, FiniteSets

CONSTANTS Check,      \* bound: requests of one analyst in one organization
          AlertRow,   \* rows of soc_wazuh_alerts
          Finding,    \* rows of soc_findings
          Analysis,   \* analysis_completed events of soc_audit_events
          Scope,      \* what a check's filters let through: sets of records
          Hours,      \* the windows a check may be asked for
          MaxTime,    \* bound: ticks
          AuditFails, \* bound: counting the audit events may fail
          Overlapping,\* bound: checks may overlap
          None

Item == AlertRow \cup Finding \cup Analysis

TimeAssumption == MaxTime \in Nat /\ Hours \subseteq Nat
ScopeAssumption == \A S \in Scope : S \subseteq Item
ScenarioAssumption == {AuditFails, Overlapping} \subseteq BOOLEAN
ItemAssumption == AlertRow \cap Finding = {} /\ Analysis \cap (AlertRow \cup Finding) = {}
NoneAssumption == None \notin Check

VARIABLES
    clock,
    writing,  \* item -> the stamp of its uncommitted write, or 0
    created,  \* item -> ingested_at, created_at or occurred_at, 0 when it is not there
    updated,  \* item -> updated_at
    cursor,   \* last_checked_at, or 0 when there is no row
    pc,       \* of a check: "new", "asked", the query it is at, "advance", "report" or "over"
    check,    \* what a check works with
    counted,  \* check -> writes its report counts as new or updated
    missed,   \* check -> writes its queries came too early for, or filtered out
    shown,    \* writes that checks reported as new or updated, with the checks
    passed,   \* what checks missed that moved the cursor
    baseline  \* the sample of the latest baseline that moved the cursor, or 0

records == <<writing, created, updated>>
counts == <<counted, missed>>
history == <<shown, passed, baseline>>
vars == <<clock, records, cursor, pc, check, counts, history>>

NoCheck == [at |-> 0, since |-> 0, scope |-> {}, comparing |-> FALSE, first |-> FALSE,
            available |-> TRUE, mark |-> 0]

Init ==
    /\ clock = 0
    /\ writing = [i \in Item |-> 0]
    /\ created = [i \in Item |-> 0] /\ updated = [i \in Item |-> 0]
    /\ cursor = 0
    /\ pc = [c \in Check |-> "new"] /\ check = [c \in Check |-> NoCheck]
    /\ counted = [c \in Check |-> {}] /\ missed = [c \in Check |-> {}]
    /\ shown = {} /\ passed = {} /\ baseline = 0

Goto(c, p) == pc' = [pc EXCEPT ![c] = p]

-----------------------------------------------------------------------------
(* The writers.  A write is the pair of its item and its stamp.            *)

Writable(i) == writing[i] = 0 /\ (created[i] = 0 \/ i \in Finding)

\* ingested_at, updated_at and the timestamp of an audit event are taken first ...
Stamp(i) ==
    /\ Writable(i) /\ clock < MaxTime
    /\ clock' = clock + 1 /\ writing' = [writing EXCEPT ![i] = clock + 1]
    /\ UNCHANGED <<created, updated, cursor, pc, check, counts, history>>

\* ... and committed with the record.
Commit(i) ==
    /\ writing[i] > 0
    /\ created' = [created EXCEPT ![i] = IF @ = 0 THEN writing[i] ELSE @]
    /\ updated' = [updated EXCEPT ![i] = writing[i]]
    /\ writing' = [writing EXCEPT ![i] = 0]
    /\ UNCHANGED <<clock, cursor, pc, check, counts, history>>

-----------------------------------------------------------------------------
(* A check.                                                                *)

Write(i) == <<i, updated[i]>>

Ask(c) ==
    /\ pc[c] = "new" /\ clock < MaxTime
    /\ Overlapping \/ \A d \in Check : pc[d] \in {"new", "over"}
    /\ clock' = clock + 1 /\ check' = [check EXCEPT ![c].at = clock + 1]
    /\ Goto(c, "asked")
    /\ UNCHANGED <<records, cursor, counts, history>>

Ago(c, h) == IF h < check[c].at THEN check[c].at - h ELSE 0

\* "New" and "changed" are measured from the cursor.  Without one, and for "recent", the
\* reference is a window before the sample.
Reference_Window(c, comparing, h) == Ago(c, h)
Reference(c, comparing, h) == IF comparing /\ cursor # 0 THEN cursor ELSE Ago(c, h)
Refer(c) ==
    /\ pc[c] = "asked" /\ Goto(c, "findings")
    /\ \E S \in Scope, comparing \in BOOLEAN, h \in Hours :
          check' = [check EXCEPT ![c] =
              [at |-> check[c].at, since |-> Reference(c, comparing, h), scope |-> S,
               comparing |-> comparing, first |-> comparing /\ cursor = 0,
               available |-> TRUE, mark |-> 0]]
    /\ UNCHANGED <<clock, records, cursor, counts, history>>

\* What a query over the records K does not see: they are not committed, or filtered out.
Unseen(c, K) ==
    {<<i, writing[i]>> : i \in {j \in K : /\ writing[j] > check[c].since
                                          /\ writing[j] <= check[c].at}}
    \cup {Write(i) : i \in {j \in K \ (check[c].scope \cup Analysis) :
                             updated[j] > check[c].since}}

\* Before there is a baseline, and for "recent", no count is reported as new or updated.
Comparable(c) == check[c].comparing /\ ~check[c].first

\* A query over the records K counts W.
Counts(c, K, W) ==
    IF Comparable(c)
    THEN /\ counted' = [counted EXCEPT ![c] = @ \cup W]
         /\ missed' = [missed EXCEPT ![c] = @ \cup Unseen(c, K)]
    ELSE UNCHANGED counts

\* The request is answered, or has failed.
Finish(c) ==
    /\ Goto(c, "over") /\ check' = [check EXCEPT ![c] = NoCheck]
    /\ counted' = [counted EXCEPT ![c] = {}] /\ missed' = [missed EXCEPT ![c] = {}]

\* The findings the previous check has seen.
Old(c) == {f \in Finding : created[f] \in 1..check[c].since}

\* created_after, which "new" asks for
NewFindings(c) ==
    {Write(i) : i \in {f \in Finding \cap check[c].scope : created[f] > check[c].since}}
CountNew(c) ==
    /\ pc[c] = "findings" /\ Counts(c, Finding \ Old(c), NewFindings(c)) /\ Goto(c, "updates")
    /\ UNCHANGED <<clock, records, cursor, check, history>>

\* updated_after and created_on_or_before
UpdatedFindings(c) ==
    {Write(i) : i \in {f \in Old(c) \cap check[c].scope : updated[f] > check[c].since}}
CountUpdated(c) ==
    /\ pc[c] = "updates" /\ Counts(c, Old(c), UpdatedFindings(c)) /\ Goto(c, "analyses")
    /\ UNCHANGED <<clock, records, cursor, check, history>>

\* The only count with an upper bound, and the only one whose failure is answered;
\* it ignores the filters.
CompletedAnalyses(c) ==
    {Write(i) : i \in {a \in Analysis : created[a] > check[c].since /\ created[a] <= check[c].at}}
CountAnalyses(c) ==
    /\ pc[c] = "analyses" /\ Goto(c, "alerts")
    /\ \/ Counts(c, Analysis, CompletedAnalyses(c)) /\ UNCHANGED check
       \/ /\ AuditFails /\ check' = [check EXCEPT ![c].available = FALSE]
          /\ UNCHANGED counts
    /\ UNCHANGED <<clock, records, cursor, history>>

Advances(c) == check[c].comparing /\ check[c].available

NewAlerts(c) ==
    {Write(i) : i \in {a \in AlertRow \cap check[c].scope : created[a] > check[c].since}}
CountAlerts(c) ==
    /\ pc[c] = "alerts"
    /\ IF Advances(c)
       THEN Counts(c, AlertRow, NewAlerts(c)) /\ Goto(c, "advance") /\ UNCHANGED check
       ELSE Finish(c)
    /\ UNCHANGED <<clock, records, cursor, history>>

\* advance_user_cursor reads the row, without locking it, ...
ReadCursor(c) ==
    /\ pc[c] = "advance" /\ Goto(c, "report")
    /\ check' = [check EXCEPT ![c].mark = cursor]
    /\ UNCHANGED <<clock, records, cursor, counts, history>>

\* The baseline has nothing to compare with, and reports none of its counts.
Reports(c) ==
    IF Comparable(c)
    THEN /\ shown' = shown \cup {<<w, c>> : w \in counted[c]}
         /\ passed' = passed \cup missed[c] /\ UNCHANGED baseline
    ELSE /\ baseline' = IF check[c].at > baseline THEN check[c].at ELSE baseline
         /\ UNCHANGED <<shown, passed>>

\* ... and compares what it read.  A second first row is refused, and the request fails.
Marked(c) == IF check[c].at > check[c].mark THEN check[c].at ELSE cursor
WriteCursor(c) ==
    /\ pc[c] = "report" /\ Finish(c)
    /\ IF check[c].mark = 0 /\ cursor # 0
       THEN UNCHANGED <<cursor, history>>
       ELSE cursor' = Marked(c) /\ Reports(c)
    /\ UNCHANGED <<clock, records>>

\* Any query but the audit's that fails ends the request.
Fail(c) ==
    /\ pc[c] \in {"asked", "findings", "updates", "alerts", "advance", "report"} /\ Finish(c)
    /\ UNCHANGED <<clock, records, cursor, history>>

-----------------------------------------------------------------------------

Report(c) ==
    \/ Ask(c) \/ Refer(c) \/ CountNew(c) \/ CountUpdated(c) \/ CountAnalyses(c) \/ CountAlerts(c)
    \/ ReadCursor(c) \/ WriteCursor(c) \/ Fail(c)

Next == (\E i \in Item : Stamp(i) \/ Commit(i)) \/ (\E c \in Check : Report(c))

Spec == Init /\ [][Next]_vars

-----------------------------------------------------------------------------
(* Properties.                                                             *)

Times == 0..MaxTime
Writes == Item \X Times

\* Every variable has its type.
TypeOK ==
    /\ clock \in Times /\ cursor \in Times /\ baseline \in Times
    /\ writing \in [Item -> Times] /\ created \in [Item -> Times] /\ updated \in [Item -> Times]
    /\ pc \in [Check -> {"new", "asked", "findings", "updates", "analyses", "alerts", "advance",
                         "report", "over"}]
    /\ check \in [Check -> [at : Times, since : Times, scope : Scope \cup {{}}, comparing : BOOLEAN,
                            first : BOOLEAN, available : BOOLEAN, mark : Times]]
    /\ counted \in [Check -> SUBSET Writes] /\ missed \in [Check -> SUBSET Writes]
    /\ shown \subseteq Writes \X Check /\ passed \subseteq Writes

Behind(i) == updated[i] \in 1..cursor
Shown(i) == \E c \in Check : <<Write(i), c>> \in shown

\* What lies behind the cursor is of the time before a baseline, or was reported as new or
\* updated.  The exceptions are a write that was uncommitted when the query of its kind
\* ran, and one that was filtered out, in a check that moved the cursor: a check that fails,
\* or could not count the analyses, leaves its interval to the next one.
NothingSlips ==
    \A i \in Item : Behind(i) => updated[i] <= baseline \/ Shown(i) \/ Write(i) \in passed

\* "New" and "changed" are measured against the previous check: what is persisted is
\* in the report of the check that moved the cursor past it, or still ahead of the cursor.
PersistedIsReported == \A i \in Item : Behind(i) => updated[i] <= baseline \/ Shown(i)

\* The time before the first check is reported, too: a baseline leaves nothing out.
BaselineIsReported == \A i \in Item : Behind(i) => Shown(i) \/ Write(i) \in passed

\* Concurrent or out-of-order checks do not rewind the mark.
MarkIsMonotonic == [][cursor' >= cursor]_vars

\* What one check has reported as new or updated is not reported by another one.
NothingResurfaces ==
    \A w \in Writes, c, d \in Check : <<w, c>> \in shown /\ <<w, d>> \in shown => c = d
=============================================================================
