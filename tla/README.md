# TSAGE: a verification project

TLA+ modules, TLC configurations and TLAPS proofs for TSAGE (`src/Backend`): a SOC
backend that ingests Wazuh alerts, investigates them with a MAPE-K workflow, lets a
human approve a plan, executes it on Wazuh, verifies it and undoes what is temporary,
and that answers analysts in a chat. The interesting part is not any one step but
that API processes, orchestration workers, ingestion cycles and a recovery worker,
all able to stall or die, share a database, a LangGraph checkpoint, a Redis that fails
soft, and a provider that may or may not have done what it was asked.

Paths below are relative to `src/Backend/app/` unless they start with `docs/`, `README.md`,
`tests/` or `migrations/`, which are relative to `src/Backend/`.

## 1. Inventory

| Component | State | Operations | Hard behaviour | What makes it correct | Module |
| --- | --- | --- | --- | --- | --- |
| Resource leases (`db/repositories/investigations.py` 245-307, 1448-1546, 2946-3083) | one row per (namespace, type, id): token, expiry | acquire, renew, release | times sampled before the row lock, late release, takeover | mutual exclusion of unexpired leases | `ResourceLease`, `LeaseOwnership` |
| Response action ledger (same file, 64-75, 184-218, 2427-2944) | `ResponseActionRecord`: status, execution and rollback claims, expiry, retries | claim, begin, complete, mark failed, claim overdue, complete rollback | three kinds of callers, crashes between call and write, late verdicts | one forward call per action, final verdicts stand, nothing recovered early, nothing orphaned | `ResponseLedger` |
| Trusted execution, executor, recovery (`orchestration/investigation_service.py` 965-1148, `mape_k/executor.py`, `mape_k/temporary_actions.py`) | leases held, claims, batches | `execute_approved`, `run`, `rollback`, poll | unknown outcomes, stale claims, one clock reading per batch | never resends; every containment settles | `ResponseLedger` |
| MAPE-K graph (`mape_k/graph.py`, `nodes.py`, `routes.py`) | `IncidentWorkflowState`, next node | eleven nodes, three of them interrupts | expiry and redeployment while waiting, wrong payloads, loops | only approved and current plans execute; completion is earned; failures are reverted | `MapeKWorkflow` |
| Investigation service (`orchestration/investigation_service.py` 548-963, 1150-1196) | snapshot row with `state_version`, thread | run queued, approve, execute, verify, collect, count failures | races of workers and analysts, crash between checkpoint and snapshot, lease shorter than the graph | nobody shares a thread, the snapshot never goes back, queued work is taken up | `InvestigationService` |
| Opening investigations (`orchestration/investigation_service.py` 202-281, `migrations/versions/*_17_*`) | alert lease, unique index, insert trigger | `enqueue`, `start`, automatic opening | concurrent and slow callers, crashes | one active investigation per alert | `AlertEnqueue` |
| Ingestion (`services/wazuh/ingestion.py`, `db/repositories/alert_memory.py`, `services/redis/ephemeral.py`) | checkpoint row and claim, alerts, findings, Redis lock | one cycle | lost claim, overlap, truncation, late documents, faults between transactions | no alert new twice, the mark never goes back, what is stored is correlated | `AlertIngestion` |
| Monitor and analyzer (`mape_k/monitor.py`, `schemas.py`, `capabilities.py`, `analyze.py`) | contract, collection, cache | collect, diagnose, loop | sources that fail or cut off, second passes, cached diagnoses | nothing counts as answered that was not asked; a diagnosis stands | `EvidenceCollection` |
| SSH containment (`mape_k/monitor.py`, `analyze.py`, `playbooks.py`, `policy.py`) | collected alerts, diagnosis, plan | collect, rules, model, playbook, policy | limits and windows per pass | guessing is seen; the account suspended is the only one | `SshContainment` |
| Provider calls (`mape_k/llm.py`, `services/redis/ephemeral.py`) | token windows | `invoke_structured` | a shared budget, retries, an unreachable Redis | the budget holds and nobody waits for ever | `ProviderGate` |
| Audit trail (`mape_k/graph.py`, `db/repositories/investigations.py`) | event rows with a hash chain, checkpoint window | append, save | two writers, late events, two drivers | an event once, one chain | `AuditTrail` |
| Retention (`db/retention.py`) | rows with ages | the job | cases reopened under the job | a waiting case keeps its state | `RecordRetention` |
| Findings (`db/repositories/findings.py`, `services/wazuh/triage/`) | finding row, feedback | upsert, feedback, notice | feedback from an unlocked read | evidence kept, each alert counted once | `FindingStore` |
| Change report (`soc_assistant/service.py`, `db/repositories/alert_memory.py`) | cursor per analyst | check | writes commit after their stamp, a first check has no cursor | nothing that a query saw slips past the cursor | `ChangeReport` |
| Conversations (`soc_assistant/service.py`, `router.py`, `db/repositories/conversations.py`) | messages, references | a turn | overlapping turns, failing stores, ordered patterns | exchanges are whole; workflows move only when asked | `Conversation` |
| Analyst turn (`soc_assistant/tool_agent.py`) | budget, evidence, stop event; prompt; page | rounds of parallel calls, prompt assembly, paging | parallel calls, interruption, limits | the budget is exact; answers rest on their evidence; requests fit; pages lose nothing | `AnalystTurn`, `AnalystRequest`, `ToolOutput` |
| Gateway clients, API, authentication, observability, front end, infrastructure | - | - | I/O | - | not modelled |

How they interact. An ingestion cycle or an analyst opens an investigation under the
*alert lease*. An API request or a worker takes the *incident lease*, invokes the
graph on the investigation's thread and projects the checkpoint into the snapshot row
(compare-and-swap on `state_version`), which in turn writes approval and action rows.
Inside the nodes run the collection, the diagnosis and the provider calls; the wrapper
of each node writes audit rows. `execute_approved` adds *target leases* and a claim of
the action rows before it resumes the graph; the executor begins and completes those
rows around its call of Wazuh. The recovery worker knows only the action rows and the
target leases. The retention job deletes underneath all of them. `PROJECT.json` lists
every component, and under "hazards" every place where these parts can go wrong in a
way a test hardly reaches.

## 2. Modules

```
LeaseOwnership  <-- implemented by --  ResourceLease            (the lease table)
                                           | its contract, with countdowns
   AlertEnqueue   AlertIngestion       ResponseLedger           (execution, verification, recovery)
                                       MapeKWorkflow            (one run of the graph, node by node)
   EvidenceCollection  SshContainment  ProviderGate    inside its nodes
                                           | phases between interrupts
                                       InvestigationService     (callers, checkpoint, snapshot)
   AuditTrail  RecordRetention         beside it, on the same rows
   FindingStore  ChangeReport  Conversation  AnalystTurn  AnalystRequest  ToolOutput

SharedTables EXTENDS ResourceLease, INSTANCEs AlertEnqueue, AlertIngestion, FindingStore, ChangeReport
Records      EXTENDS InvestigationService, INSTANCEs AuditTrail, RecordRetention, Conversation
Progress     EXTENDS ResponseLedger, INSTANCEs AlertIngestion, AnalystTurn, ToolOutput
Nodes        EXTENDS MapeKWorkflow, INSTANCEs EvidenceCollection, SshContainment,
                                    ProviderGate, AnalystRequest             (the last two use Sums)

X_proofs EXTENDS X, TLAPS        MC_X EXTENDS or INSTANCEs X     (what TLC runs)
```

**LeaseOwnership** is what a lease table promises, with no clock and no rows: a
resource is in force for at most one acquisition and passes to another only
after it was in force for none.

**ResourceLease** is the table. `row` is `ResourceLeaseRecord`; `session` is a
call path with the time it sampled (`now`) and the lease it was given; `issued`
numbers the tokens (uuid4 in the code). `StartAcquire`/`Acquire`/`AcquireConflict`,
`StartRenew`/`Renew`/`RenewConflict` and `Release` split each operation where the
code does: the time is read first, the row locked later. `Abandon` is a process
that dies or an execution that keeps its target locked. Both repositories (SQL
and in-memory) follow the same guards.

**ResponseLedger** is a temporary containment (`block_ip` with a TTL) per
incident. `status`, `execution`, `expiresIn`, `claim`, `claimAge`, `retries` are
the columns of its row; `gate` is where the checkpoint of its incident stands;
`owner`/`left` are the lease rows; `pc`, `job`, `lag`, `result`, `todo` are the
locals of executors and recovery workers; `blocked`, `calls`, `undos` are Wazuh.
Time is a set of countdowns and `Tick`; `lag` is how long ago the operation read
its clock, so a worker deciding with an old `observed_at` sees leases the way the
code does. One action per database transaction or provider call; a crash may
fall between any two.

**MapeKWorkflow** is one investigation's graph: one action per node, followed by
its router (`AfterX` is `after_x`). Evidence and policy are version numbers, a
plan is what it was built from (the code binds it by the hash of its content;
what the guards compare is kept), telemetry, model and provider are choices over
the results the node distinguishes. The interrupts take any payload: the right
one, one for another request, or nonsense.

**InvestigationService** is the layer around the graph: `thread` is the
checkpoint, `snap` the snapshot row, `ledger` the approval and action rows,
`holder` the incident lease. `op[c]` is the service call a caller is in, `pc[c]`
its position, in the order of the code: check, lease, re-check, invoke, view,
version, save, release, count a failure. An invocation of the graph is two steps,
the phase it enters and where that phase comes to rest, so that a crash, an
exception or the end of the lease can fall into it. `current` is the set of callers
whose `state_version` is still the row's, which is all the compare-and-swap tells
apart.

**AlertEnqueue**: `pc[c]` walks a call through lease, active lookup, insert, commit
and release; `status`/`of` are the investigation rows, with "pending" for an insert
that has not committed. An insert waits for an uncommitted one of its key and then
decides (the trigger's check and the index). `Migrated` is a database with migration
17; `Legacy` rows are from before it. A lease may lapse under its holder at any time.

**AlertIngestion**: a document is its place in the index's sort order and may become
searchable late. `checkpoint` and `claim` are the columns of the checkpoint row,
`redis` the fail-soft lock, `run[w]` a cycle's locals; one action per transaction.

**EvidenceCollection** and **SshContainment** are what happens inside the monitor and
analyze nodes: the first for every capability's contract (which requirements are asked
in which pass under the call budget, the status each ends with, the cache). Its `seen` is
what correlating the alerts showed: whether there were more, an SSH finding, and the
capability of the most severe alert that has one (`top`), with its field. The capability
rules go by `top`, whichever contract the case has, and measure the requirements of the case
that are for evidence `top` asks for (`Applicable`). The cache's key (`Version`) is the case,
what the alerts say and the results that are evidence; that there were more alerts is in it
only as the status of a requirement for the related ones, which three contracts have. The second is
for the SSH rules over concrete alerts (windows, limits, thresholds, model, playbook,
policy). What an SSH pass collected (`seen`) is a set: the searches cut it off by time
(`Oldest`, `Newest`), and what the code takes first of a list is the earliest. **ProviderGate** is `invoke_structured` and its sliding token window: `window[w]`
holds what window `w` (Redis, or a process) was charged, oldest first, `call[c]` the
locals of a thread's invocation, and `steady` is a history variable: Redis answered so far.

**AuditTrail**: `clock` are the events in the order of their times, `rows` the table,
`thread` the checkpoint's window; `Chain` is the loop of `_save_audit_events`, a
recursive function. Saves are bounded in the guard of `Take`, events by `EventBound`:
`MaxEvents`, and the smaller `MaxBeside` once a lease lapsed (`lapsed` is a history
variable). **RecordRetention** has one transaction of the job
interleaved with the workers that pause, reopen and finish cases.

**FindingStore**, **ChangeReport**, **Conversation**: one action per transaction of a
triage, a check, a turn. In ChangeReport a record has a stamp and becomes visible when
it commits, later. A check samples the clock (`Ask`), then reads the cursor and the filters
and settles its reference (`Refer`): the cursor if it compares and there is one, a window of
`Hours` before its sample otherwise. The first comparison of an analyst is the baseline
(`first`): it reports none of its counts as new or updated and still moves the cursor, which
the history variable `baseline` notes. What a query could not see, because it was not yet
committed or was filtered out, is noted in `missed`, and in `passed` once the check has moved
the cursor. In Conversation a message is what the router can tell of it, `turn[t]`
the locals of a request (`leaves` are the references its answer leaves, `given` how many
of them were looked at), and `calm` a history variable: no turns overlapped so far, and
nothing failed to be read or stored. The other behaviours are those of the turns in
`Crowd`, a bound.

**AnalystTurn**: rounds of parallel calls that share budget, cache and evidence, each
behind a short lock. **AnalystRequest** assembles the prompt before each request, from
tools, messages and results that are sequences as in the code; **ToolOutput** clips and
pages a result. **Sums** is the sum of a sequence, as a recursive function.

### Compositions

**SharedTables** puts the tables that workers share beside the lease table,
**Records** the audit trail, the retention job and the conversations beside the service,
and **Progress** the ingestion, the analyst's turns and the paging of their tools beside
the ledger: what has to come to an end. Each part has variables of its own; the
variable `part` chooses the one that moves in a behaviour, and the others keep an initial
state. That is sound because the parts share no variable and `part` never changes: the
behaviours are the union of the parts' own behaviours, and a property `part = "x" => P`
says `P` of that part alone. They are parameterised like the parts are. SharedTables
takes its parts from the modules of their proofs (`INSTANCE AlertEnqueue_proofs` and so
on), and Progress takes the ingestion from its, so that a theorem about a part can be cited of the whole.

**Nodes** puts the collection of evidence, the SSH rules, the calls of the provider and
the analyst's requests beside the graph they serve. Here the parts do move in one behaviour,
in any interleaving: `NodesNext` is a step of one of the five that leaves the variables of
the others alone. It states their properties, of the one instance each of them has.

### The MC modules

`MC_ResponseLedger`, `MC_MapeKWorkflow` and `MC_InvestigationService` extend one module
each, `MC_Leases` extends `SharedTables`, `MC_Records` extends `Records`, `MC_Progress`
extends `Progress` and `MC_Nodes` extends `Nodes`. `MC_Nodes` lets one part move in a
behaviour and chooses scenarios of it: for the evidence four contracts in one pass, two
in two passes with the cache, and three in two investigations of one pass each, so that the
second finds what the first left in the cache; for SSH two users by the rules, and one with the model; for the gate
three threads while Redis and the provider answer, two while either may fail, two with calls
of any size. A scenario restricts where the part begins and which of its steps are taken
(`PartsNext` is a choice of steps of `NodesNext`). Fairness is stated per part and
conditional on it. A merged property (say `TrailIsWhole`) is the conjunction of the invariants of one subject that it names.

## 3. Runs

| Run | Module | What it checks | Bounds | Outcome |
| --- | --- | --- | --- | --- |
| `lease` | `MC_Leases` | the table excludes and implements `LeaseOwnership`; opening, ingestion, findings and change reports under races | leases: 2 sessions, 2 resources, durations 1-2, 4 ticks, 3 tokens; enqueue: 2 calls, 3 rows of which 1 legacy, crashes; ingestion: 2 cycles, 2 documents, 1 fault; finding: 3 triages, 1 review, 2 alerts; report: 2 checks, 3 records, a window of 2 ticks in 4 | holds |
| `ledger_race` | `MC_ResponseLedger` | the ledger when leases do not help | 1 action, 2 executors, 2 workers, lock TTL 1 < stall 2, 1 crash, failing writes | holds |
| `ledger_shared` | `MC_ResponseLedger` | what leases add, when everybody is faster than they are | 2 incidents on one target, 2 executors, 1 worker, no crash | holds |
| `ledger_live` | `MC_Progress` | what has to end: containments, ingestion, turns, paging | ledger: 1 action, 2 executors, 2 workers, 1 crash, failing writes; ingestion: 1 worker, 3 documents, pages of 2 cut off after 1, 1 investigation per cycle, 1 fault; turns: 1 turn with 2 calls, or 2 turns with 1; output: 6 records, pages of 4 | holds |
| `workflow` | `MC_Nodes` | the graph, and what runs in its nodes | graph: 2 analyses, 1 planning retry, 2 policies, 2 requests for evidence; evidence: 4 calls, 4 contracts in 1 pass, 2 in 2 and 3 in 2 investigations, 3 capabilities or none for the most severe alert; SSH: 3 alerts, 2 users, 2 times, 2 passes, with the model 1 user and no archive; gate: 3 threads of 2 processes, windows of 4 tokens and 2 ticks, waits of 1; request: 5 tools, 4 conversations, 3 results | holds |
| `service` | `MC_Records` | callers, checkpoint and snapshot; trail, retention, conversations | service: 2 workers, 1 analyst, 2 requests, 2 attempts, 1 fault; trail: 2 drivers, 4 events, 2 once a lease lapsed, window 3 and page 2; retention: 3 ticks; talk: 3 successive turns or 2 that overlap and fail, 10 messages, 2 investigations, pages of 4, 3 messages and 3 references given | holds |
| `ledger_orphan_crash` | `MC_ResponseLedger` | is every block on record after a crash? | 1 action, 1 crash | **violated** |
| `ledger_attempts` | `MC_ResponseLedger` | are recovery calls bounded? | 1 action, 1 crash | **violated** |
| `ledger_foreign` | `MC_ResponseLedger` | is a containment safe from other workflows? | 2 incidents, one target | **violated** |
| `workflow_unverified` | `MC_MapeKWorkflow` | does an unverified outcome stay pending? | as `workflow` | **violated** |
| `service_crash` | `MC_InvestigationService` | does an execution interrupt survive a crash? | 1 worker, 1 analyst, 1 crash | **violated** |
| `service_stall` | `MC_InvestigationService` | is the incident lease exclusive? | 2 workers, 1 lapse | **violated** |

Why the bounds are enough. Leases only ever relate one row to two sessions: two
sessions with three acquisitions contain takeover, late release and late renewal.
A ledger race needs one row and two callers of each kind; `MaxStall = 2 > LockTTL`
makes a process outlive any lease and any claim, and one crash is placed
anywhere. `MaxUndos = 3` counts the inverse calls one further than `MaxRetries + 1`, so
that one too many is seen; beyond that the count says no more. `ledger_shared` needs two incidents on one target for leases to matter.
In `MapeKWorkflow` two attempts and two policies reach every branch of every
node. In `InvestigationService` one fault is enough for each recovery path; a
second analyst would add concurrent duplicate approvals, which differ from the
sequential ones only before the lease. Two enqueue calls are a winner and a loser, and
the third row is the legacy one the trigger has to see. Two documents a tick apart are
enough for one to be indexed late within the overlap; a second page only repeats the
first. Three triages put one between another's look and its lock. The SSH thresholds
are 2, so that three alerts hold a threshold and one alert too many for a limit.
Window and page of the trail are 2, so that four events overflow both; events of one
label are cut by a save and those of the other are not. Two events are enough for two
drivers to fork the chain. Two checks are a baseline and a comparison, or two baselines that
overlap; four ticks with a window of two put a record before a window. Of the capabilities the
three in `Tops` are one with a field, the one without, and the one that is surer than the
others; with the three contracts of the second investigation a case is diagnosed by the
capability of another contract too.

`SYMMETRY` is used only in `ledger_race` and `ledger_shared`, over executors and
workers, whose identities appear nowhere else. `CHECK_DEADLOCK FALSE` everywhere: a
clock stops at its bound, a workflow ends, a turn is over.

### What the properties say

| Property | Of | What it says |
| --- | --- | --- |
| `ExclusiveOwnership`, `RunningLeaseIsBacked`, `OnlyTheHolderEndsALease`, `ImplementsOwnership` | ResourceLease | unexpired leases exclude, and nobody ends somebody else's |
| `OneActivePerAlert` | AlertEnqueue | one active investigation per alert, however slow the callers are |
| `AlertsAreNewOnce` | AlertIngestion | cycles overlap only by a lapse, an alert is new once and in one finding |
| `FindingIsOfItsAlerts` | FindingStore | evidence is kept, alerts are counted once |
| `NothingSlips` | ChangeReport | what the cursor passed is of the time before a baseline or was reported, unless the query for it ran before its commit or filtered it out; a check that fails, cannot count or measures a window leaves its interval to the next |
| `LatecomersDoNoHarm` | AlertEnqueue, AlertIngestion | a late release leaves the successor's lease, a loser is answered with the winner, the mark does not go back |
| `AtMostOneForwardCall`, `VerdictsStand`, `RecoveryWaitsForExpiry`, `RolledBackIsLifted` | ResponseLedger | status and tokens alone keep Wazuh from being asked twice, late verdicts from counting, blocks from being cut short, and a rolled-back row from hiding a block |
| `OneMutatorPerTarget`, `NoOrphanedBlock`, `RollbackAttemptsBounded` | ResponseLedger | what holds while processes are faster than their leases and alive |
| `OnlyApprovedPlansReachWazuh`, `CompletedMeansContained`, `FailedContainmentIsReverted`, `AnalysisIsBudgeted` | MapeKWorkflow | what the graph may do, conclude and spend |
| `DiagnosisIsFounded`, `DiagnosesStand` | EvidenceCollection, SshContainment | where the alert names an agent, answered means asked (outside SSH, see below) and, with three calls or more, required means tried; plans wait; guessing is seen and a suspended account the only one, unless the search was cut short; a cached diagnosis is the rules' own, now, up to what its key leaves out (see below); strong diagnoses stay strong, rules outrank the model |
| `ProviderIsPaced`, `RequestIsBounded` | ProviderGate, AnalystRequest | budgets hold with and without Redis; requests fit and are trimmed in order |
| `OnlyALapseSharesTheThread`, `SnapshotNeverGoesBack`, `NoRestartAfterResponse` | InvestigationService | the last two for behaviours in which no lease lapsed: with a lapse both fail, which is what `service_stall` is about |
| `TrailIsWhole`, `MovesAreAccountedFor` | AuditTrail, Conversation | one row per event, one chain of timely events; a save loses only what no wrapper stored and lies beyond its page, a workflow moves only when asked |
| `RetentionSparesTheLive` | RecordRetention | a waiting case keeps what it is resumed from |
| `ConversationIsWhole` | Conversation | question and answer together, recent history, follow-ups about the last answer |
| `LateAndSevereAreTaken` | AlertIngestion | what is indexed late, within the overlap and ahead of the cursor of a cycle that was cut off, is stored; only a fault or the limit of a cycle drops an investigation |
| `AnswersAreAccountedFor` | AnalystTurn, ToolOutput | the budget is exact, complete answers rest on answered calls, evidence survives interruption, stops are truthful, what is delivered was read |
| `EveryContainmentSettles` (in `EverythingEnds`), `NodesGoOn`, `InvestigationIsTakenUp` | liveness | containments settle, alerts are correlated, turns and paging end, the graph comes to rest, queued work is taken up |

Every operator named `Name_Slip` is a plausible slip in `Name`: each property of a
passing run is known to fail when the slip named in `PROJECT.json` takes its place.
A merged property has one slip there; its other conjuncts are known to fail, under the
same constants, with the other slips of their modules (for instance
`AlertIngestion.Claimable_Anyone` and `Pending_All` for `AlertsAreNewOnce`,
`AuditTrail.Missing_Always`, `Previous_Unlinked` and `Ready_Early` for `TrailIsWhole`,
`ProviderGate.Endpoint_Eager` and `Counted_Retries` for `ProviderIsPaced`, `AnalystTurn.Verdict_Answers`, `Verdict_Raises` and
`Unregister_Keeps`, `ToolOutput.Delivered_Source` and `Resumes_AsFound` for
`AnswersAreAccountedFor`, `ResponseLedger.Stale_Never`, `AnalystTurn.Counted_Valid` and
`ToolOutput.Half_ToNothing` for `EverythingEnds`).

### Fairness

`ledger_live`: time passes, the recovery worker polls for ever
(`workers/orchestration.py` 71-89) and a started call is carried on; nobody is
assumed to start an execution; the ingestion worker starts cycles and carries them on,
and an expired claim or Redis lock ends by its clock; a turn that runs goes on; paging
goes on. `workflow`: `graph.invoke` runs node after node until an interrupt, and nobody
is assumed to answer one; time passes and a waiting call of the patient gate wakes.
`service`: workers cycle, a request being served goes on, and the lease of a dead
caller ends by its clock. Nothing is assumed of analysts, crashes, exceptions or of
which result a provider gives.

### Disagreements with the documentation

The six violation runs:

1. A crash (or a failing write) between the provider's answer and the ledger
   leaves a block nobody recovers (`ledger_orphan_crash`; the failing write is
   the same run with `StoreMayFail = TRUE`).
2. Taking over a stale rollback claim does not count an attempt
   (`ledger_attempts`).
3. The rollback of a failed verification takes no target lease and may lift
   another incident's block (`ledger_foreign`).
4. An outcome that could not be verified ends the workflow instead of staying
   pending (`workflow_unverified`).
5. A crash between the checkpoint of an approval and its projection leaves the
   plan approved in the thread and unexecutable in the ledger (`service_crash`).
6. The incident lease is not renewed while the graph runs (`service_stall`).

Seen while modelling, without a property: `docs/mape-k-workflow.md` 408-410 has the
rollback consider accepted, applied and executed actions, the code also
`outcome_unknown`; a verification that meets a held lease counts as a worker
failure although `_process_candidate` (775) says skipped is not failed;
`rollback_node` (1033-1036) calls an accepted inverse unsuccessful.

### What does not hold

The modules also state properties that the code does not have. TLC refutes each of
them on an instance of a few processes and records in the scenario given here; the
passing runs leave the scenario out by the constant or the filter named in the module,
or check the weaker property.

| Module: property | Scenario | Against |
| --- | --- | --- |
| AlertIngestion: `LateIndexingIsNotLost`, for `quiet` without `Ahead` | A cycle that was cut off at its page limit is continued at its cursor, without the overlap: a document indexed late before the cursor slips past (`services/wazuh/ingestion.py:140`) | `README.md:86-87` |
| AlertIngestion: `DeltaIsComplete` | What a failed cycle stored is counted as duplicate by the next one, so the delta from the last successful checkpoint misses it (`services/wazuh/ingestion.py:158`) | `README.md:84-85` |
| AnalystTurn: `StopAnswersTruthfully` | The model client cannot be built: the stop event that was registered before stays registered (`soc_assistant/tool_agent.py:3131`) | `soc_assistant/tool_agent.py:197` |
| AnalystTurn: `StopReachesEveryTurn` | Two requests of one conversation overlap: the first that ends takes the shared stop event off (`soc_assistant/tool_agent.py:216`) | `soc_assistant/tool_agent.py:195` |
| AnalystTurn: `SilenceIsReported` | The model answers nothing: the answer of the previous turn is passed on as a complete answer (`soc_assistant/tool_agent.py:3258`) | `soc_assistant/tool_agent.py:3348-3349` |
| ToolOutput: `NextOffsetIsAccepted` | A clipped last page announces an offset its tool does not accept (`soc_assistant/tool_agent.py:1215`) | `soc_assistant/tool_agent.py:1747` |
| FindingStore: `CountIsOfAlerts` | A group grows past the number of references a finding keeps: its count stays behind (`db/repositories/findings.py:472`) | `tests/test_services/test_wazuh_triage.py:244` |
| FindingStore: `VersionCountsChanges` | Feedback computes the version from a row it did not lock while an upsert moves it (`db/repositories/findings.py:659`) | `tests/test_services/test_wazuh_triage.py:276` |
| FindingStore: `NoticeIsSentOnce` | Two triages look before either has upserted: both announce the finding as new (`services/wazuh/triage/service.py:70`) | `tests/test_services/test_wazuh_triage.py:348` |
| FindingStore: `StampMovesWithChanges` | The first repeat of an unchanged finding rewrites the times of its document, and updated_at moves (`db/repositories/findings.py:485`) | `tests/test_services/test_wazuh_triage.py:241` |
| ChangeReport: `MarkIsMonotonic` | Two overlapping checks read the cursor before either writes it: the earlier one rewinds the mark (`db/repositories/alert_memory.py:639`) | `db/repositories/alert_memory.py:636-638` |
| ChangeReport: `NothingResurfaces` | Alerts and findings are counted without an upper bound: what arrives during a check is new in it and in the next (`soc_assistant/service.py:676`) | `db/repositories/alert_memory.py:637-638` |
| ChangeReport: `BaselineIsReported` | The first check counts a window and reports nothing as new, yet moves the cursor: what is older, and what it counted, is never reported as new (`soc_assistant/service.py:599`) | none; `soc_assistant/service.py:694-695` says it is meant |
| ChangeReport: `PersistedIsReported` | An analysis is stamped before a check and persisted after it: no check reports it (`soc_assistant/service.py:634`) | `orchestration/investigation_service.py:1297`, `soc_assistant/service.py:522-523` |
| Conversation: `HistoryIsRecent` | A conversation longer than a page of list_messages: the analyst is given the end of its first page for ever (`db/repositories/conversations.py:182`) | `docs/ai-soc-analyst.md:107` |
| Conversation: `FollowUpIsUnderstood` | 'any updates' is in the follow-up vocabulary, but the router takes it for a change report (`soc_assistant/router.py:220`) | `soc_assistant/service.py:125`, `soc_assistant/service.py:312` |
| AlertEnqueue: `OneActivePerAlert` | In a database made by create_all the lapse of the lease leaves two active investigations (`orchestration/investigation_service.py:213`) | `migrations/versions/20260731_17_reuse_escalated_investigations.py:17` |
| AlertEnqueue: `RefusalNamesAWorker` | A process that dies after it took the lease leaves the alert refused, for another worker that is not there (`orchestration/investigation_service.py:228`) | `orchestration/investigation_service.py:229` |
| AlertEnqueue: `OpenedIsCreated` | The ingestion joins a queued investigation and reports it as opened (`services/wazuh/ingestion.py:384`) | `services/wazuh/ingestion.py:348` |
| AuditTrail: `StoredOnce` | A monitor event with a failed inventory read is stored whole by the wrapper and cut by the save (`db/repositories/investigations.py:2246`) | `tests/test_db/test_investigation_repository.py:249` |
| AuditTrail: `OneRoot` | Two drivers append the first events at once: both find no predecessor (`db/repositories/investigations.py:2229`) | `tests/test_db/test_investigation_repository.py:270` |
| AuditTrail: `SavedIsDurable` | The checkpoint keeps more events than a save does, which drops the newest ones (`db/sanitization.py:34`) | `mape_k/schemas.py:28` |
| RecordRetention: `DecisionsAreKept` | The names the job keeps are of an earlier workflow; the nodes' decision events are deleted (`db/retention.py:29`) | `db/retention.py:1` |
| RecordRetention: `EvidenceIsStored` | Two cases cite one alert; the second stores no evidence (`db/repositories/investigations.py:2087`) | `docs/mape-k-workflow.md:437` |
| RecordRetention: `ReusableCanContinue` | An escalated case is reusable but its checkpoint is deleted like that of a finished one (`db/retention.py:91`) | `orchestration/investigation_service.py:556` |
| RecordRetention: `RecentIsKept` | A case that is reopened and escalates again keeps its first completion, and its new checkpoint is deleted at once (`db/repositories/investigations.py:1692`) | `db/repositories/investigations.py:1694` |
| RecordRetention: `WaitingKeepsItsState` | The job finds an escalated case, the analyst reopens it up to an approval, the job deletes its checkpoint (`db/retention.py:91`) | `db/repositories/investigations.py:1695` |
| AnalystRequest: `EvidenceIsWhole` | Results that exceed the budget together are replaced by notices and the turn goes on (`soc_assistant/tool_agent.py:97`) | `docs/ai-soc-analyst.md:108` |
| AnalystRequest: `HistoryIsBounded` | With a limit of 0 the slice takes the whole conversation (`soc_assistant/tool_agent.py:3037`) | `docs/ai-soc-analyst.md:97` |
| ProviderGate: `WaitEnds` | Small calls keep the window from ever being empty, and a call above the budget waits forever (`mape_k/llm.py:240`) | `mape_k/llm.py:238-239` |
| ProviderGate: `SingleWorkerIsPaced` | Redis goes away after a full window, and the process starts an empty one (`mape_k/llm.py:252`) | `mape_k/llm.py:193-194` |
| ProviderGate: `ChargedOnce` | The script charges the call, its reply is lost, and the process charges it again (`services/redis/ephemeral.py:368`) | `mape_k/llm.py:248-250` |
| EvidenceCollection: `AnsweredWasAsked` | The session read fails and its requirement is answered with nothing found (`mape_k/monitor.py:528`) | `mape_k/schemas.py:184` |
| EvidenceCollection: `AnsweredWasAsked` | An alert without an agent: what cannot be asked counts as not found (`mape_k/monitor.py:589`) | `mape_k/schemas.py:184` |
| EvidenceCollection: `CallsAreBounded` | The second SSH pass reads five sources under a budget of four (`mape_k/monitor.py:466`) | `mape_k/monitor.py:593` |
| EvidenceCollection: `CacheIsExact` | The key does not name that there were more alerts, nor an asset that was not found: the cache serves a confidence, or a need for more evidence, that the rules would not give (`mape_k/analyze.py:398`) | `docs/mape-k-workflow.md:128-129` |
| EvidenceCollection: `PlannedSawTheAlerts` | A case whose contract asks for no related alerts is investigated again, with more alerts than are returned: the cache serves the diagnosis of the time when there were not, and the case is planned (`mape_k/monitor.py:817`) | `mape_k/capabilities.py:464-465` |
| EvidenceCollection: `CacheIsSoft` | The alert is investigated again while its diagnosis is cached (`mape_k/analyze.py:409`) | `docs/mape-k-workflow.md:495` |
| EvidenceCollection: `GapAloneStopsNothing` | Archives are off, and everything else was answered (`mape_k/capabilities.py:466`) | `mape_k/schemas.py:680-682` |
| SshContainment: `BlockedIsAttacker` | The source that is blocked is the first collected one, another one guessed (`mape_k/analyze.py:343`) | `mape_k/playbooks.py:349` |
| SshContainment: `DisabledDidLogIn` | A success that names no user matches the failures of any account, which is then the one to suspend (`mape_k/monitor.py:52`) | `mape_k/playbooks.py:368-369` |
| SshContainment: `TargetIsObserved` | A model's diagnosis names a target no collected alert mentions (`mape_k/policy.py:119`) | `mape_k/playbooks.py:6-7` |
| SshContainment: `ThresholdIsMet` | The archive's copies of the alerts are counted beside the alerts (`mape_k/monitor.py:181`) | `mape_k/analyze.py:288-289` |
| SshContainment: `AdminIsNotSuspended` | An administrator mistypes, then logs in from an approved address (`mape_k/policy.py:135`) | `mape_k/playbooks.py:324` |
| SshContainment: `WideningKeeps` | The wider window fills the result with older alerts, and drops those of the first pass (`mape_k/monitor.py:115`) | `mape_k/monitor.py:83-88` |

## 4. Proofs

The theorems hold for every value of the constants that the named assumptions allow, for
any number of processes, rows and records; no bound of a run is used. Unless said
otherwise a theorem is an invariance proof: the invariant named here holds initially, every
action keeps it (one step per action, one lemma per action where it is long), and it implies
the property.

- **SharedTables_proofs: the lease table.** The invariant relates rows, sessions and the
  clock: sampled times are not in the future (`SampledInThePast`), a session that holds a
  lease has a token issued so far (`HoldersHaveTokens`), no two sessions share one
  (`TokensAreUnique`), and a session's unexpired lease is its row (`RunningLeaseIsBacked`).
  Mutual exclusion alone is not inductive: a takeover decided on an old time is harmless
  only because that time is not later than the clock. The refinement
  (`TableImplementsOwnership`) maps each operation to `Grant`, `Lapse` or a stutter.
- **SharedTables_proofs: its parts.** A behaviour of `PartsSpec` is, for each part, one of
  its specification (`PartsRunEnqueue`, `PartsRunIngestion`, ...): whichever part moves, a
  part takes a step of its own or none. The theorems of the four modules below carry over.
- **AlertEnqueue_proofs.** `EInv`: a call that inserted owns its row until it committed or
  died (`RowsOwned`), and of the rows of one alert at most one is active or about to be
  (`OneLivePerAlert`). The alert lease appears nowhere in the invariant: in a migrated
  database the trigger and the index are enough, however leases lapse and calls die.
- **AlertIngestion_proofs.** `NewInv`: a cycle works under its claim (`ClaimBacksWork`),
  what it counts as new is stored (`NewIsStored`), the clusters it has still to attach are
  disjoint and unlinked as long as no claim lapsed (`ClustersAreFree`), and an alert is
  linked to one finding (`LinksAreOne`). That the mark never goes back needs only the
  conditional write. Where a cluster starts is a recursive function; that it exists and
  that a cluster is named after one of its documents is proved from its definition by
  the least counterexample (`StartsExist`, `IdsAreOfDocuments`), not by induction.
  Two further invariants are about what may not be lost. `LateInv`: a document that was
  indexed late and is not stored is one that a later page has still to bring (`Unread`): it
  is behind neither the cursor of the running scan nor the one a truncated cycle left, and
  inside the overlap of the next scan. This is where the theorem needed the operator
  `Ahead` in the model: without it the invariant is not inductive, and TLC shows the
  document that is lost. `SevereInv`: short of a fault, a cycle that has candidates is
  still to open them, or is over and its limit left them (`CandidatesAhead`).
- **FindingStore_proofs.** `FInv`: who holds the row lock has read the current row
  (`HeldIsCurrent`), a finding without a row has no evidence and no reviewer (`RowIsThere`),
  and if the references have room for every alert they are the alerts covered and the count
  is their number (`RowsCount`).
- **ChangeReport_proofs.** `CInv`: of a write, committed or not, that the cursor has passed,
  it is settled that it lies before a baseline, was reported or was missed by the check that
  passed it (`PassedIsSettled`), and of one that a comparison under way may pass, that it is
  settled, known to the check, or in a table the check has yet to query (`IntervalIsKnown`,
  over `Stamps`, `Settled` and `Due`).
  The second theorem, that the mark never goes back, is for checks that do not overlap:
  overlapping ones rewind it (see "What does not hold").
- **Progress_proofs: the ledger, status and tokens.** `ClaimsHeld` ties an executor's position to
  the row's status and `execution` (who may call owns a row that is running under its
  name) and says that such a row, like one still `approved` or `claimed`, was not called
  for. `AtMostOneForwardCall` and `VerdictsStand` follow. `RInv` adds that the rows of a
  worker's batch were contained and have expired (`BatchesOverdue`), which gives
  `RecoveryWaitsForExpiry`. `LInv` adds that once a row is rolled back its target is
  blocked only if another row of that target was called for (`LiftsStand`), which gives
  `RolledBackIsLifted`. None of them mentions leases or counts crashes: they hold whatever
  lapses, dies or fails to be written.
- **Progress_proofs: the ledger, leases.** An operation is at most `MaxStall` behind its clock
  (`LagsBounded`), and who is between taking a target lease and its call holds that
  lease, with what is left of it and what has passed making up its TTL (`TargetsHeld`). So
  `OneMutatorPerTarget` holds if `MaxStall < LockTTL`.
- **Progress_proofs: the ledger, what is on record.** A blocked target has a row that was called
  for (`BlocksCalled`), and a row that was called for and whose block may still stand is in a
  status the recovery takes, or an executor is about to write one (`BlocksOnRecord`):
  `NoOrphanedBlock`, if nobody dies and every write succeeds.
- **Progress_proofs: the ledger, attempts.** A worker's claim is its own while it is faster than
  its lease (`BatchesHeld`), and the calls that lift a block are the attempts on record,
  one under way, and at most one per crash (`AttemptsCounted`). `AttemptsPerCrash` says what
  the code guarantees (`MaxRetries + 1` calls and one more for each crash), and
  `RollbackAttemptsBounded` is the case without a crash.
- **Nodes_proofs: the workflow.** The invariant says what each node may rely on: `Pristine` that
  nothing happened before execution, `Cleared` that execution is entered approved,
  authorized and bound, `Judging` how a result gets to its verdict, `Closing` what the
  reports rest on. `Budget` bounds the analyses, and is inductive only with the attempts
  spent so far.
- **Nodes_proofs: sums.** Windows and requests are measured by the sum of a sequence,
  a recursive function. That its partial sums exist, that a sum is a number, grows by what
  is appended (`SumAppend`) and is no larger than that of a sequence that has at least as
  much in each place (`SumCompare`) is proved from the definition by the least
  counterexample (`Upwards`), for sequences of any length.
- **Nodes_proofs: the analyst's requests.** `RequestInv`: the tools a turn binds are those
  that its intent selects (`FittedFor`), a request is cut between turns or withdraws results
  of a turn without history (`RequestOk`), one that was sent fitted, and before an error
  none of the loop's attempts did. That trimming is by priority is a fact about finite
  sets (`FittedIsByPriority`): who is dropped has fewer than k less important tools, so that a
  tool that stays is before every tool that goes. That an error means that nothing fits
  (`NothingElseFits`): the results larger than the notice that replaces them are the largest,
  so that one of the loop's attempts withdraws just these, and no prompt is smaller.
- **Nodes_proofs: the provider's gate.** `GateInv`: every window is in the order of its
  charges and within its budget but for one larger call (`WindowOk`), which an admitted
  charge (`ChargeHolds`) and pruning from the oldest entry on (`AgedHolds`) both keep; a
  call that waits has reached the primary only, fewer times than its attempts, and a call
  that was sent reached the endpoint of its attempt (`CallOk`), which orders fallback after
  primary and bounds what is counted. One sleep is enough, and the processes share one
  budget, only while Redis has answered (`SteadyOk`): then there is one window, and a
  sleeper waits no longer than the oldest entry lives, at every tick. Once Redis was lost a
  process may sleep by its own window and wake under another.
- **Nodes_proofs: the evidence of an alert.** `EvidenceInv`: the i-th answer is one the i-th
  requirement can have (`ResultOk`), which needs of the contracts that the alert itself comes
  first, that one inventory is read at most, and that a capability never requires the summary
  (`Plain`, `Capable`: proved of the tables, contract by contract). The calls counted leave
  room for what is still to be asked (`Spent`): an inventory is counted before its turn comes.
  That the cache agrees needs that the rules' diagnosis is a function of the version it is
  stored under (`EntryOk`, `RulesOf`), but for two things the version need not name: whether
  there were more alerts, and the percentage that was answered. The first is in it where a
  contract asks for related alerts (`RelatedTells`: their answer is always evidence, and says
  so), the second unless the summary of an asset counts (`AnsweredOf`: every other answer that
  counts is evidence, or follows from the case). Whether a session was read is in it because
  one is read in the second pass only. What a capability needs of an SSH case is nothing
  (`SshNeedsNothing`): the types of evidence are apart. A diagnosis of an earlier
  investigation that rests on evidence of its own is refused, and one that rests on none has
  the same names now (`IdsAgree`).
- **Nodes_proofs: the containment of SSH alerts.** `SshInv`: a search that was not cut short
  has collected all it was to find, and the first pass nothing else (`Searched`), so that the
  second has collected what the first did (`SecondPassSeesMore`). The total is compared with
  the hits without the primary alert, and that equal numbers mean equal sets is a fact about
  finite sets (`NoneMissed`). What the rules find in some alerts they find in more
  (`ClassGrows`, by cardinalities), which makes a strong diagnosis stay strong and keeps the
  model out (`Judged`). Guessing is seen because the burst the property speaks of begins
  with its earliest failure (`EarliestExists`), wherever it was counted from. The account that
  is disabled is the only one because the users of the rules' diagnosis are those of all that
  was collected (`Attributed`).
- **Nodes_proofs: the five together.** A behaviour of `NodesSpec` is one of each part
  (`PartsStandAlone`), so that the invariants and action properties of each part hold of the
  whole.
- **Records_proofs: the service.** `Owned` (who works holds the lease or lapsed), `Based`
  (a write the version accepts is based on the row it replaces), `Ordered` (without a
  lapse the snapshot is not ahead of the thread and a view about to be written is the
  checkpoint), `Fresh` (a snapshot still queued belongs to an investigation nobody
  approved), `Onward` and `Moving` (where a thread can be once a response was sent). A
  writer without the lease (`_record_worker_failure`) is harmless only through the version
  check.
- **Records_proofs: retention.** A row with a completion is of a case that is over, and
  what a worker stopped at is no longer running (`RowsAgree`); what the job found is over in
  what it read (`JobFound`); and while the workers pause, what it read is still so when it
  commits, which is what keeps the checkpoint and the snapshot of a waiting case
  (`PausedJob`). `JobFound` alone holds beside the workers, and gives what
  `RetentionSparesTheLive` says of that.
- **Records_proofs: the audit trail.** The clock tells events apart (`OneEventATime`), a
  driver holds at most one event that its view lacks (`Holding`), and what a checkpoint or
  a view remembers of a node was appended by the wrapper (`Remembered`): this holds for
  any number of drivers. As long as no lease lapsed, one of them is at work and what it
  read of the table is still true (`Sole`), so that every row points to the row before it
  or to the latest one (`Linked`) and, if nothing was cut, an event has one row (`Single`).
  That the events stored in time form one chain follows from `Linked`: of two timely
  rows with one predecessor the earlier would have the predecessor's time. What the recursive `Chain` adds to the table is
  proved from its definition by the least counterexample (`Upwards`, `ChainIs`,
  `ChainedAdds`), for events in any number and order. What a save may lose follows from
  `Remembered`, which has every event of a node stored, and from the lock on the
  snapshot's row (`OneSave`): an event that only a save stores, beyond its page.
- **Records_proofs: conversations.** What is stored of a turn follows from where it is
  (`Phased`, `Exchanged`), whoever else talks, so that an exchange is whole unless storing
  it failed. A turn that executes a command was routed to it, and of the rules only those
  that ask for a workflow start one (`RulesAre`, `CommandIs`): no context turns another
  message into one. What a turn heard stays the beginning of the conversation
  (`Listened`). That a follow-up is about the last answer is not inductive, since messages
  and references are stored one by one: in a calm conversation, whose turns follow each
  other (`Solo`), the two agree except for a reference that the busy turn has still to
  store (`Agreeing`), and what a turn was told is what the messages said when it listened
  (`Minding`).

- **Progress_proofs: its parts.** As in SharedTables, a behaviour of `ProgressSpec` is one
  of the ingestion's (`ProgressRunsIngestion`), whose theorems carry over; the turns and
  the pages have invariants here.
- **Progress_proofs: the analyst's turns.** `TurnInv`: outside "tools" no call is under way
  (`CallsInTools`), the outcomes in calls and messages have been seen (`OutcomesSeen`),
  an answer is given at the end and evidence comes only with calls (`AnsweredAtEnd`), and the
  budget is the number of calls that execute and have been spent (`Budgets`). The steps of
  a call share one lemma (`CallMovesKeep`): a call moves, its turn has seen more,
  nothing else changes. That a stop is answered truthfully needs that the registered
  event is the running turn's own (`EventIsOwn`), and that only a running turn's event is
  set by someone who asked for it (`StopsWereAsked`): both only where requests do not
  overlap and the client is built (`Alone`), for the reasons in "What does not hold".
- **Progress_proofs: paging.** `OutputInv`: as long as no page was given up, the model has
  read every record before the next offset, and every matching one when there is none
  (`ReadToHere`); what a page holds is within the matches (`PageHeld`).

### Assumptions

Each `ASSUME` is named and evaluated by TLC in the runs: budgets, TTLs and ages are
positive where the code clamps them, a tool is named once, sets of callers are disjoint,
a window is a number of hours, the most severe alert has one of the code's capabilities or
none, and `None`, `Gone` and `Dead` are nobody. Six theorems have a hypothesis of their own, because the code does not
guarantee what they say without it:

| Hypothesis | Of | Why it is there |
| --- | --- | --- |
| `FasterThanLeases` (`MaxStall < LockTTL`) | `MutatorsAreAlone`, `AttemptsPerCrash`, `AttemptsAreBounded` | A lease is not renewed during a call, whose timeout is configured apart from it. `ledger_race` has a stall longer than the lease and claims neither property |
| `Undisturbed` (`MaxCrashes = 0`, no failing write) | `BlocksAreOnRecord` | `ledger_orphan_crash` is the counterexample with one crash |
| `MaxCrashes = 0` | `AttemptsAreBounded` | `ledger_attempts` is the counterexample with one crash; `AttemptsPerCrash` is what holds with any number |
| `Migrated` | `InvestigationsAreUnique`, `LatecomersAreHarmless` | Only migration 17 brings the trigger and the index; a database made by `create_all` has two active investigations after a lapse ("What does not hold") |
| `LimitCoversAlerts` | `AlertsAreCountedOnce` | A finding keeps 20 references (`RefLimit`) and counts by them: beyond that the count stays behind (`CountIsOfAlerts` in "What does not hold"). `EvidenceSurvivesOverlap` has no such hypothesis |
| `~Overlapping` | `SerialChecksKeepTheMark` | Overlapping checks rewind the mark (`MarkIsMonotonic` in "What does not hold"). `NothingSlipsBehindTheCursor` has no such hypothesis |

### What is only model-checked

- Liveness under fairness, and `ENABLED`, are out of the prover's reach: `EverythingEnds`,
  `NodesGoOn`, `InvestigationIsTakenUp`.

Every other property of the passing runs is stated by a theorem.

Some theorems are about less than the documents promise, because the code guarantees no
more: `ConversationsAreWhole` is about the history of a conversation that fits into a page
of list_messages (`EarlyHistoryIsRecent`; `HistoryIsRecent` is what fails beyond it), and
`MovesHaveReasons` lets a save lose what lies beyond its page (`SavedIsKnown`;
`SavedIsDurable` is what fails, as `max_items` is 50 and `MAX_CHECKPOINT_AUDIT_EVENTS` 64).
`DiagnosisFounded` lets an alert without an agent, and an SSH session that could not be read,
count as answered (`AgentAnswers`; `AnsweredWasAsked` is what fails), requires three collector
calls for every requirement to be tried (`MAPEK_MAX_TOOL_CALLS_PER_STAGE` may be set lower), and
speaks of searches that were not cut short. `NothingSlipsBehindTheCursor` lets go of what is
older than a baseline and of what commits late (`BaselineIsReported` and `PersistedIsReported`
are what fails), and `DiagnosesStanding` of what the cache's key leaves out (`CacheIsExact` is
what fails).

No module uses a recursive operator; `ClusterStart` of AlertIngestion, `Chain` of
AuditTrail and `SumOf` of Sums are recursive functions.

## 5. What is left out

- Permanent actions (no TTL), plans of several actions, dry runs and no-op rows in
  `ResponseLedger` (the last two are in `MapeKWorkflow`); action types other than
  `block_ip`, whose target lease is never retained.
- The two releases at the end of `execute_approved` are one step; nothing reads
  one lease knowing the other.
- Process-local `RLock`s: they only exclude threads of one process, the models
  assume nothing of them.
- The observation deadline in `InvestigationService` (a candidate may be picked
  at any time; `MapeKWorkflow` has the deadline).
- Planner results that its registries cannot produce: neither plan nor advice, a
  plan without mutating actions (the `approved` branch of `policy_node`).
- `AlertEnqueue`: the waiting insert is decided as soon as the other one has
  committed or died; waits of the database have no timeout here.
- `ChangeReport`: a deployment without durable alert memory, which has no cursor and
  reports no change.
- `AuditTrail`: a node emits one event; the in-memory repository, step rows and the
  reports of the dead tier are left out. The chain also forks after
  `additional_evidence_requested`, which is stored late: `TimelyEventsChain` says what
  is chained in spite of that.
- `ProviderGate`: the workers' clocks agree. With the default settings the maximal
  wait (65 s) exceeds the window (60 s) and the refusal cannot be reached; the parts
  of the run set both ways. That a fallback's answer is reported under the primary's
  name is left out.
- `SshContainment`: one asset, a primary alert with an agent, one event per alert
  (Wazuh's `firedtimes` is 1), the invalid-user class counted with the weak ones, no
  confidence values. The rules and playbooks of the other capabilities are data.
- What the policy's content checks and the verifier compute from telemetry, report
  texts, wording of answers, metrics.
- Wazuh gateway and clients (HTTP, pure I/O: their outcomes, timeouts and truncated
  pages are choices in the modules), API, authentication and health, observability and
  configuration (the settings that matter are CONSTANTS), front end and infrastructure.
  `PROJECT.json` lists every component with what is modelled of it.

## 6. Plan

1. `ResponsePromise`: the abstract life of a containment (approved, in force,
   lifted or given up), implemented by `ResponseLedger`; and a composition of
   `ResponseLedger` with the snapshot projection of `InvestigationService`, for the
   rows a later projection rewrites and for verifications that crash half way.
2. A second action type in `ResponseLedger` (leases that are not retained).
