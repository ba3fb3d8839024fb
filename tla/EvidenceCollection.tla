-------------------------- MODULE EvidenceCollection --------------------------
(***************************************************************************)
(* The monitor and the analyzer of one alert: what the monitor collects    *)
(* under the evidence contract of the alert's capability, what status each *)
(* requirement ends with, the evidence and the version they amount to, and *)
(* the diagnosis: from the cache, from the rules, or from the model.  An   *)
(* inconclusive diagnosis sends the monitor round again.                   *)
(*                                                                         *)
(* Telemetry is a source's answer: records, none, more than were returned, *)
(* an error, or for the archive that it is off.  Two collections are equal *)
(* evidence when their requirements ended alike.                           *)
(***************************************************************************)
EXTENDS Integers, Sequences, FiniteSets

CONSTANTS Invs,         \* investigations of the alert, one after the other
          Contracts,    \* names of the contracts the alert may have
          Tops,         \* the capabilities, or "none", of the most severe alert a case may collect
          Agents,       \* may the alert name an agent?
          MaxCalls,     \* MAPEK_MAX_TOOL_CALLS_PER_STAGE
          MaxAttempts,  \* MAPEK_MAX_ANALYSIS_ATTEMPTS
          Threshold,    \* MAPEK_ANALYSIS_CONFIDENCE_THRESHOLD, in percent
          NoDiagnosis

Answers == {"some", "none", "more", "error", "off"}

Need(collector, type) == [by |-> collector, type |-> type, required |-> TRUE, pass |-> 1]
Want(collector, type) == [by |-> collector, type |-> type, required |-> FALSE, pass |-> 1]
Later(requirement) == [requirement EXCEPT !.pass = 2]

Intrusions == {"privilege", "persistence", "command", "exfiltrate"}
Weaknesses == {"process", "file", "vulnerable", "software"}

\* The evidence requirements of the capabilities, of SSH, and of what has no capability.
IntrusionContract ==
    [name \in Intrusions |->
        CASE name = "privilege" ->
              <<Need("field", "process_identity"),
                Need("timeline", "process_and_privilege_timeline"),
                Need("detection", "privilege_and_integrity_state"),
                Want("summary", "asset_identity")>>
          [] name = "persistence" ->
              <<Need("related", "related_persistence_events"),
                Need("detection", "file_integrity_state"),
                Need("archives", "service_and_startup_activity"),
                Want("inventory", "process_inventory")>>
          [] name = "command" ->
              <<Need("field", "network_destination"),
                Need("timeline", "initiating_process_timeline"),
                Need("inventory", "listening_port_context"),
                Want("archives", "archived_network_activity")>>
          [] name = "exfiltrate" ->
              <<Need("field", "network_destination"),
                Need("timeline", "process_and_transfer_timeline"),
                Need("archives", "archived_data_access"),
                Want("inventory", "network_inventory")>>]

EndpointContract ==
    [name \in Weaknesses |->
        CASE name = "process" ->
              <<Need("field", "process_identity"),
                Need("timeline", "process_parent_timeline"),
                Need("inventory", "process_inventory"),
                Want("detection", "file_integrity_state")>>
          [] name = "file" ->
              <<Need("field", "changed_file"),
                Need("detection", "file_integrity_state"),
                Need("archives", "modifying_process_activity"),
                Want("inventory", "process_inventory")>>
          [] name = "vulnerable" ->
              <<Need("field", "vulnerability_identity"),
                Need("vulnerabilities", "installed_vulnerability_state"),
                Need("inventory", "service_exposure"),
                Want("timeline", "exploitation_timeline")>>
          [] name = "software" ->
              <<Need("field", "package_identity"),
                Need("inventory", "package_inventory"),
                Need("archives", "package_manager_activity"),
                Want("timeline", "process_timeline")>>]

OtherContract ==
    [name \in {"generic", "ssh"} |->
        CASE name = "generic" ->
              <<Need("related", "related_security_events"),
                Need("timeline", "endpoint_activity_timeline"),
                Need("summary", "asset_identity"),
                Want("inventory", "process_inventory")>>
          [] name = "ssh" ->
              <<Need("related", "authentication_timeline"),
                Later(Need("timeline", "post_login_activity")),
                Later(Need("archives", "session_archives")),
                Later(Want("detection", "file_integrity_state")),
                Want("identity", "source_asset_identity")>>]

Capabilities == Intrusions \cup Weaknesses
Contract ==
    [name \in Capabilities \cup {"generic", "ssh"} |->
        IF name \in Intrusions THEN IntrusionContract[name]
        ELSE IF name \in Weaknesses THEN EndpointContract[name]
        ELSE OtherContract[name]]

Types(name) == {Contract[name][i].type : i \in DOMAIN Contract[name]}

ContractAssumption ==
    Contracts \subseteq DOMAIN Contract /\ Tops \subseteq Capabilities \cup {"none"}
BoundAssumption ==
    /\ MaxCalls \in Nat \ {0} /\ MaxAttempts \in Nat \ {0} /\ Threshold \in 0..100
    /\ Agents \subseteq BOOLEAN
NoneAssumption == NoDiagnosis \notin [confidence : 0..100]

VARIABLES
    inv,      \* the current investigation
    case,     \* the alert: its contract, has it an agent, has it the contract's field
    stage,    \* what the workflow does next
    attempts, \* diagnoses made
    seen,     \* what correlating the alert showed
    calls,    \* collector calls counted in this pass
    made,     \* ... and those that were made
    results,  \* of the requirements, in the contract's order
    diag,     \* the diagnosis
    cached,   \* was it served from the cache?
    cache     \* diagnoses by version, until they expire

vars == <<inv, case, stage, attempts, seen, calls, made, results, diag, cached, cache>>

Requirements == Contract[case.contract]
Ssh == case.contract = "ssh"
Capable == case.contract \notin {"ssh", "generic"}
Using(collector) == {i \in DOMAIN Requirements : Requirements[i].by = collector}

\* What the alerts show: were there more than were returned, do they make an SSH finding,
\* and the capability of the most severe of them that has one, with its field.
Unseen == [truncated |-> FALSE, strong |-> FALSE, top |-> "none", field |-> FALSE]
Sights == [truncated : BOOLEAN, strong : BOOLEAN, top : Tops \cup {"none"}, field : BOOLEAN]

Init ==
    /\ inv \in Invs
    /\ case \in [contract : Contracts, agent : Agents, field : BOOLEAN]
    /\ stage = "monitor" /\ attempts = 0
    /\ seen = Unseen
    /\ calls = 0 /\ made = 0 /\ results = <<>>
    /\ diag = NoDiagnosis /\ cached = FALSE /\ cache = {}

-----------------------------------------------------------------------------
(* Monitor: correlate, read what is read ahead, then go through the        *)
(* requirements.                                                           *)

\* The second SSH pass looks at the session; it reads five sources, two of which are counted.
Enriched == Ssh /\ attempts > 0 /\ case.agent

Correlate ==
    /\ stage = "monitor"
    /\ seen' \in Sights /\ seen'.top \in Tops
    /\ seen'.strong => Ssh
    /\ Capable => seen'.top # "none"
    /\ seen'.field => seen'.top \notin {"none", "persistence"}
    \* A wider window finds at least what a narrower one found.
    /\ attempts > 0 /\ seen.truncated => seen'.truncated
    /\ results' = <<>> /\ stage' = "collect"
    /\ IF Enriched THEN calls' = 2 /\ made' = 5
       ELSE IF case.agent /\ ~Ssh
            THEN calls' = Cardinality(Using("inventory")) /\ made' = calls'
            ELSE calls' = 0 /\ made' = 0
    /\ UNCHANGED <<inv, case, attempts, diag, cached, cache>>

Result(s, kept, asked, failed) == [status |-> s, kept |-> kept, asked |-> asked, failed |-> failed]
Unasked(s) == Result(s, FALSE, FALSE, FALSE)

\* What a source's answer amounts to.  An answer without a payload leaves no evidence.
StatusOf_Unhandled(collector, answer) ==
    CASE answer = "more" -> "truncated"
      [] answer = "some" -> "collected"
      [] answer = "none" -> "not_found"
      [] answer = "error" -> "unavailable"
      [] OTHER -> "unsupported"
StatusOf_Softly(collector, answer) ==
    IF answer = "more" THEN "truncated" ELSE IF answer = "some" THEN "collected" ELSE "not_found"
StatusOf(collector, answer) ==
    CASE answer = "more" -> "truncated"
      [] answer = "some" -> "collected"
      [] answer = "none" -> "not_found"
      [] answer = "off"  -> "not_configured"
      [] answer = "error" -> "unavailable"

Leaves_OnlyRecords(collector, answer) == answer \in {"some", "more"}
Leaves(collector, answer) ==
    answer \in {"some", "more"} \/ (answer = "none" /\ collector # "summary")

Read(collector, answer) ==
    Result(StatusOf(collector, answer), Leaves(collector, answer), TRUE, answer = "error")

\* A failed session read leaves its list empty, a failed archive read its status unset.
ReadAhead(collector, answer) ==
    CASE collector = "timeline" /\ answer = "error" -> Result("not_found", TRUE, TRUE, TRUE)
      [] collector = "archives" /\ answer = "error" -> Result("not_configured", FALSE, TRUE, TRUE)
      [] OTHER -> Read(collector, answer)

\* Without an agent nothing of a session is read.
NotReadAhead(collector) ==
    CASE collector = "timeline" -> Result("not_found", TRUE, FALSE, FALSE)
      [] collector = "archives" -> Unasked("not_configured")
      [] collector = "detection" -> Unasked("unavailable")

Exhausted_ByRequirement == Cardinality(Using("inventory")) + Len(results) >= MaxCalls
Exhausted == calls >= MaxCalls

Session == Ssh /\ Requirements[Len(results) + 1].by \in {"timeline", "archives", "detection"}

Outcome(r, answer) ==
    CASE attempts + 1 < r.pass -> Unasked("deferred")
      [] r.by = "field" -> Result(IF case.field THEN "collected" ELSE "not_found", TRUE, TRUE, FALSE)
      [] r.by = "related" ->
             Result(IF seen.truncated THEN "truncated" ELSE "collected", TRUE, TRUE, FALSE)
      [] r.by = "inventory" -> IF case.agent THEN Read(r.by, answer) ELSE Unasked("unavailable")
      [] Session /\ attempts + 1 >= r.pass ->
             IF Enriched THEN ReadAhead(r.by, answer) ELSE NotReadAhead(r.by)
      [] r.by = "identity" -> Unasked("not_configured")
      [] OTHER -> IF ~case.agent THEN Unasked("not_found")
                  ELSE IF Exhausted THEN Unasked("unavailable") ELSE Read(r.by, answer)

ReadHere(r) ==
    /\ r.by \in {"timeline", "archives", "detection", "summary", "vulnerabilities"}
    /\ ~Ssh /\ case.agent /\ ~Exhausted

Collect ==
    /\ stage = "collect" /\ Len(results) < Len(Requirements)
    /\ LET r == Requirements[Len(results) + 1] IN
           /\ \E answer \in Answers :
                  /\ answer = "off" => r.by = "archives"
                  /\ answer = "more" => r.by # "summary"
                  /\ results' = Append(results, Outcome(r, answer))
           /\ calls' = IF ReadHere(r) THEN calls + 1 ELSE calls
           /\ made' = IF ReadHere(r) THEN made + 1 ELSE made
    /\ UNCHANGED <<inv, case, stage, attempts, seen, diag, cached, cache>>

Collected ==
    /\ stage = "collect" /\ Len(results) = Len(Requirements)
    /\ stage' = "analyze"
    /\ UNCHANGED <<inv, case, attempts, seen, calls, made, results, diag, cached, cache>>

-----------------------------------------------------------------------------
(* Analyze.                                                                *)

Required == {i \in DOMAIN results : Requirements[i].required}
With(statuses) == {i \in Required : results[i].status \in statuses}
Answered == With({"collected", "not_found"})
Gaps == With({"unavailable", "not_configured"})

\* What was collected is named after the investigation; the alerts are not.
Own(i) == <<inv, i, results[i].status>>
Known == {Own(i) : i \in {j \in DOMAIN results : results[j].kept}}

\* The cache's key: the fingerprint of the case, and evidence_version, the contents of the
\* alerts and of the results that are evidence, without their names.  That there were more
\* alerts is in it only as the status of a requirement for the related ones.
Alerts == [strong |-> seen.strong, top |-> seen.top, field |-> seen.field]
Kept == {<<i, results[i].status>> : i \in {j \in DOMAIN results : results[j].kept}}
Version_AlertsOnly == <<case, Alerts, {}>>
Version == <<case, Alerts, Kept>>

\* Of this case's requirements, those for evidence of a type its most severe alert asks for.
Applicable ==
    IF seen.top = "none" THEN {}
    ELSE {i \in DOMAIN results : Requirements[i].type \in Types(seen.top)}

Percent ==
    LET needed == Required \cap Applicable IN
    IF needed = {} THEN 0
    ELSE (100 * Cardinality(Answered \cap needed)) \div Cardinality(needed)
Lower(a, b) == IF a < b THEN a ELSE b

Diagnosis(by, confidence, more, ids) ==
    [by |-> by, confidence |-> confidence, more |-> more, ids |-> ids]

\* The SSH rules, unless they have nothing to say of the session that was read.
SshDiagnosis ==
    IF ~Ssh \/ (Enriched /\ ~seen.strong) THEN {}
    ELSE {Diagnosis("ssh", IF seen.strong THEN 95 ELSE 68, ~seen.strong \/ seen.truncated, {})}

Certainty == IF seen.top = "vulnerable" THEN 90 ELSE 84

\* The capability of the most severe alert, whatever the case was opened for.  Persistence is
\* the one that asks for no field.
CapabilityDiagnosis ==
    IF seen.top = "none" THEN {}
    ELSE {Diagnosis("capability", Lower(Certainty, 50 + (40 * Percent) \div 100),
                    \/ seen.truncated \/ Percent < 80
                    \/ (seen.top # "persistence" /\ ~seen.field),
                    {Own(i) : i \in {j \in Applicable : results[j].status = "collected"
                                                         /\ results[j].kept}})}

Rules == IF SshDiagnosis # {} THEN SshDiagnosis ELSE CapabilityDiagnosis

\* The model may cite what it was given, and says itself how sure it is.
ModelDiagnosis == {Diagnosis("model", c, more, {}) : c \in {0, 70, 95}, more \in BOOLEAN}

\* What is deferred can be had in another pass; a permanent gap asks for none.
Assessed_AsTold(d) == d
Assessed(d) == [d EXCEPT !.more = @ \/ With({"deferred"}) # {}]
Inconclusive(d) == d.confidence < Threshold \/ d.more

Route(d) ==
    IF ~Inconclusive(d) THEN "plan"
    ELSE IF attempts + 1 < MaxAttempts THEN "monitor" ELSE "escalated"

Hits == {entry \in cache : entry.version = Version}

Conclude(d) ==
    /\ diag' = Assessed(d) /\ stage' = Route(Assessed(d)) /\ attempts' = attempts + 1

\* A cached diagnosis is validated like any other: it may only cite this case's evidence.
FromCache ==
    /\ stage = "analyze" /\ Hits # {}
    /\ cached' = TRUE
    /\ \E entry \in Hits :
           \/ entry.diag.ids \subseteq Known /\ Conclude(entry.diag)
           \/ /\ ~(entry.diag.ids \subseteq Known)
              /\ stage' = "failed" /\ UNCHANGED <<diag, attempts>>
    /\ UNCHANGED <<inv, case, seen, calls, made, results, cache>>

FromRules ==
    /\ stage = "analyze" /\ Hits = {} /\ Rules # {}
    /\ \E d \in Rules : Conclude(d) /\ cache' = cache \cup {[version |-> Version, diag |-> d]}
    /\ cached' = FALSE
    /\ UNCHANGED <<inv, case, seen, calls, made, results>>

FromModel ==
    /\ stage = "analyze" /\ Hits = {} /\ Rules = {}
    /\ \/ \E d \in ModelDiagnosis : Conclude(d)
       \* The provider fails, or cites evidence that is not there.
       \/ stage' = "failed" /\ UNCHANGED <<diag, attempts>>
    /\ cached' = FALSE
    /\ UNCHANGED <<inv, case, seen, calls, made, results, cache>>

Expire ==
    /\ cache # {} /\ cache' = {}
    /\ UNCHANGED <<inv, case, stage, attempts, seen, calls, made, results, diag, cached>>

\* The case is over, and its alert is investigated again.
Done == stage \in {"plan", "escalated", "failed"}
Reinvestigate ==
    /\ Done
    /\ \E i \in Invs \ {inv} : inv' = i
    /\ stage' = "monitor" /\ attempts' = 0 /\ results' = <<>> /\ calls' = 0 /\ made' = 0
    /\ diag' = NoDiagnosis /\ cached' = FALSE /\ seen' = Unseen
    /\ UNCHANGED <<case, cache>>

Next ==
    \/ Correlate \/ Collect \/ Collected
    \/ FromCache \/ FromRules \/ FromModel
    \/ Expire \/ Reinvestigate

Spec == Init /\ [][Next]_vars

-----------------------------------------------------------------------------
(* Properties.                                                             *)

TypeOK ==
    /\ inv \in Invs /\ case \in [contract : Contracts, agent : Agents, field : BOOLEAN]
    /\ stage \in {"monitor", "collect", "analyze", "plan", "escalated", "failed"}
    /\ attempts \in 0..MaxAttempts /\ seen \in Sights
    /\ calls \in Nat /\ made \in Nat /\ cached \in BOOLEAN
    /\ \A i \in DOMAIN results :
           results[i].status \in {"deferred", "collected", "not_found", "truncated", "unavailable",
                                  "not_configured"}
    /\ diag = NoDiagnosis \/ diag.confidence \in 0..100

\* A diagnosis from the cache, of this investigation or an earlier one, is one the rules give
\* for what this pass collected, and rests on this case's evidence: it neither hides a session
\* that was read since nor counts evidence that was not.  Its confidence is theirs too, unless
\* an asset that was not found, which is an answer but no evidence, counts; and so is its
\* asking for more evidence, if the status of the related alerts is evidence.
SummaryCounts == \E i \in Required \cap Applicable : Requirements[i].by = "summary"
CacheAgrees ==
    [][FromCache /\ stage' # "failed" =>
         \E d \in Rules :
            /\ diag'.by = d.by /\ diag'.ids = d.ids
            /\ SummaryCounts \/ diag'.confidence = d.confidence
            /\ SummaryCounts \/ Using("related") = {} \/ diag'.more = Assessed(d).more]_vars

\* Three collector calls are enough for every contract: no requirement is given up because
\* others came before it.
EveryRequirementIsTried ==
    MaxCalls >= 3 /\ case.agent =>
        \A i \in DOMAIN results : ~results[i].asked => results[i].status \in {"deferred", "not_configured"}

\* A case is planned only after every pass its required evidence was scheduled for.
PlannedSawEverything == stage = "plan" => With({"deferred"}) = {}

\* "Statuses meaning the collector ran and answered": a requirement that counts as
\* answered was asked of its source, and the source did not fail.
AnsweredWasAsked ==
    \A i \in DOMAIN results :
        results[i].status \in {"collected", "not_found"} => results[i].asked /\ ~results[i].failed

\* It is so for an alert that names an agent and is not of SSH, whose session, when it could
\* not be read, counts as one with nothing in it.
AgentAnswers == ~Ssh /\ case.agent => AnsweredWasAsked

\* "Diagnoses ... are bound to that version" of the evidence: what the cache serves is in every
\* respect what the rules give for what this pass collected.
CacheIsExact ==
    [][FromCache /\ stage' # "failed" => \E d \in Rules : diag' = Assessed(d)]_vars

\* A case the rules diagnose is not planned while alerts it is related to were left out.
PlannedSawTheAlerts == stage = "plan" /\ diag.by # "model" => ~seen.truncated

\* "The bounded Monitor collector budget": a pass makes no more calls than it allows.
CallsAreBounded == made <= MaxCalls

\* The cache is fail-soft: what it holds never fails a case.
CacheIsSoft == cached => stage # "failed"

\* Telemetry that is permanently missing does not, by itself, keep a case from being
\* planned: the gate for that is off by default.
GapAloneStopsNothing ==
    LET missing == (Required \cap Applicable) \ Answered IN
    /\ stage = "escalated" /\ diag.by = "capability" /\ missing # {}
    /\ ~seen.truncated /\ (seen.field \/ seen.top = "persistence")
    => \E i \in missing : results[i].status # "not_configured"

=============================================================================
