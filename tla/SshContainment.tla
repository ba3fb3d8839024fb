---------------------------- MODULE SshContainment ----------------------------
(***************************************************************************)
(* From the SSH alerts of one endpoint to the containment that is put      *)
(* before an approver: what each pass of the monitor collects around the   *)
(* primary alert, what the rules make of it, what the model makes of what  *)
(* the rules decline, the playbook, its target, and the policy.            *)
(*                                                                         *)
(* An alert is one failure or one success at a time, from a source and for *)
(* a user either of which the log may not name.  The estate is what the    *)
(* indexer holds of the endpoint; alert 1 is the primary one.  The archive *)
(* holds every event a second time, under an identifier of its own.        *)
(***************************************************************************)
EXTENDS Integers, FiniteSets

CONSTANTS Others,         \* alerts besides the primary one
          IPs, Users, None,
          Times,
          Window,         \* MAPEK_CORRELATION_WINDOW_SECONDS, of the first pass
          Attempts,       \* MAPEK_MAX_ANALYSIS_ATTEMPTS
          RelatedLimit, SessionLimit, ArchiveLimit,
          BruteWindow, BruteFailures, SprayWindow, SprayUsers, SprayFailures, SuccessWindow,
          AdminIPs,       \* MAPEK_APPROVED_ADMIN_IPS
          ProtectedIPs, ProtectedUsers,
          Semantic        \* may the model diagnose and select?

BoundAssumption ==
    /\ Others \in Nat /\ Times \subseteq Nat /\ Attempts \in Nat \ {0} /\ Window \in Nat
    /\ {RelatedLimit, SessionLimit, ArchiveLimit} \subseteq Nat
    /\ {BruteFailures, SprayUsers, SprayFailures} \subseteq Nat \ {0}
    /\ {BruteWindow, SprayWindow, SuccessWindow} \subseteq Nat
ListAssumption ==
    /\ None \notin IPs \cup Users /\ AdminIPs \cup ProtectedIPs \subseteq IPs
    /\ ProtectedUsers \subseteq Users /\ Semantic \in BOOLEAN

VARIABLES
    estate,    \* the endpoint's SSH alerts
    archives,  \* are archives indexed?
    pass,      \* collection passes begun
    seen,      \* what the pass collected
    truncated, \* were there more related alerts than were returned?
    diag,      \* the diagnosis
    plan,      \* the containment
    stage

vars == <<estate, archives, pass, seen, truncated, diag, plan, stage>>

Alert == [at : Times, ip : IPs \cup {None}, user : Users \cup {None}, ok : BOOLEAN]
Ids == 1..Others + 1
NoDiagnosis == [type |-> "none", by |-> "none", ip |-> None, users |-> {}, more |-> FALSE]
NoPlan == [do |-> "nothing", target |-> None]

Init ==
    /\ estate \in [Ids -> Alert] /\ archives \in BOOLEAN
    /\ pass = 0 /\ seen = {} /\ truncated = FALSE
    /\ diag = NoDiagnosis /\ plan = NoPlan /\ stage = "monitor"

-----------------------------------------------------------------------------
(* Monitor.                                                                *)

\* Each pass looks further than the one before.
Near(i, p) ==
    LET apart == estate[i].at - estate[1].at IN apart <= p * Window /\ -apart <= p * Window

\* The indexer returns the oldest first, and no more than the limit; the archive the newest.
Before(i, j) == estate[i].at < estate[j].at \/ (estate[i].at = estate[j].at /\ i < j)
Oldest(ids, limit) == {i \in ids : Cardinality({j \in ids : Before(j, i)}) < limit}
Newest(ids, limit) == {i \in ids : Cardinality({j \in ids : Before(i, j)}) < limit}

\* The related alerts of a primary that names its source are those of the source.
RelatedTo_OfUser(p) ==
    {i \in Ids : Near(i, p) /\ estate[i].ip = estate[1].ip /\ estate[i].user = estate[1].user}
RelatedTo(p) ==
    {i \in Ids : Near(i, p) /\ (estate[1].ip # None => estate[i].ip = estate[1].ip)}

\* The archive is searched for the primary's user, or else its source.  Its documents have
\* their own identifiers.
Copy(i) == i + Others + 1
Original(id) == IF id > Others + 1 THEN id - (Others + 1) ELSE id
Event(id) == estate[Original(id)]

Mentioned(i) ==
    IF estate[1].user # None THEN estate[i].user = estate[1].user
    ELSE estate[1].ip # None => estate[i].ip = estate[1].ip

FromArchive(p) ==
    {Copy(i) : i \in Newest({i \in Ids : Near(i, p) /\ Mentioned(i)}, ArchiveLimit)}

\* The second pass adds the endpoint's session, whatever its source, and the archive.
Session(p) ==
    IF p = 1 THEN {}
    ELSE Oldest({i \in Ids : Near(i, p)}, SessionLimit)
         \cup (IF archives THEN FromArchive(p) ELSE {})

Monitor ==
    /\ stage = "monitor"
    /\ LET p == pass + 1
           related == Oldest(RelatedTo(p), RelatedLimit)
       IN /\ pass' = p
          /\ seen' = {1} \cup related \cup Session(p)
          \* The primary alert itself is among the hits; it is taken off the total.
          /\ truncated' = (Cardinality(RelatedTo(p)) - 1 > Cardinality(related \ {1}))
    /\ stage' = "analyze"
    /\ UNCHANGED <<estate, archives, diag, plan>>

-----------------------------------------------------------------------------
(* Analyze: the SSH rules.                                                 *)

Failures == {id \in seen : ~Event(id).ok}
Successes == {id \in seen : Event(id).ok}

\* A missing source or user matches every other.
Alike(a, b) == a = b \/ a = None \/ b = None
SameSubject(f, s) == Alike(Event(f).ip, Event(s).ip) /\ Alike(Event(f).user, Event(s).user)
SuccessAfter(f, s) ==
    /\ Event(f).at < Event(s).at /\ Event(s).at - Event(f).at <= SuccessWindow
    /\ SameSubject(f, s)

From(first, ids, span) ==
    {id \in ids : Event(id).at >= Event(first).at /\ Event(id).at - Event(first).at <= span}
Named_Unfiltered(ids) == {Event(id).user : id \in ids}
Named(ids) == {Event(id).user : id \in ids} \ {None}

\* Failures of one source for one user, and of one source for many.
Guesses(ip, user) == {id \in Failures : Event(id).ip = ip /\ Event(id).user = user}
SprayedBy(ip) == {id \in Failures : Event(id).ip = ip}

BruteFrom(ip) ==
    \E user \in Users \cup {None} : \E first \in Guesses(ip, user) :
        Cardinality(From(first, Guesses(ip, user), BruteWindow)) >= BruteFailures
SprayFrom(ip) ==
    \E first \in SprayedBy(ip) :
        LET burst == From(first, SprayedBy(ip), SprayWindow) IN
            Cardinality(burst) >= SprayFailures /\ Cardinality(Named(burst)) >= SprayUsers

Succeeded == \E f \in Failures, s \in Successes : SuccessAfter(f, s)

Class ==
    IF Succeeded THEN "success"
    ELSE IF \E ip \in IPs \cup {None} : SprayFrom(ip) THEN "spray"
    ELSE IF \E ip \in IPs \cup {None} : BruteFrom(ip) THEN "brute"
    ELSE "weak"
Strong == {"success", "spray", "brute"}

\* The source that is named is the first that any collected alert names, in the order they
\* were collected: the primary one, then the oldest, then the archive.  The users are all.
Sources == {id \in seen : Event(id).ip # None}
Source ==
    IF 1 \in Sources \/ Sources = {} THEN {estate[1].ip}
    ELSE IF Sources \cap Ids # {} THEN {estate[i].ip : i \in Oldest(Sources \cap Ids, 1)}
    ELSE {estate[i].ip : i \in Newest({Original(id) : id \in Sources}, 1)}

Accounts == Named(seen)

\* In the first pass evidence that the case requires is still deferred.
Deferred(p) == p = 1

RuleDiagnoses ==
    {[type |-> Class, by |-> "rules", ip |-> ip, users |-> Accounts,
      more |-> Class = "weak" \/ truncated \/ ip = None \/ Deferred(pass)] : ip \in Source}

ModelDiagnoses ==
    [type : Strong \cup {"other"}, by : {"model"}, ip : IPs \cup {None},
     users : SUBSET Users, more : BOOLEAN]

\* What the second pass leaves weak is not for the rules.
Declined_AnyLatePass == pass > 1
Declined == pass > 1 /\ Class = "weak"

Onward(d) ==
    IF ~d.more THEN "plan" ELSE IF pass < Attempts THEN "monitor" ELSE "escalated"

Analyze ==
    /\ stage = "analyze"
    /\ \/ /\ ~Declined
          /\ \E d \in RuleDiagnoses : diag' = d
       \/ /\ Declined /\ Semantic
          /\ \E d \in ModelDiagnoses : diag' = d
    /\ stage' = Onward(diag')
    /\ UNCHANGED <<estate, archives, pass, seen, truncated, plan>>

\* The provider fails, or says it needs more.
GiveUp ==
    /\ stage = "analyze" /\ Declined
    /\ stage' = "escalated"
    /\ UNCHANGED <<estate, archives, pass, seen, truncated, diag, plan>>

-----------------------------------------------------------------------------
(* Plan and policy.                                                        *)

Playbook == [brute |-> "block", spray |-> "block", success |-> "disable"]

\* The builders take their target from the diagnosis, or refuse.
Build_FirstUser(type) ==
    IF Playbook[type] = "block"
    THEN IF diag.ip = None THEN {} ELSE {[do |-> "block", target |-> diag.ip]}
    ELSE {[do |-> "disable", target |-> u] : u \in diag.users}
Build(type) ==
    IF Playbook[type] = "block"
    THEN IF diag.ip = None THEN {} ELSE {[do |-> "block", target |-> diag.ip]}
    ELSE IF Cardinality(diag.users) # 1 THEN {}
         ELSE {[do |-> "disable", target |-> u] : u \in diag.users}

\* A type the catalogue does not publish is put to the model, which may name one that it does.
Selected == IF diag.type \in Strong THEN {diag.type} ELSE IF Semantic THEN Strong ELSE {}

Plan ==
    /\ stage = "plan"
    /\ \E type \in Selected :
           /\ diag' = [diag EXCEPT !.type = type]
           /\ \E p \in Build(type) : plan' = p
    /\ stage' = "policy"
    /\ UNCHANGED <<estate, archives, pass, seen, truncated>>

\* Guidance instead of a plan.
Advise ==
    /\ stage = "plan"
    /\ diag.type \in Strong => Build(diag.type) = {}
    /\ stage' = "advised"
    /\ UNCHANGED <<estate, archives, pass, seen, truncated, diag, plan>>

Allowed ==
    /\ plan.do = "block" =>
           plan.target = diag.ip /\ plan.target \notin ProtectedIPs \cup AdminIPs
    /\ plan.do = "disable" => plan.target \notin ProtectedUsers

Policy ==
    /\ stage = "policy"
    /\ stage' = IF Allowed THEN "approval" ELSE "escalated"
    /\ UNCHANGED <<estate, archives, pass, seen, truncated, diag, plan>>

Next == Monitor \/ Analyze \/ GiveUp \/ Plan \/ Advise \/ Policy
Spec == Init /\ [][Next]_vars

-----------------------------------------------------------------------------
(* Properties.                                                             *)

TypeOK ==
    /\ estate \in [Ids -> Alert] /\ archives \in BOOLEAN /\ truncated \in BOOLEAN
    /\ pass \in 0..Attempts
    /\ seen \subseteq Ids \cup {Copy(i) : i \in Ids}
    /\ diag.type \in Strong \cup {"none", "weak", "other"} /\ diag.ip \in IPs \cup {None}
    /\ diag.users \subseteq Users /\ diag.more \in BOOLEAN
    /\ plan = NoPlan \/ (plan.do = "block" /\ plan.target \in IPs)
                      \/ (plan.do = "disable" /\ plan.target \in Users)
    /\ stage \in {"monitor", "analyze", "plan", "policy", "approval", "advised", "escalated"}

\* What the first pass established, the second, which looks at more, does not take back, as
\* long as its search returned all there was.
Rank == [weak |-> 0, brute |-> 1, spray |-> 2, success |-> 3]
StrongStaysStrong ==
    [][Monitor /\ pass = 1 /\ ~truncated' => Rank[Class'] >= Rank[Class]]_vars

\* Password guessing by the primary alert's source against one account, near the alert,
\* is not missed when the search was not truncated.
GuessedNear(p) ==
    \E user \in Users : \E first \in Ids :
        Cardinality({i \in Ids :
            /\ Near(i, p) /\ ~estate[i].ok
            /\ estate[i].ip = estate[1].ip /\ estate[i].user = user
            /\ estate[i].at >= estate[first].at
            /\ estate[i].at - estate[first].at <= BruteWindow}) >= BruteFailures
GuessingIsSeen ==
    stage = "analyze" /\ ~truncated /\ estate[1].ip # None /\ GuessedNear(pass) => Class \in Strong

\* An account is only put forward for suspension when no other account occurs in the
\* alerts the rules judged.
DisabledIsTheOnlyAccount ==
    stage = "approval" /\ plan.do = "disable" /\ diag.by = "rules" => Named(seen) = {plan.target}

\* The model is not asked in the second pass about a case that the rules found strong in the
\* first, as long as the search returned all there was.
RulesOutrankModel ==
    [][Analyze /\ pass = 2 /\ ~truncated /\ diag.by = "rules" /\ diag.type \in Strong
           => diag'.by = "rules"]_vars

\* "Temporarily contain the correlated SSH password-guessing source": the source that is
\* blocked is one that guessed.
BlockedIsAttacker ==
    stage = "approval" /\ plan.do = "block" /\ diag.by = "rules" =>
        BruteFrom(plan.target) \/ SprayFrom(plan.target)

\* "Suspend the account that authenticated successfully after repeated failures".
DisabledDidLogIn ==
    stage = "approval" /\ plan.do = "disable" /\ diag.by = "rules" =>
        \E s \in Successes : Event(s).user = plan.target

\* "it can never author executable actions, targets, TTLs, or checks": a target is one that
\* the collected alerts name, also when the model gave the diagnosis.
TargetIsObserved ==
    stage = "approval" => \E id \in seen : plan.target \in {Event(id).ip, Event(id).user}

\* "Repeated SSH authentication failures met the configured brute-force thresholds": as
\* many failures as the threshold asks for did happen.
ThresholdIsMet ==
    stage = "approval" /\ diag.by = "rules" /\ diag.type = "brute" =>
        \E ip \in IPs \cup {None} : Cardinality({i \in Ids : ~estate[i].ok /\ estate[i].ip = ip}) >= BruteFailures

\* "source_not_approved_admin", a precondition of the suspension: no approved administrator's
\* login brings it about.
AdminIsNotSuspended ==
    stage = "approval" /\ plan.do = "disable" /\ diag.by = "rules" =>
        \A s \in Successes : Event(s).user = plan.target => Event(s).ip \notin AdminIPs

\* "Widen the window on each re-collect pass": the next pass collects what this one did.
WideningKeeps == [][Monitor /\ pass > 0 => seen \subseteq seen']_vars

=============================================================================
