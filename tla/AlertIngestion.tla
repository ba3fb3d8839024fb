---------------------------- MODULE AlertIngestion ----------------------------
(***************************************************************************)
(* Ingestion cycles over the Wazuh alert index: the background worker and  *)
(* every POST /alerts/check run one.  A document is its place in the sort  *)
(* order (@timestamp, _index, _id) of the index; it may become searchable  *)
(* long after the documents that follow it.  Redis only fails soft, the    *)
(* claim in the checkpoint row excludes, and every database transaction of *)
(* a cycle is an action, so that cycles interleave between them and a      *)
(* process may die between any two.                                        *)
(***************************************************************************)
EXTENDS Integers, FiniteSets

CONSTANTS Worker,
          Last,       \* the documents are 1..Last, in sort order
          Time, Key,  \* of a document: its timestamp, its correlation key
          Severe,     \* the documents at a rule level worth an investigation
          PageSize, MaxPages, \* WAZUH_INGESTION_PAGE_SIZE, _MAX_PAGES_PER_RUN
          Overlap,    \* WAZUH_INGESTION_OVERLAP_SECONDS
          Window,     \* the correlation window
          MaxOpen,    \* MAPEK_AUTO_INVESTIGATE_MAX_PER_CYCLE
          Submitted,  \* bound: documents analysts name in a submission
          MaxFaults,  \* bound: crashes, provider failures and lost claims
          None, Gone  \* no owner; an owner that died

Doc == 1..Last

LastAssumption == Last \in Nat
TimeAssumption == Time \in [Doc -> Nat] /\ \A d, e \in Doc : d <= e => Time[d] <= Time[e]
PageAssumption == PageSize \in Nat \ {0} /\ MaxPages \in Nat \ {0}
WindowAssumption == Overlap \in Nat /\ Window \in Nat /\ MaxOpen \in Nat /\ MaxFaults \in Nat
OwnerAssumption == None \notin Worker /\ Gone \notin Worker /\ None # Gone
SubsetAssumption == Severe \subseteq Doc /\ Submitted \subseteq Doc

VARIABLES
    indexed,    \* documents the indexer returns
    stored,     \* rows of wazuh_alerts
    linked,     \* document -> findings it is attached to (finding_alerts)
    findings,   \* rows of findings
    opened,     \* findings an investigation was queued for
    checkpoint, \* high-water mark, scan cursor, last_truncated
    claim,      \* lease_token and whether its expiry is ahead
    redis,      \* whether Redis answers, and the owner of its lock
    run,        \* what each cycle holds in memory
    reported,   \* documents a completed cycle counted as new
    lapsed,     \* a cycle has outlived its claim
    quiet,      \* documents that became searchable with no cycle running, inside the
                \* overlap and after the cursor of a truncated cycle
    capped,     \* findings a cycle left when it had opened MaxOpen
    faults      \* faults spent

store == <<stored, linked, findings, opened>>
ghost == <<reported, lapsed, quiet, capped, faults>>
vars  == <<indexed, store, checkpoint, claim, redis, run, ghost>>

Rest == [pc |-> "idle", locked |-> FALSE, since |-> 0, after |-> 0, page |-> {},
         pages |-> 0, full |-> FALSE, fresh |-> {}, todo |-> {}, doing |-> None,
         severe |-> {}, opens |-> 0]

Init ==
    /\ indexed = {} /\ stored = {} /\ linked = [d \in Doc |-> {}]
    /\ findings = {} /\ opened = {}
    /\ checkpoint = [high |-> 0, after |-> 0, truncated |-> FALSE]
    /\ claim = [owner |-> None, live |-> FALSE]
    /\ redis = [up |-> TRUE, owner |-> None]
    /\ run = [w \in Worker |-> Rest]
    /\ reported = {} /\ lapsed = FALSE /\ quiet = {} /\ capped = {} /\ faults = 0

At(w, pc) == run[w].pc = pc
Step(w, r) == run' = [run EXCEPT ![w] = r]
Quiet == \A w \in Worker : At(w, "idle")

\* The n first documents of S.
First(S, n) == {d \in S : Cardinality({e \in S : e < d}) < n}
Later(d, e) == IF d > e THEN d ELSE e
LastOf(S) == CHOOSE d \in S : \A e \in S : e <= d

-----------------------------------------------------------------------------
(* The cycle: lock, checkpoint, claim, pages.                              *)

\* A lock Redis cannot answer for counts as acquired, without a token.
Acquired == redis.up => redis.owner = None

\* Where the next scan starts: a truncated cycle is continued at its cursor.
Since(c) == IF c.high = 0 THEN 0 ELSE Time[c.high] - Overlap

Cursor_Always(c) == c.after
Cursor(c) == IF c.truncated THEN c.after ELSE 0

\* The lock is taken and the checkpoint is read before the claim.
Start(w) ==
    /\ At(w, "idle") /\ Acquired
    /\ redis' = IF redis.up THEN [redis EXCEPT !.owner = w] ELSE redis
    /\ Step(w, [Rest EXCEPT !.pc = "claim", !.locked = redis.up,
                            !.since = Since(checkpoint), !.after = Cursor(checkpoint)])
    /\ UNCHANGED <<indexed, store, checkpoint, claim, ghost>>

\* The lock is deleted only by the token that set it, and only if Redis answers.
Unlocked(w) == IF run[w].locked /\ redis.up /\ redis.owner = w
               THEN [redis EXCEPT !.owner = None] ELSE redis

Claimable_Anyone == TRUE
Claimable_NeverExpires == claim.owner = None
Claimable == claim.owner = None \/ ~claim.live

Claim(w) ==
    /\ At(w, "claim") /\ Claimable
    /\ claim' = [owner |-> w, live |-> TRUE]
    /\ Step(w, [run[w] EXCEPT !.pc = "search"])
    /\ UNCHANGED <<indexed, store, checkpoint, redis, ghost>>

ClaimRefused(w) ==
    /\ At(w, "claim") /\ ~Claimable
    /\ redis' = Unlocked(w) /\ Step(w, Rest)
    /\ UNCHANGED <<indexed, store, checkpoint, claim, ghost>>

Page(w) == First({d \in indexed : Time[d] >= run[w].since /\ d > run[w].after}, PageSize)

Search(w) ==
    /\ At(w, "search")
    /\ Step(w, [run[w] EXCEPT !.pc = "persist", !.page = Page(w)])
    /\ UNCHANGED <<indexed, store, checkpoint, claim, redis, ghost>>

\* Rows that are there already are left alone; only the others are counted.
Inserted_All(p) == p
Inserted(p) == p \ stored

\* The high-water mark is monotonic, the scan cursor is not.
Advance_Rewinds(c, p) ==
    IF p = {} THEN c ELSE [c EXCEPT !.high = LastOf(p), !.after = LastOf(p)]
Advance_Clears(c, p) ==
    IF p = {} THEN [c EXCEPT !.after = None]
    ELSE [c EXCEPT !.high = Later(@, LastOf(p)), !.after = LastOf(p)]
Advance(c, p) ==
    IF p = {} THEN c ELSE [c EXCEPT !.high = Later(@, LastOf(p)), !.after = LastOf(p)]

\* One transaction, and no look at the claim.
Persist(w) ==
    LET p == run[w].page IN
    /\ At(w, "persist")
    /\ stored' = stored \cup p
    /\ checkpoint' = Advance(checkpoint, p)
    /\ Step(w, [run[w] EXCEPT !.pc = "renew", !.page = {}, !.pages = @ + 1,
                              !.fresh = @ \cup Inserted(p),
                              !.full = Cardinality(p) >= PageSize,
                              !.after = IF p = {} THEN @ ELSE LastOf(p)])
    /\ UNCHANGED <<indexed, linked, findings, opened, claim, redis, ghost>>

More(w) == run[w].full /\ run[w].pages < MaxPages

Renewable(w) == claim.owner = w

Renew(w) ==
    /\ At(w, "renew") /\ Renewable(w)
    /\ claim' = [owner |-> w, live |-> TRUE]
    /\ Step(w, [run[w] EXCEPT !.pc = IF More(w) THEN "search" ELSE "confirm"])
    /\ UNCHANGED <<indexed, store, checkpoint, redis, ghost>>

\* Once more before correlation, which runs without looking at the claim again.
Confirm(w) ==
    /\ At(w, "confirm") /\ Renewable(w)
    /\ claim' = [owner |-> w, live |-> TRUE]
    /\ Step(w, [run[w] EXCEPT !.pc = "correlate"])
    /\ UNCHANGED <<indexed, store, checkpoint, redis, ghost>>

ClaimLost(w) ==
    /\ run[w].pc \in {"renew", "confirm"} /\ ~Renewable(w)
    /\ Step(w, [run[w] EXCEPT !.pc = "release"])
    /\ UNCHANGED <<indexed, store, checkpoint, claim, redis, ghost>>

-----------------------------------------------------------------------------
(* Correlation, and the investigations it opens by itself.                 *)

\* A cluster starts at the first pending event of its key, and holds the
\* events within a window of that start.
ClusterStart(S) ==
    LET Before(d) == {e \in S : Key[e] = Key[d] /\ e < d}
        start[d \in Doc] ==
            IF Before(d) = {} THEN d
            ELSE LET s == start[LastOf(Before(d))]
                 IN  IF Time[d] - Time[s] > Window THEN d ELSE s
    IN  start

Grouped(S, start) ==
    {[id |-> <<Key[s], Time[s]>>, members |-> {d \in S : start[d] = s}] :
        s \in {start[d] : d \in S}}

Clusters(S) == Grouped(S, ClusterStart(S))

Pending_All == stored
Pending == First({d \in stored : linked[d] = {}}, PageSize * MaxPages)

Correlate(w) ==
    /\ At(w, "correlate")
    /\ Step(w, [run[w] EXCEPT !.pc = "upsert", !.todo = Clusters(Pending)])
    /\ UNCHANGED <<indexed, store, checkpoint, claim, redis, ghost>>

Upsert(w) ==
    /\ At(w, "upsert")
    /\ \E c \in run[w].todo :
          /\ findings' = findings \cup {c.id}
          /\ Step(w, [run[w] EXCEPT !.pc = "attach", !.doing = c, !.todo = @ \ {c}])
    /\ UNCHANGED <<indexed, stored, linked, opened, checkpoint, claim, redis, ghost>>

\* Only clear, severe findings: a member at a high rule level and a verdict that agrees.
Candidates_Last(r) == IF r.doing.members \cap Severe # {} THEN {r.doing.id} ELSE r.severe
Candidates(r) == r.severe \cup (IF r.doing.members \cap Severe # {} THEN {r.doing.id} ELSE {})

Attach(w) ==
    LET c == run[w].doing IN
    /\ At(w, "attach")
    /\ linked' = [d \in Doc |-> IF d \in c.members THEN linked[d] \cup {c.id} ELSE linked[d]]
    /\ Step(w, [run[w] EXCEPT !.pc = "upsert", !.doing = None,
                              !.severe = Candidates(run[w])])
    /\ UNCHANGED <<indexed, stored, findings, opened, checkpoint, claim, redis, ghost>>

Correlated(w) ==
    /\ At(w, "upsert") /\ run[w].todo = {}
    /\ Step(w, [run[w] EXCEPT !.pc = "open"])
    /\ UNCHANGED <<indexed, store, checkpoint, claim, redis, ghost>>

\* A candidate is queued; whatever enqueue raises is logged and the next one follows.
Open(w) ==
    /\ At(w, "open") /\ run[w].opens < MaxOpen
    /\ \E f \in run[w].severe :
          /\ \/ opened' = opened \cup {f} /\ UNCHANGED faults
             \/ faults < MaxFaults /\ faults' = faults + 1 /\ UNCHANGED opened
          /\ Step(w, [run[w] EXCEPT !.severe = @ \ {f}, !.opens = @ + 1])
    /\ UNCHANGED <<indexed, stored, linked, findings, checkpoint, claim, redis,
                   reported, lapsed, quiet, capped>>

Truncated(r) == r.pages >= MaxPages /\ r.full

\* mark_ingestion_completed, whoever owns the claim by now.
Complete(w) ==
    /\ At(w, "open") /\ (run[w].severe = {} \/ run[w].opens = MaxOpen)
    /\ checkpoint' = [checkpoint EXCEPT !.truncated = Truncated(run[w])]
    /\ reported' = reported \cup run[w].fresh /\ capped' = capped \cup run[w].severe
    /\ Step(w, [run[w] EXCEPT !.pc = "release"])
    /\ UNCHANGED <<indexed, store, claim, redis, lapsed, quiet, faults>>

\* The claim and the lock are given up by their tokens, on every way out.
Release(w) ==
    /\ At(w, "release")
    /\ claim' = IF claim.owner = w THEN [owner |-> None, live |-> FALSE] ELSE claim
    /\ redis' = Unlocked(w) /\ Step(w, Rest)
    /\ UNCHANGED <<indexed, store, checkpoint, ghost>>

-----------------------------------------------------------------------------
(* What happens around the cycles.                                         *)

InOverlap(d) == Time[d] >= Since(checkpoint)
Ahead(d) == checkpoint.truncated => d > checkpoint.after

Index(d) ==
    /\ d \notin indexed
    /\ indexed' = indexed \cup {d}
    /\ quiet' = IF Quiet /\ InOverlap(d) /\ Ahead(d) THEN quiet \cup {d} ELSE quiet
    /\ UNCHANGED <<store, checkpoint, claim, redis, run, reported, lapsed, capped, faults>>

\* A validated submission stores the alert it names; the checkpoint stays.
Remember(d) ==
    /\ d \in (indexed \cap Submitted) \ stored
    /\ stored' = stored \cup {d}
    /\ UNCHANGED <<indexed, linked, findings, opened, checkpoint, claim, redis, run, ghost>>

\* The indexer, the database or the correlation raises.
Fails(w) ==
    /\ run[w].pc \in {"search", "persist", "renew", "confirm", "correlate", "upsert", "attach"}
    /\ faults < MaxFaults /\ faults' = faults + 1
    /\ Step(w, [run[w] EXCEPT !.pc = "release"])
    /\ UNCHANGED <<indexed, store, checkpoint, claim, redis, reported, lapsed, quiet, capped>>

Crash(w) ==
    /\ ~At(w, "idle") /\ faults < MaxFaults /\ faults' = faults + 1
    /\ Step(w, Rest)
    /\ claim' = IF claim.owner = w THEN [claim EXCEPT !.owner = Gone] ELSE claim
    /\ redis' = IF redis.owner = w THEN [redis EXCEPT !.owner = Gone] ELSE redis
    /\ UNCHANGED <<indexed, store, checkpoint, reported, lapsed, quiet, capped>>

\* The claim of a dead cycle expires...
Expire ==
    /\ claim.owner = Gone /\ claim.live
    /\ claim' = [claim EXCEPT !.live = FALSE]
    /\ UNCHANGED <<indexed, store, checkpoint, redis, run, ghost>>

\* ... and so does the claim of one that is slower than the lease.
Lapse ==
    /\ claim.owner \in Worker /\ claim.live
    /\ faults < MaxFaults /\ faults' = faults + 1
    /\ claim' = [claim EXCEPT !.live = FALSE] /\ lapsed' = TRUE
    /\ UNCHANGED <<indexed, store, checkpoint, redis, run, reported, quiet, capped>>

\* The lock in Redis is never renewed, and Redis comes and goes.
RedisExpires ==
    /\ redis.owner # None /\ redis' = [redis EXCEPT !.owner = None]
    /\ UNCHANGED <<indexed, store, checkpoint, claim, run, ghost>>

RedisGoes ==
    /\ redis.up /\ faults < MaxFaults /\ faults' = faults + 1
    /\ redis' = [redis EXCEPT !.up = FALSE]
    /\ UNCHANGED <<indexed, store, checkpoint, claim, run, reported, lapsed, quiet, capped>>

RedisReturns ==
    /\ ~redis.up /\ redis' = [redis EXCEPT !.up = TRUE]
    /\ UNCHANGED <<indexed, store, checkpoint, claim, run, ghost>>

Cycle(w) ==
    \/ Claim(w) \/ ClaimRefused(w) \/ Search(w) \/ Persist(w) \/ Renew(w)
    \/ Confirm(w) \/ ClaimLost(w) \/ Correlate(w) \/ Upsert(w) \/ Attach(w)
    \/ Correlated(w) \/ Open(w) \/ Complete(w) \/ Release(w)

Next ==
    \/ \E w \in Worker : Start(w) \/ Cycle(w) \/ Fails(w) \/ Crash(w)
    \/ \E d \in Doc : Index(d) \/ Remember(d)
    \/ Expire \/ Lapse \/ RedisExpires \/ RedisGoes \/ RedisReturns

Spec == Init /\ [][Next]_vars

\* The worker polls for ever, a cycle that is scheduled goes on, and leases and
\* Redis keys expire with the clock.
FairSpec ==
    /\ Spec
    /\ \A w \in Worker : WF_vars(Start(w)) /\ WF_vars(Cycle(w))
    /\ WF_vars(Expire) /\ WF_vars(RedisExpires)

-----------------------------------------------------------------------------
(* Properties.                                                             *)

FindingId == {<<Key[d], Time[d]>> : d \in Doc}
Cluster == [id : FindingId, members : SUBSET Doc]

\* Types of the rows and of what a cycle holds.
TypeOK ==
    /\ indexed \subseteq Doc /\ stored \subseteq Doc /\ linked \in [Doc -> SUBSET FindingId]
    /\ findings \subseteq FindingId /\ opened \subseteq FindingId
    /\ checkpoint \in [high : 0..Last, after : 0..Last, truncated : BOOLEAN]
    /\ claim \in [owner : Worker \cup {None, Gone}, live : BOOLEAN]
    /\ redis \in [up : BOOLEAN, owner : Worker \cup {None, Gone}]
    /\ run \in [Worker ->
          [pc : {"idle", "claim", "search", "persist", "renew", "confirm", "correlate",
                 "upsert", "attach", "open", "release"},
           locked : BOOLEAN, since : Int, after : 0..Last, page : SUBSET Doc, pages : Nat,
           full : BOOLEAN, fresh : SUBSET Doc, todo : SUBSET Cluster,
           doing : Cluster \cup {None}, severe : SUBSET FindingId, opens : Nat]]
    /\ reported \subseteq Doc /\ lapsed \in BOOLEAN /\ quiet \subseteq Doc
    /\ capped \subseteq FindingId /\ faults \in 0..MaxFaults

Working(w) == ~(At(w, "idle") \/ At(w, "claim") \/ At(w, "release"))

\* Two cycles scan and correlate at once only after one outlived its claim: neither a
\* Redis that is down, nor a lock that expired under a long cycle, nor a crash does it.
OnlyALapseOverlaps ==
    \A v, w \in Worker : Working(v) /\ Working(w) => v = w \/ lapsed

\* "Equal timestamps do not invent alerts": one document is new to one cycle only, even
\* when a cycle that lost its claim persists a page another one has read too.
NoAlertIsNewTwice ==
    \A v, w \in Worker :
        /\ v # w => run[v].fresh \cap run[w].fresh = {}
        /\ Working(w) => run[w].fresh \cap reported = {}

\* "Late indexing does not lose alerts": a document that becomes searchable between two
\* cycles, inside the overlap, stays inside it until it is stored.  Not so before the
\* cursor a truncated cycle left: the scan goes on there, while the mark moves ahead.
LateIndexingIsNotLost == \A d \in quiet : d \in stored \/ InOverlap(d)

\* An alert belongs to one finding, although clusters are computed from whatever is
\* pending at the time; only two cycles at once may attach it twice.
AlertHasOneFinding == \A d \in Doc : lapsed \/ Cardinality(linked[d]) <= 1

\* What cycles that overlap, die and outlive their claims leave: no document is new twice,
\* and as long as no claim lapsed no alert is in two findings.
AlertsAreNewOnce == OnlyALapseOverlaps /\ NoAlertIsNewTwice /\ AlertHasOneFinding

\* A severe finding is queued in the cycle that attaches its alerts, or a fault, or the
\* limit of a cycle, dropped it: no later cycle comes back to it.
OnlyAFaultDropsAnInvestigation ==
    \A d \in Severe : \A f \in linked[d] :
        \/ f \in opened \/ faults > 0 \/ f \in capped
        \/ \E w \in Worker : f \in run[w].severe

\* The high-water mark never goes back, whoever persists which page last.
HighWaterIsMonotonic == [][checkpoint'.high >= checkpoint.high]_vars

\* A stored alert is attached to a finding in the end, whatever died on the way.
StoredIsCorrelated == \A d \in Doc : d \in stored ~> linked[d] # {}

\* "A deterministic delta from the previous successful checkpoint": what is stored when
\* a cycle completes has been counted as new by it or by an earlier completed cycle.
DeltaIsComplete == [][\A w \in Worker : Complete(w) => stored \subseteq reported']_vars

=============================================================================
