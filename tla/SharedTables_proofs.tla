------------------------- MODULE SharedTables_proofs -------------------------
(***************************************************************************)
(* Proofs about SharedTables, for any sets and bounds: what is proved of   *)
(* each part holds of it beside the others, and the lease table, which     *)
(* has no proof module of its own, does what it promises.                  *)
(***************************************************************************)
EXTENDS SharedTables, TLAPS

-----------------------------------------------------------------------------
(* The parts.  Whichever part moves, each one takes its own steps or none. *)

LEMMA PartsRunEnqueue == PartsSpec => Enqueue!Spec
<1>1. PartsInit => Enqueue!Init
  BY DEF PartsInit
<1>2. [PartsNext]_all => [Enqueue!Next]_Enqueue!vars
  BY DEF PartsNext, all, enqueueVars, Enqueue!vars, Enqueue!rows
<1> QED
  BY <1>1, <1>2, PTL DEF PartsSpec, Enqueue!Spec

LEMMA PartsRunIngestion == PartsSpec => Ingestion!Spec
<1>1. PartsInit => Ingestion!Init
  BY DEF PartsInit
<1>2. [PartsNext]_all => [Ingestion!Next]_Ingestion!vars
  BY DEF PartsNext, all, ingestionVars, Ingestion!vars, Ingestion!store, Ingestion!ghost
<1> QED
  BY <1>1, <1>2, PTL DEF PartsSpec, Ingestion!Spec

LEMMA PartsRunFindings == PartsSpec => Findings!Spec
<1>1. PartsInit => Findings!Init
  BY DEF PartsInit
<1>2. [PartsNext]_all => [Findings!Next]_Findings!vars
  BY DEF PartsNext, all, findingVars, Findings!vars
<1> QED
  BY <1>1, <1>2, PTL DEF PartsSpec, Findings!Spec

LEMMA PartsRunReport == PartsSpec => Report!Spec
<1>1. PartsInit => Report!Init
  BY DEF PartsInit
<1>2. [PartsNext]_all => [Report!Next]_Report!vars
  BY DEF PartsNext, all, reportVars, Report!vars, Report!records, Report!counts, Report!history
<1> QED
  BY <1>1, <1>2, PTL DEF PartsSpec, Report!Spec

\* Where the migrations ran, an alert never has two active investigations, however the
\* calls that enqueue it interleave, outlive their lease and die.
THEOREM InvestigationsAreUnique ==
  ASSUME Migrated
  PROVE  PartsSpec => []OneActivePerAlert
<1>1. Enqueue!Spec => [](Enqueue!TypeOK /\ Enqueue!OneActivePerAlert)
  BY EnqueueAssumption, Enqueue!InvestigationsAreUnique
<1>2. Enqueue!TypeOK /\ Enqueue!OneActivePerAlert => OneActivePerAlert
  BY DEF OneActivePerAlert
<1> QED
  BY <1>1, <1>2, PartsRunEnqueue, PTL

\* Two ingestion cycles work at once only after one outlived its claim; a document is new
\* to one cycle whatever happens; and until a claim lapses an alert is in one finding.
THEOREM NoAlertIsNewTwiceOrInTwoFindings == PartsSpec => []AlertsAreNewOnce
<1>1. Ingestion!Spec => []Ingestion!TypeOK
  BY IngestionAssumption, Ingestion!TypeCorrect
<1>2. Ingestion!Spec => []Ingestion!AlertsAreNewOnce
  BY IngestionAssumption, Ingestion!NoAlertIsNewTwiceOrInTwoFindings
<1>3. Ingestion!TypeOK /\ Ingestion!AlertsAreNewOnce => AlertsAreNewOnce
  BY DEF AlertsAreNewOnce
<1> QED
  BY <1>1, <1>2, <1>3, PartsRunIngestion, PTL

\* Triages that overlap and reviews lose no evidence of a finding, keep none of a refused
\* triage, and count every alert once, as long as the references of all alerts fit.
THEOREM AlertsAreCountedOnce ==
  ASSUME Findings!LimitCoversAlerts
  PROVE  PartsSpec => []FindingIsOfItsAlerts
<1>1. Findings!Spec => [](Findings!TypeOK /\ Findings!EvidenceIsKept)
  BY FindingsAssumption, Findings!EvidenceSurvivesOverlap
<1>2. Findings!Spec => []Findings!FindingIsOfItsAlerts
  BY FindingsAssumption, Findings!AlertsAreCountedOnce
<1>3. Findings!TypeOK /\ Findings!FindingIsOfItsAlerts => FindingIsOfItsAlerts
  BY DEF FindingIsOfItsAlerts
<1> QED
  BY <1>1, <1>2, <1>3, PartsRunFindings, PTL

\* What the cursor of the change report has passed is of the time before a baseline or was
\* reported, unless the query that had to count it came too early for its commit or filtered
\* it out, however checks overlap and however late records commit.
THEOREM NothingSlipsBehindTheCursor == PartsSpec => []NothingSlips
<1>1. Report!Spec => []Report!TypeOK
  BY ReportAssumption, Report!TypeCorrect
<1>2. Report!Spec => []Report!NothingSlips
  BY ReportAssumption, Report!NothingSlipsBehindTheCursor
<1>3. Report!TypeOK /\ Report!NothingSlips => NothingSlips
  BY DEF NothingSlips
<1> QED
  BY <1>1, <1>2, <1>3, PartsRunReport, PTL

\* A call that outlived its lease leaves its successor's and answers with the winner's
\* row; a late page does not move the high-water mark of the ingestion back.
THEOREM LatecomersAreHarmless ==
  ASSUME Migrated
  PROVE  PartsSpec => LatecomersDoNoHarm
<1>1. Enqueue!Spec => Enqueue!LatecomersDoNoHarm
  BY EnqueueAssumption, Enqueue!LatecomersAreHarmless
<1>2. Ingestion!Spec => Ingestion!HighWaterIsMonotonic
  BY IngestionAssumption, Ingestion!HighWaterMarkIsMonotonic
<1> QED
  BY <1>1, <1>2, PartsRunEnqueue, PartsRunIngestion, PTL DEF LatecomersDoNoHarm

-----------------------------------------------------------------------------
(* The lease table, on its own specification.                              *)

\* A session never acts on a time that is still to come.
SampledInThePast == \A s \in Session : session[s].now <= clock

\* A session that holds a lease has one of the tokens issued so far.
HoldersHaveTokens == \A s \in Session : Holds(s) => session[s].token \in 1 .. issued

\* No two sessions hold the same token.
TokensAreUnique ==
    \A s, t \in Session :
        /\ Holds(s) /\ Holds(t)
        /\ session[s].token = session[t].token
        => s = t

\* The inductive invariant.
IInv == /\ TypeOK
        /\ SampledInThePast
        /\ HoldersHaveTokens
        /\ TokensAreUnique
        /\ RunningLeaseIsBacked

\* An idle session is a session state.
LEMMA IdleType == Idle \in SessionState
BY ResourceAssumption DEF Idle, SessionState, NoToken

LEMMA InitIInv == Init => IInv
<1> SUFFICES ASSUME Init PROVE IInv
  OBVIOUS
<1>1. TypeOK
  BY IdleType, BoundAssumption DEF Init, TypeOK, NoRow, NoToken, Row
<1>2. \A s \in Session : ~Holds(s) /\ session[s].now = 0
  BY DEF Init, Idle, Holds
<1> QED
  BY <1>1, <1>2 DEF Init, IInv, SampledInThePast, HoldersHaveTokens,
       TokensAreUnique, RunningLeaseIsBacked, Unexpired

\* Each step preserves the types.
LEMMA TypeStep == TypeOK /\ [Next]_vars => TypeOK'
<1> SUFFICES ASSUME TypeOK, [Next]_vars PROVE TypeOK'
  OBVIOUS
<1> USE DEF TypeOK
<1>1. CASE Tick
  BY <1>1 DEF Tick
<1>2. ASSUME NEW s \in Session, NEW r \in Resource, StartAcquire(s, r)
      PROVE TypeOK'
  <2>1. [Idle EXCEPT !.pc = "acquiring", !.resource = r, !.now = clock] \in SessionState
    BY IdleType DEF SessionState
  <2> QED
    BY <1>2, <2>1 DEF StartAcquire
<1>3. ASSUME NEW s \in Session, Acquire(s)
      PROVE TypeOK'
  <2>1. PICK d \in Duration : LET r == session[s].resource
                                  until == session[s].now + d IN
          /\ row' = [row EXCEPT ![r] = [token |-> issued + 1, expires |-> until]]
          /\ session' = [session EXCEPT
                ![s] = Lessee(r, session[s].now, issued + 1, until)]
    BY <1>3 DEF Acquire
  <2>2. issued' = issued + 1 /\ issued + 1 \in 0 .. MaxToken /\ clock' = clock
    BY <1>3, BoundAssumption DEF Acquire
  <2>3. session[s] \in SessionState /\ d \in Nat
    BY DurationAssumption
  <2>4. session[s].now \in Nat /\ session[s].now + d \in Nat
    BY <2>3 DEF SessionState
  <2>5. issued + 1 \in Token
    BY <1>3, BoundAssumption DEF Acquire, Token
  <2> QED
    BY <2>1, <2>2, <2>3, <2>4, <2>5 DEF SessionState, Row, Lessee
<1>4. ASSUME NEW s \in Session, AcquireConflict(s) \/ Abandon(s)
      PROVE TypeOK'
  BY <1>4, IdleType DEF AcquireConflict, Abandon
<1>5. ASSUME NEW s \in Session, StartRenew(s) \/ RenewConflict(s)
      PROVE TypeOK'
  <2>1. session[s] \in SessionState
    OBVIOUS
  <2>2. /\ [session[s] EXCEPT !.pc = "renewing", !.now = clock] \in SessionState
        /\ [session[s] EXCEPT !.pc = "holding"] \in SessionState
    BY <2>1 DEF SessionState
  <2> QED
    BY <1>5, <2>2 DEF StartRenew, RenewConflict
<1>6. ASSUME NEW s \in Session, Renew(s)
      PROVE TypeOK'
  <2>1. PICK d \in Duration : LET r == session[s].resource
                                  until == session[s].now + d IN
          /\ row' = [row EXCEPT ![r].expires = until]
          /\ session' = [session EXCEPT
                ![s] = Lessee(r, session[s].now, session[s].token, until)]
    BY <1>6 DEF Renew
  <2>2. session[s] \in SessionState /\ d \in Nat
    BY DurationAssumption
  <2>3. session[s].now + d \in Nat
    BY <2>2 DEF SessionState
  <2>4. row[session[s].resource] \in Row
    BY <2>2 DEF SessionState
  <2>5. [row[session[s].resource] EXCEPT !.expires = session[s].now + d] \in Row
    BY <2>3, <2>4 DEF Row
  <2> QED
    BY <1>6, <2>1, <2>2, <2>3, <2>5 DEF Renew, SessionState, Lessee
<1>7. ASSUME NEW s \in Session, Release(s)
      PROVE TypeOK'
  BY <1>7, IdleType DEF Release, NoRow, NoToken, Row
<1>8. CASE UNCHANGED vars
  BY <1>8 DEF vars
<1> QED
  BY <1>1, <1>2, <1>3, <1>4, <1>5, <1>6, <1>7, <1>8 DEF Next

\* What an acquisition and a renewal do, once the duration is picked.
LEMMA AcquireFacts ==
    ASSUME NEW s \in Session, TypeOK, Acquire(s)
    PROVE  /\ session[s].pc = "acquiring"
           /\ session[s].resource \in Resource
           /\ Acquirable(session[s].resource, session[s].now)
           /\ issued' = issued + 1
           /\ clock' = clock
           /\ \E until \in Nat :
                 /\ row' = [row EXCEPT ![session[s].resource] =
                              [token |-> issued + 1, expires |-> until]]
                 /\ session' = [session EXCEPT ![s] =
                      Lessee(session[s].resource, session[s].now, issued + 1, until)]
<1>1. \A d \in Duration : session[s].now + d \in Nat
  BY DurationAssumption DEF TypeOK, SessionState
<1> QED
  BY <1>1 DEF Acquire, TypeOK, SessionState

LEMMA RenewFacts ==
    ASSUME NEW s \in Session, TypeOK, Renew(s)
    PROVE  /\ session[s].pc = "renewing"
           /\ session[s].resource \in Resource
           /\ Renewable(session[s].resource, session[s].token, session[s].now)
           /\ issued' = issued
           /\ clock' = clock
           /\ \E until \in Nat :
                 /\ row' = [row EXCEPT ![session[s].resource].expires = until]
                 /\ session' = [session EXCEPT ![s] =
                      Lessee(session[s].resource, session[s].now,
                             session[s].token, until)]
<1>1. \A d \in Duration : session[s].now + d \in Nat
  BY DurationAssumption DEF TypeOK, SessionState
<1> QED
  BY <1>1 DEF Renew, TypeOK, SessionState

\* Each step preserves what is known of the sampled times and of the tokens.
LEMMA TokenStep ==
    IInv /\ [Next]_vars =>
        SampledInThePast' /\ HoldersHaveTokens' /\ TokensAreUnique'
<1> SUFFICES ASSUME IInv, [Next]_vars
             PROVE  SampledInThePast' /\ HoldersHaveTokens' /\ TokensAreUnique'
  OBVIOUS
<1> USE DEF SampledInThePast, HoldersHaveTokens, TokensAreUnique, Holds
<1>0. /\ TypeOK /\ SampledInThePast /\ HoldersHaveTokens /\ TokensAreUnique
      /\ clock \in Nat /\ issued \in Nat /\ 0 <= clock
      /\ \A t \in Session : session[t] \in SessionState
  BY BoundAssumption DEF IInv, TypeOK
<1>1. CASE Tick
  BY <1>0, <1>1 DEF Tick, SessionState
<1>2. ASSUME NEW s \in Session, NEW r \in Resource, StartAcquire(s, r)
      PROVE  SampledInThePast' /\ HoldersHaveTokens' /\ TokensAreUnique'
  BY <1>0, <1>2 DEF StartAcquire, Idle, TypeOK
<1>3. ASSUME NEW s \in Session, Acquire(s)
      PROVE  SampledInThePast' /\ HoldersHaveTokens' /\ TokensAreUnique'
  <2>1. PICK until \in Nat : session' = [session EXCEPT ![s] =
            Lessee(session[s].resource, session[s].now, issued + 1, until)]
    BY <1>0, <1>3, AcquireFacts
  <2>2. issued' = issued + 1 /\ clock' = clock
    BY <1>0, <1>3, AcquireFacts
  <2> QED
    BY <1>0, <2>1, <2>2 DEF Lessee, TypeOK
<1>4. ASSUME NEW s \in Session, AcquireConflict(s) \/ Abandon(s) \/ Release(s)
      PROVE  SampledInThePast' /\ HoldersHaveTokens' /\ TokensAreUnique'
  BY <1>0, <1>4 DEF AcquireConflict, Abandon, Release, Idle, TypeOK
<1>5. ASSUME NEW s \in Session, StartRenew(s) \/ RenewConflict(s)
      PROVE  SampledInThePast' /\ HoldersHaveTokens' /\ TokensAreUnique'
  BY <1>0, <1>5 DEF StartRenew, RenewConflict, TypeOK, SessionState
<1>6. ASSUME NEW s \in Session, Renew(s)
      PROVE  SampledInThePast' /\ HoldersHaveTokens' /\ TokensAreUnique'
  <2>1. PICK until \in Nat : session' = [session EXCEPT ![s] =
            Lessee(session[s].resource, session[s].now, session[s].token, until)]
    BY <1>0, <1>6, RenewFacts
  <2>2. issued' = issued /\ clock' = clock /\ session[s].pc = "renewing"
    BY <1>0, <1>6, RenewFacts
  <2> QED
    BY <1>0, <2>1, <2>2 DEF Lessee, TypeOK
<1>7. CASE UNCHANGED vars
  BY <1>0, <1>7 DEF vars
<1> QED
  BY <1>1, <1>2, <1>3, <1>4, <1>5, <1>6, <1>7 DEF Next

\* The row behind a running lease carries its token.
LEMMA BackedToken ==
    ASSUME RunningLeaseIsBacked, NEW s \in Session, Unexpired(s)
    PROVE  row[session[s].resource].token = session[s].token
<1>1. row[session[s].resource] = [token |-> session[s].token,
                                  expires |-> session[s].expires]
  BY DEF RunningLeaseIsBacked
<1> QED
  BY <1>1

\* Each step keeps every running lease backed by its row.
LEMMA BackedStep == IInv /\ [Next]_vars => RunningLeaseIsBacked'
<1> SUFFICES ASSUME IInv, [Next]_vars
             PROVE  RunningLeaseIsBacked'
  OBVIOUS
<1> USE DEF RunningLeaseIsBacked, Unexpired, Holds
<1>0. /\ TypeOK /\ SampledInThePast /\ HoldersHaveTokens /\ TokensAreUnique
      /\ clock \in Nat /\ issued \in Nat
      /\ \A t \in Session : session[t] \in SessionState
      /\ \A r \in Resource : row[r] \in Row
      /\ RunningLeaseIsBacked
  BY BoundAssumption DEF IInv, TypeOK
<1>1. CASE Tick
  BY <1>0, <1>1 DEF Tick, SessionState
<1>2. ASSUME NEW s \in Session, NEW r \in Resource, StartAcquire(s, r)
      PROVE  RunningLeaseIsBacked'
  BY <1>0, <1>2 DEF StartAcquire, Idle, TypeOK
<1>3. ASSUME NEW s \in Session, Acquire(s)
      PROVE  RunningLeaseIsBacked'
  <2>1. PICK until \in Nat :
          /\ row' = [row EXCEPT ![session[s].resource] =
                       [token |-> issued + 1, expires |-> until]]
          /\ session' = [session EXCEPT ![s] =
               Lessee(session[s].resource, session[s].now, issued + 1, until)]
    BY <1>0, <1>3, AcquireFacts
  <2>2. /\ clock' = clock /\ session[s].resource \in Resource
        /\ Acquirable(session[s].resource, session[s].now)
    BY <1>0, <1>3, AcquireFacts
  <2>3. ASSUME NEW t \in Session, t # s, Unexpired(t)
        PROVE  session[t].resource # session[s].resource
    <3> SUFFICES ASSUME session[t].resource = session[s].resource PROVE FALSE
      OBVIOUS
    <3>1. row[session[s].resource] = [token |-> session[t].token,
                                      expires |-> session[t].expires]
      BY <1>0, <2>3
    <3>2. session[t].token # NoToken
      BY <1>0, <2>3 DEF HoldersHaveTokens, NoToken
    <3>3. session[t].expires <= session[s].now
      BY <2>2, <3>1, <3>2 DEF Acquirable, Exists
    <3> QED
      BY <1>0, <2>3, <3>3 DEF SampledInThePast, SessionState
  <2> QED
    BY <1>0, <2>1, <2>2, <2>3 DEF Lessee, TypeOK, SessionState
<1>4. ASSUME NEW s \in Session, AcquireConflict(s) \/ Abandon(s)
      PROVE  RunningLeaseIsBacked'
  BY <1>0, <1>4 DEF AcquireConflict, Abandon, Idle, TypeOK
<1>5. ASSUME NEW s \in Session, StartRenew(s) \/ RenewConflict(s)
      PROVE  RunningLeaseIsBacked'
  BY <1>0, <1>5 DEF StartRenew, RenewConflict, TypeOK, SessionState
<1>6. ASSUME NEW s \in Session, Renew(s)
      PROVE  RunningLeaseIsBacked'
  <2>1. PICK until \in Nat :
          /\ row' = [row EXCEPT ![session[s].resource].expires = until]
          /\ session' = [session EXCEPT ![s] =
               Lessee(session[s].resource, session[s].now, session[s].token, until)]
    BY <1>0, <1>6, RenewFacts
  <2>2. /\ clock' = clock /\ session[s].resource \in Resource
        /\ session[s].pc = "renewing"
        /\ row[session[s].resource].token = session[s].token
    BY <1>0, <1>6, RenewFacts DEF Renewable
  <2>3. row'[session[s].resource] = [token |-> session[s].token, expires |-> until]
    BY <1>0, <2>1, <2>2 DEF TypeOK, Row
  <2>4. ASSUME NEW t \in Session, t # s, Unexpired(t)
        PROVE  session[t].resource # session[s].resource
    <3>1. row[session[t].resource].token = session[t].token
      BY <1>0, <2>4, BackedToken
    <3> QED
      BY <1>0, <2>2, <2>4, <3>1 DEF TokensAreUnique
  <2> QED
    BY <1>0, <2>1, <2>2, <2>3, <2>4 DEF Lessee, TypeOK, SessionState
<1>7. ASSUME NEW s \in Session, Release(s)
      PROVE  RunningLeaseIsBacked'
  <2>1. ASSUME NEW t \in Session, t # s, Unexpired(t),
               session[t].resource = session[s].resource
        PROVE  ~Releasable(session[s].resource, session[s].token)
    <3>1. row[session[t].resource].token = session[t].token
      BY <1>0, <2>1, BackedToken
    <3> QED
      BY <1>0, <1>7, <2>1, <3>1 DEF Releasable, TokensAreUnique, Release
  <2> QED
    BY <1>0, <1>7, <2>1 DEF Release, Idle, TypeOK, SessionState
<1>8. CASE UNCHANGED vars
  BY <1>0, <1>8 DEF vars
<1> QED
  BY <1>1, <1>2, <1>3, <1>4, <1>5, <1>6, <1>7, <1>8 DEF Next

LEMMA StepIInv == IInv /\ [Next]_vars => IInv'
BY TypeStep, TokenStep, BackedStep DEF IInv

\* The inductive invariant holds of every behaviour.
THEOREM Invariance == Spec => []IInv
BY InitIInv, StepIInv, PTL DEF Spec

\* The types of ResourceLease hold for every value of its constants.
THEOREM TypeCorrect == Spec => []TypeOK
<1>1. IInv => TypeOK
  BY DEF IInv
<1> QED
  BY <1>1, Invariance, PTL

\* No lease that still runs loses its row to another acquisition.
THEOREM RunningLeasesAreBacked == Spec => []RunningLeaseIsBacked
<1>1. IInv => RunningLeaseIsBacked
  BY DEF IInv
<1> QED
  BY <1>1, Invariance, PTL

\* Two sessions never hold running leases on one resource, whatever the number of
\* sessions and resources, the durations asked for, and however late an operation
\* runs after it read the time.
THEOREM MutualExclusion == Spec => []ExclusiveOwnership
<1>1. IInv => ExclusiveOwnership
  <2> SUFFICES ASSUME IInv, NEW s \in Session, NEW t \in Session,
                      Unexpired(s), Unexpired(t),
                      session[s].resource = session[t].resource
               PROVE  s = t
    BY DEF ExclusiveOwnership
  <2>1. session[s].token = session[t].token
    BY BackedToken DEF IInv
  <2> QED
    BY <2>1 DEF IInv, TokensAreUnique, Unexpired
<1> QED
  BY <1>1, Invariance, PTL

\* A running lease ends only by an operation of the session holding its token, for
\* every value of the constants.
THEOREM HolderEndsItsLease == Spec => OnlyTheHolderEndsALease
<1> DEFINE Ended(r) == /\ Exists(r) /\ row[r].expires > clock
                       /\ row'[r].token # row[r].token
           Holder(r) == \E s \in Session : /\ Holds(s)
                                           /\ session[s].token = row[r].token
                                           /\ session'[s] = Idle
<1>1. IInv /\ [Next]_vars => \A r \in Resource : Ended(r) => Holder(r)
  <2> SUFFICES ASSUME IInv, [Next]_vars, NEW r \in Resource, Ended(r)
               PROVE  Holder(r)
    OBVIOUS
  <2>0. /\ TypeOK /\ row \in [Resource -> Row] /\ session \in [Session -> SessionState]
        /\ clock \in Nat /\ row[r] \in Row
    BY DEF IInv, TypeOK
  <2>1. ASSUME NEW s \in Session, Acquire(s)
        PROVE  FALSE
    <3>1. /\ session[s].resource = r
          /\ Acquirable(r, session[s].now)
      BY <2>0, <2>1, AcquireFacts DEF Row
    <3>2. row[r].expires <= session[s].now /\ session[s].now <= clock
      BY <3>1 DEF Acquirable, IInv, SampledInThePast
    <3> QED
      BY <2>0, <2>1, <3>2 DEF SessionState, Row
  <2>2. ASSUME NEW s \in Session, Release(s)
        PROVE  Holder(r)
    BY <2>0, <2>2 DEF Release, Releasable, Holds
  <2>3. ASSUME NEW s \in Session, Renew(s)
        PROVE  FALSE
    <3>1. PICK until \in Nat :
            row' = [row EXCEPT ![session[s].resource].expires = until]
      BY <2>0, <2>3, RenewFacts
    <3> QED
      BY <2>0, <3>1 DEF Row
  <2>4. row' # row
    OBVIOUS
  <2>5. \A s \in Session : \A q \in Resource :
          /\ ~StartAcquire(s, q) /\ ~AcquireConflict(s) /\ ~StartRenew(s)
          /\ ~RenewConflict(s) /\ ~Abandon(s)
    BY <2>4 DEF StartAcquire, AcquireConflict, StartRenew, RenewConflict, Abandon
  <2> QED
    BY <2>1, <2>2, <2>3, <2>4, <2>5 DEF Next, Tick, vars
<1> QED
  BY <1>1, Invariance, PTL DEF Spec, OnlyTheHolderEndsALease

\* The lease table implements LeaseOwnership: in every behaviour a resource goes
\* from one acquisition to another only through being in force for none.
THEOREM TableImplementsOwnership == Spec => ImplementsOwnership
<1>1. Init => Ownership!Init
  BY DEF Init, Ownership!Init, InForce, NoRow
<1>2. IInv /\ [Next]_vars => [Ownership!Next]_InForce
  <2> SUFFICES ASSUME IInv, [Next]_vars
               PROVE  Ownership!Next \/ InForce' = InForce
    BY DEF InForce
  <2>0. /\ TypeOK /\ TypeOK'
        /\ row \in [Resource -> Row] /\ row' \in [Resource -> Row]
        /\ session \in [Session -> SessionState]
        /\ clock \in Nat /\ clock' \in Nat /\ issued \in 0 .. MaxToken
    BY TypeStep DEF IInv, TypeOK
  <2>1. InForce' = [r \in Resource |-> IF row'[r].expires > clock'
                                       THEN row'[r].token ELSE NoToken]
    BY DEF InForce
  <2>2. /\ \A r \in Resource : InForce[r] \in Token \cup {NoToken}
        /\ \A r \in Resource : InForce'[r] \in Token \cup {NoToken}
    BY <2>0, <2>1 DEF InForce, Row
  <2>3. ASSUME \A r \in Resource : InForce'[r] \in {InForce[r], NoToken}
        PROVE  Ownership!Next
    <3>1. InForce' \in [Resource -> Token \cup {NoToken}]
      BY <2>1, <2>2
    <3> QED
      BY <2>3, <3>1 DEF Ownership!Next, Ownership!Lapse
  <2>4. ASSUME NEW r \in Resource, NEW k \in Token, InForce[r] = NoToken,
               InForce' = [InForce EXCEPT ![r] = k]
        PROVE  Ownership!Next
    BY <2>4 DEF Ownership!Next, Ownership!Grant
  <2>5. CASE Tick
    BY <2>0, <2>1, <2>3, <2>5 DEF Tick, InForce, Row
  <2>6. ASSUME NEW s \in Session, Acquire(s)
        PROVE  Ownership!Next
    <3>1. PICK until \in Nat :
            row' = [row EXCEPT ![session[s].resource] =
                      [token |-> issued + 1, expires |-> until]]
      BY <2>0, <2>6, AcquireFacts
    <3>2. /\ clock' = clock /\ session[s].resource \in Resource
          /\ Acquirable(session[s].resource, session[s].now)
      BY <2>0, <2>6, AcquireFacts
    <3>3. issued + 1 \in Token
      BY <2>6, <2>0, BoundAssumption DEF Acquire, Token
    <3>4. InForce[session[s].resource] = NoToken
      <4>1. session[s].now \in Nat /\ session[s].now <= clock
        BY <2>0 DEF SessionState, IInv, SampledInThePast
      <4> QED
        BY <2>0, <3>2, <4>1 DEF Acquirable, Exists, InForce, Row
    <3>5. CASE until > clock
      <4>1. InForce' = [InForce EXCEPT ![session[s].resource] = issued + 1]
        BY <2>0, <2>1, <3>1, <3>2, <3>5 DEF InForce
      <4> QED
        BY <2>4, <3>2, <3>3, <3>4, <4>1
    <3>6. CASE ~(until > clock)
      <4>1. \A r \in Resource : InForce'[r] \in {InForce[r], NoToken}
        BY <2>0, <2>1, <3>1, <3>2, <3>6 DEF InForce
      <4> QED
        BY <2>3, <4>1
    <3> QED
      BY <3>5, <3>6
  <2>7. ASSUME NEW s \in Session, Renew(s)
        PROVE  Ownership!Next
    <3> DEFINE r == session[s].resource
    <3>1. PICK until \in Nat : row' = [row EXCEPT ![r].expires = until]
      BY <2>0, <2>7, RenewFacts
    <3>2. /\ clock' = clock /\ r \in Resource
          /\ row[r].token \in Token
      BY <2>0, <2>7, RenewFacts DEF Renewable, Exists, Row
    <3>3. /\ row'[r].expires = until /\ row'[r].token = row[r].token
          /\ \A q \in Resource \ {r} : row'[q] = row[q]
      BY <2>0, <3>1, <3>2 DEF Row
    <3>4. CASE InForce[r] = NoToken /\ until > clock
      <4>1. InForce' = [InForce EXCEPT ![r] = row[r].token]
        BY <2>0, <2>1, <3>2, <3>3, <3>4 DEF InForce
      <4> QED
        BY <2>4, <3>2, <3>4, <4>1
    <3>5. CASE ~(InForce[r] = NoToken /\ until > clock)
      <4>1. \A q \in Resource : InForce'[q] \in {InForce[q], NoToken}
        BY <2>0, <2>1, <3>2, <3>3, <3>5 DEF InForce
      <4> QED
        BY <2>3, <4>1
    <3> QED
      BY <3>4, <3>5
  <2>8. ASSUME NEW s \in Session, Release(s)
        PROVE  Ownership!Next
    BY <2>0, <2>1, <2>3, <2>8 DEF Release, InForce, NoRow
  <2>9. ASSUME UNCHANGED <<clock, row>>
        PROVE  InForce' = InForce
    BY <2>9 DEF InForce
  <2> QED
    BY <2>5, <2>6, <2>7, <2>8, <2>9
       DEF Next, vars, StartAcquire, AcquireConflict, StartRenew, RenewConflict,
           Abandon
<1> QED
  BY <1>1, <1>2, Invariance, PTL DEF Spec, ImplementsOwnership, Ownership!Spec
=============================================================================
