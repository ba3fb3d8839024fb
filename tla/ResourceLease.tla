---------------------------- MODULE ResourceLease ----------------------------
(***************************************************************************)
(* The durable resource leases of InvestigationRepository: one row per     *)
(* (namespace, resource type, resource id), with a token naming the        *)
(* acquisition and an expiry.  A session is one call path that acquires a  *)
(* lease, works and releases it: an enqueue, a worker run, a trusted       *)
(* resume, an execution or a rollback of the recovery worker.  Every       *)
(* operation decides with a time it sampled before its transaction (the    *)
(* recovery worker passes the time its whole batch was claimed at), so     *)
(* the clock may run on between the two.                                   *)
(***************************************************************************)
EXTENDS Naturals

CONSTANTS Session,    \* call paths using leases
          Resource,   \* lease keys (_lease_key)
          Duration,   \* lease_seconds the callers ask for
          MaxClock,   \* bound: the clock stops here
          MaxToken    \* bound: at most this many acquisitions

\* _lease_expiry refuses a lease of less than one second.
ASSUME DurationAssumption == Duration \subseteq Nat \ {0}
ASSUME ResourceAssumption == Resource # {}
ASSUME BoundAssumption == MaxClock \in Nat /\ MaxToken \in Nat

VARIABLES clock,      \* the database's and the workers' common time
          row,        \* row[r]: the lease row of r, NoRow when there is none
          session,    \* what each session knows
          issued      \* how many tokens were generated (uuid4 in the code)

vars == <<clock, row, session, issued>>

NoToken == 0
Token   == 1 .. MaxToken
NoRow   == [token |-> NoToken, expires |-> 0]

\* What a session remembers: the operation it is about to run (pc), on which
\* resource, the time it sampled for it, and the lease it was last given.
Idle == [pc |-> "idle", resource |-> CHOOSE r \in Resource : TRUE,
         now |-> 0, token |-> NoToken, expires |-> 0]

\* Mutants are the plausible slips the properties must notice: Name_Slip stands for
\* Name with that slip made.
Lessee_Elapsed(r, now, k, until) == [pc |-> "holding", resource |-> r, now |-> now,
                                     token |-> k, expires |-> now - until]
Lessee(r, now, k, until) == [pc |-> "holding", resource |-> r, now |-> now,
                             token |-> k, expires |-> until]

Init == /\ clock = 0
        /\ row = [r \in Resource |-> NoRow]
        /\ session = [s \in Session |-> Idle]
        /\ issued = 0

-----------------------------------------------------------------------------
(* The guards of the repository, on a row and a sampled time.              *)

Exists(r) == row[r].token # NoToken

\* acquire_resource_lease: no row, or a row whose expiry is not after now.
Acquirable_Always(r, now) == TRUE
Acquirable_Early(r, now) == ~Exists(r) \/ row[r].expires <= now + 1
Acquirable(r, now) == ~Exists(r) \/ row[r].expires <= now

\* renew_resource_lease: the row carries this token and is not expired at now.
Renewable(r, k, now) == Exists(r) /\ row[r].token = k /\ row[r].expires > now

\* release_resource_lease: the row carries this token, expired or not.
Releasable_AnyToken(r, k) == Exists(r)
Releasable(r, k) == Exists(r) /\ row[r].token = k

-----------------------------------------------------------------------------
(* Operations.                                                             *)

Tick == /\ clock < MaxClock
        /\ clock' = clock + 1
        /\ UNCHANGED <<row, session, issued>>

\* The caller reads the time, then waits for the row lock.
StartAcquire(s, r) ==
    /\ session[s].pc = "idle"
    /\ session' = [session EXCEPT ![s] = [Idle EXCEPT !.pc = "acquiring",
                                                      !.resource = r,
                                                      !.now = clock]]
    /\ UNCHANGED <<clock, row, issued>>

Acquire(s) ==
    LET r == session[s].resource
        k == issued + 1 IN
    /\ session[s].pc = "acquiring"
    /\ issued < MaxToken
    /\ Acquirable(r, session[s].now)
    /\ \E d \in Duration :
          LET until == session[s].now + d IN
          /\ row' = [row EXCEPT ![r] = [token |-> k, expires |-> until]]
          /\ session' = [session EXCEPT ![s] = Lessee(r, session[s].now, k, until)]
    /\ issued' = k
    /\ UNCHANGED clock

\* ResourceLeaseConflictError: the caller has no lease.
AcquireConflict(s) ==
    /\ session[s].pc = "acquiring"
    /\ ~Acquirable(session[s].resource, session[s].now)
    /\ session' = [session EXCEPT ![s] = Idle]
    /\ UNCHANGED <<clock, row, issued>>

StartRenew(s) ==
    /\ session[s].pc = "holding"
    /\ session' = [session EXCEPT ![s].pc = "renewing", ![s].now = clock]
    /\ UNCHANGED <<clock, row, issued>>

Renew(s) ==
    LET r == session[s].resource
        k == session[s].token IN
    /\ session[s].pc = "renewing"
    /\ Renewable(r, k, session[s].now)
    /\ \E d \in Duration :
          LET until == session[s].now + d IN
          /\ row' = [row EXCEPT ![r].expires = until]
          /\ session' = [session EXCEPT ![s] = Lessee(r, session[s].now, k, until)]
    /\ UNCHANGED <<clock, issued>>

\* ResourceLeaseConflictError: the session goes on with the lease it had, which
\* is no longer in force.
RenewConflict(s) ==
    /\ session[s].pc = "renewing"
    /\ ~Renewable(session[s].resource, session[s].token, session[s].now)
    /\ session' = [session EXCEPT ![s].pc = "holding"]
    /\ UNCHANGED <<clock, row, issued>>

\* Every caller releases in a finally block and swallows the conflict of a row
\* that another acquisition took over meanwhile; an absent row returns False.
Release(s) ==
    LET r == session[s].resource IN
    /\ session[s].pc = "holding"
    /\ row' = IF Releasable(r, session[s].token)
              THEN [row EXCEPT ![r] = NoRow] ELSE row
    /\ session' = [session EXCEPT ![s] = Idle]
    /\ UNCHANGED <<clock, issued>>

\* The session ends and its row stays: the process dies, or an execution keeps
\* the target of an accepted temporary containment locked until its TTL.
Abandon(s) ==
    /\ session[s].pc \in {"holding", "renewing"}
    /\ session' = [session EXCEPT ![s] = Idle]
    /\ UNCHANGED <<clock, row, issued>>

Next == \/ Tick
        \/ \E s \in Session :
              \/ \E r \in Resource : StartAcquire(s, r)
              \/ Acquire(s) \/ AcquireConflict(s)
              \/ StartRenew(s) \/ Renew(s) \/ RenewConflict(s)
              \/ Release(s) \/ Abandon(s)

Spec == Init /\ [][Next]_vars

-----------------------------------------------------------------------------
(* Properties.                                                             *)

Row == [token : Token \cup {NoToken}, expires : Nat]
SessionState == [pc : {"idle", "acquiring", "holding", "renewing"},
                 resource : Resource, now : Nat,
                 token : Token \cup {NoToken}, expires : Nat]

\* The type invariant.
TypeOK == /\ clock \in Nat
          /\ row \in [Resource -> Row]
          /\ session \in [Session -> SessionState]
          /\ issued \in 0 .. MaxToken

Holds(s)     == session[s].pc \in {"holding", "renewing"}
Unexpired(s) == Holds(s) /\ session[s].expires > clock

\* Two sessions never work on one resource under leases that both still run: the
\* mutual exclusion every caller of acquire_resource_lease relies on.
ExclusiveOwnership ==
    \A s, t \in Session :
        /\ Unexpired(s) /\ Unexpired(t)
        /\ session[s].resource = session[t].resource
        => s = t

\* A lease that still runs is backed by its row: neither a late release, a renewal
\* nor an acquisition decided on an old time can take the row from its holder.
RunningLeaseIsBacked ==
    \A s \in Session : Unexpired(s) =>
        row[session[s].resource] = [token |-> session[s].token,
                                    expires |-> session[s].expires]

\* A row that is still in force changes hands or disappears only by an operation
\* of the session holding its token.
OnlyTheHolderEndsALease ==
    [][\A r \in Resource :
          /\ Exists(r) /\ row[r].expires > clock
          /\ row'[r].token # row[r].token
          => \E s \in Session : /\ Holds(s)
                                /\ session[s].token = row[r].token
                                /\ session'[s] = Idle]_vars

\* The abstract view: the acquisition in force is the token of an unexpired row.
InForce == [r \in Resource |-> IF row[r].expires > clock
                               THEN row[r].token ELSE NoToken]

Ownership == INSTANCE LeaseOwnership WITH inForce <- InForce

\* The table implements LeaseOwnership.
ImplementsOwnership == Ownership!Spec
=============================================================================
