----------------------------- MODULE AlertEnqueue -----------------------------
(***************************************************************************)
(* Opening investigations.  The API, the assistant and the ingestion ask   *)
(* for an investigation of an alert, each in a process of its own: a call  *)
(* takes the 30 s lease of the alert, looks for an active investigation,   *)
(* inserts a queued one and releases the lease.  Below the lease there is, *)
(* in a migrated database, a partial unique index and an insert trigger.   *)
(* Meanwhile the workflow moves the rows on.  A lease may lapse at any     *)
(* time after it was taken: a call is not bounded in time.                 *)
(***************************************************************************)
EXTENDS Naturals, FiniteSets

CONSTANTS Call, Alert, Row,
          Legacy,   \* rows from before the trigger: escalated, of one alert
          Migrated, \* the index and the trigger are there; create_all makes neither
          Crashes,  \* bound: a process may die within a call
          None

LegacyAssumption == Legacy \subseteq Row
ScenarioAssumption == {Migrated, Crashes} \subseteq BOOLEAN
NoneAssumption == None \notin Call \cup Alert \cup Row

VARIABLES
    lease,  \* alert -> [holder, lapsed]
    status, \* row -> "absent", "pending" (not committed), "indexed", "reusable" or "final"
    of,     \* row -> its alert
    pc,
    call    \* [kind, alert, answer, own, opened]

rows == <<status, of>>
vars == <<lease, rows, pc, call>>

Free == [holder |-> None, lapsed |-> FALSE]
NoCall == [kind |-> "enqueue", alert |-> None, answer |-> None, own |-> None, opened |-> FALSE]

\* "indexed" are created, queued, running and awaiting_approval; "reusable" are
\* waiting_approval, waiting_verification, approved and escalated.
ActiveStatus == {"indexed", "reusable"}

Init ==
    /\ lease = [a \in Alert |-> Free]
    /\ \E a \in Alert : of = [r \in Row |-> IF r \in Legacy THEN a ELSE None]
    /\ status = [r \in Row |-> IF r \in Legacy THEN "reusable" ELSE "absent"]
    /\ pc = [c \in Call |-> "new"] /\ call = [c \in Call |-> NoCall]

Goto(c, p) == pc' = [pc EXCEPT ![c] = p]
Active_AsIndexed(a) == {r \in Row : status[r] = "indexed" /\ of[r] = a}
Active(a) == {r \in Row : status[r] \in ActiveStatus /\ of[r] = a}
Answer_Every(c, r) == call' = [call EXCEPT ![c].answer = Active(call[c].alert)]
Answer(c, r) == call' = [call EXCEPT ![c].answer = r]

-----------------------------------------------------------------------------
(* A call.                                                                 *)

\* enqueue for the API and the assistant, start for scripts, auto for the ingestion
Submit(c) ==
    /\ pc[c] = "new" /\ Goto(c, "acquire")
    /\ \E k \in {"enqueue", "start", "auto"}, a \in Alert :
          call' = [call EXCEPT ![c] = [NoCall EXCEPT !.kind = k, !.alert = a]]
    /\ UNCHANGED <<lease, rows>>

Held(a) == lease[a].holder # None /\ ~lease[a].lapsed

Acquire(c) ==
    /\ pc[c] = "acquire"
    /\ LET a == call[c].alert IN
       IF Held(a) THEN Goto(c, "join") /\ UNCHANGED lease
       ELSE lease' = [lease EXCEPT ![a] = [holder |-> c, lapsed |-> FALSE]] /\ Goto(c, "check")
    /\ UNCHANGED <<rows, call>>

\* Somebody else holds the lease: what it has committed is joined, or the call refused.
Join(c) ==
    /\ pc[c] = "join"
    /\ IF Active(call[c].alert) = {} THEN Goto(c, "refused") /\ UNCHANGED call
       ELSE (\E r \in Active(call[c].alert) : Answer(c, r)) /\ Goto(c, "answered")
    /\ UNCHANGED <<lease, rows>>

Check(c) ==
    /\ pc[c] = "check"
    /\ IF Active(call[c].alert) = {} THEN Goto(c, "insert") /\ UNCHANGED call
       ELSE (\E r \in Active(call[c].alert) : Answer(c, r)) /\ Goto(c, "release")
    /\ UNCHANGED <<lease, rows>>

\* The insert waits for an uncommitted one of its key, and is refused by the trigger
\* for an active row or by the index for a row it covers.
Waits(a) == Migrated /\ \E r \in Row : status[r] = "pending" /\ of[r] = a
Refused_ByTheIndexOnly(a) == Migrated /\ Active_AsIndexed(a) # {}
Refused(a) == Migrated /\ Active(a) # {}

Insert(c) ==
    /\ pc[c] = "insert" /\ ~Waits(call[c].alert)
    /\ IF Refused(call[c].alert) THEN Goto(c, "again") /\ UNCHANGED <<rows, call>>
       ELSE \E r \in Row :
              /\ status[r] = "absent"
              /\ status' = [status EXCEPT ![r] = "pending"]
              /\ of' = [of EXCEPT ![r] = call[c].alert]
              /\ call' = [call EXCEPT ![c].own = r]
              /\ Goto(c, "commit")
    /\ UNCHANGED lease

Commit(c) ==
    /\ pc[c] = "commit" /\ Goto(c, "release")
    /\ status' = [status EXCEPT ![call[c].own] = "indexed"] /\ Answer(c, call[c].own)
    /\ UNCHANGED <<lease, of>>

\* IntegrityError: the winner is joined, unless it is over by now.
Again_Raises(c) == pc[c] = "again" /\ Goto(c, "failing") /\ UNCHANGED <<lease, rows, call>>
Again(c) ==
    /\ pc[c] = "again"
    /\ IF Active(call[c].alert) = {} THEN Goto(c, "failing") /\ UNCHANGED call
       ELSE (\E r \in Active(call[c].alert) : Answer(c, r)) /\ Goto(c, "release")
    /\ UNCHANGED <<lease, rows>>

\* The token decides whose lease is released.
Released_ByKey(c) == [lease EXCEPT ![call[c].alert] = Free]
Released(c) ==
    IF lease[call[c].alert].holder = c THEN [lease EXCEPT ![call[c].alert] = Free] ELSE lease

Release(c) ==
    /\ pc[c] \in {"release", "failing"}
    /\ lease' = Released(c)
    /\ Goto(c, IF pc[c] = "failing" THEN "refused" ELSE "answered")
    /\ UNCHANGED <<rows, call>>

\* The ingestion counts what it opened by the status of the answer (queued, of those the
\* index covers); start runs what it has created.
Report(c) ==
    /\ pc[c] = "answered" /\ Goto(c, "over")
    /\ call' = [call EXCEPT ![c].opened =
          IF call[c].kind = "auto" THEN status[call[c].answer] = "indexed"
          ELSE call[c].answer = call[c].own]
    /\ UNCHANGED <<lease, rows>>

Crash(c) ==
    /\ Crashes /\ pc[c] \notin {"new", "over", "refused"} /\ Goto(c, "over")
    /\ status' = [r \in Row |-> IF status[r] = "pending" /\ r = call[c].own THEN "absent" ELSE status[r]]
    /\ call' = [call EXCEPT ![c] = NoCall]
    /\ UNCHANGED <<lease, of>>

-----------------------------------------------------------------------------

Lapse(a) ==
    /\ Held(a) /\ lease' = [lease EXCEPT ![a].lapsed = TRUE]
    /\ UNCHANGED <<rows, pc, call>>

\* The workflow.  What escalated may be continued, and is then covered by the index again.
Advance(r) ==
    /\ status[r] \in ActiveStatus
    /\ \E s \in (ActiveStatus \cup {"final"}) \ {status[r]} :
          /\ s = "indexed" /\ Migrated =>
                ~\E q \in Row \ {r} : of[q] = of[r] /\ status[q] \in {"indexed", "pending"}
          /\ status' = [status EXCEPT ![r] = s]
    /\ UNCHANGED <<lease, of, pc, call>>

Enqueue(c) ==
    \/ Submit(c) \/ Acquire(c) \/ Join(c) \/ Check(c) \/ Insert(c) \/ Commit(c)
    \/ Again(c) \/ Release(c) \/ Report(c) \/ Crash(c)

Next ==
    \/ \E c \in Call : Enqueue(c)
    \/ \E a \in Alert : Lapse(a)
    \/ \E r \in Row : Advance(r)

Spec == Init /\ [][Next]_vars

-----------------------------------------------------------------------------
(* Properties.                                                             *)

\* Every variable has its type.
TypeOK ==
    /\ lease \in [Alert -> [holder : Call \cup {None}, lapsed : BOOLEAN]]
    /\ status \in [Row -> {"absent", "pending", "final"} \cup ActiveStatus]
    /\ of \in [Row -> Alert \cup {None}]
    /\ pc \in [Call -> {"new", "acquire", "join", "check", "insert", "commit", "again",
                        "failing", "release", "answered", "refused", "over"}]
    /\ call \in [Call -> [kind : {"enqueue", "start", "auto"}, alert : Alert \cup {None},
                          answer : Row \cup {None}, own : Row \cup {None}, opened : BOOLEAN]]

\* An alert has one active investigation, however many processes ask for it and
\* however slow they are; only rows from before the trigger may be double.
OneActivePerAlert ==
    \A q, r \in Row :
        q # r /\ of[q] = of[r] /\ {status[q], status[r]} \subseteq ActiveStatus => {q, r} \subseteq Legacy

\* A call that lost its lease while it was slow does not end the lease of the call
\* that took over.
SuccessorKeepsItsLease ==
    [][\A a \in Alert, c \in Call :
          lease[a].holder \in Call \ {c} /\ pc'[c] # pc[c] /\ pc[c] \in {"release", "failing"}
          => lease'[a] = lease[a]]_vars

\* A call that finds the winner's row active is answered with it, and does not fail
\* because it lost the race.
LosersJoin ==
    [][\A c \in Call :
          pc[c] = "again" /\ pc'[c] \notin {"again", "over"} /\ Active(call[c].alert) # {}
          => call'[c].answer \in Active(call[c].alert)]_vars

\* A late call harms neither the call that took over nor its own caller.
LatecomersDoNoHarm == SuccessorKeepsItsLease /\ LosersJoin

\* A refusal ("Another worker is queuing this alert.") means that one is.
Queuing(d, a) == call[d].alert = a /\ pc[d] \notin {"new", "acquire", "join", "refused", "over"}
RefusalNamesAWorker ==
    [][\A c \in Call : pc[c] = "join" /\ pc'[c] = "refused" =>
          \E d \in Call \ {c} : Queuing(d, call[c].alert)]_vars

\* The ingestion reports as opened what it opened.
OpenedIsCreated == \A c \in Call : call[c].opened => call[c].answer = call[c].own
=============================================================================
