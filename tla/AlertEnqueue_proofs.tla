------------------------- MODULE AlertEnqueue_proofs -------------------------
(***************************************************************************)
(* What holds of AlertEnqueue in a migrated database, for any number of    *)
(* calls, alerts and rows, any lapse of a lease and any crash.             *)
(***************************************************************************)
EXTENDS AlertEnqueue, TLAPS

Pc == {"new", "acquire", "join", "check", "insert", "commit", "again", "failing",
       "release", "answered", "refused", "over"}
Request == [kind : {"enqueue", "start", "auto"}, alert : Alert \cup {None},
            answer : Row \cup {None}, own : Row \cup {None}, opened : BOOLEAN]

\* A call knows its alert until it is over.
CallsTyped ==
    /\ lease \in [Alert -> [holder : Call \cup {None}, lapsed : BOOLEAN]]
    /\ status \in [Row -> {"absent", "pending", "final"} \cup ActiveStatus]
    /\ of \in [Row -> Alert \cup {None}]
    /\ pc \in [Call -> Pc]
    /\ call \in [Call -> Request]
    /\ \A c \in Call : pc[c] \notin {"new", "over"} => call[c].alert \in Alert

\* The rows a call has inserted are its own, and the one it is about to commit is there.
RowsOwned ==
    /\ \A c \in Call : call[c].own \in Row => status[call[c].own] # "absent"
    /\ \A c, d \in Call : call[c].own \in Row /\ call[c].own = call[d].own => c = d
    /\ \A c \in Call : pc[c] = "commit" =>
          call[c].own \in Row /\ status[call[c].own] = "pending"

\* A row that is not committed yet counts as well.
Live == ActiveStatus \cup {"pending"}
OneLivePerAlert ==
    \A q, r \in Row :
        q # r /\ of[q] = of[r] /\ {status[q], status[r]} \subseteq Live => {q, r} \subseteq Legacy

EInv == CallsTyped /\ RowsOwned /\ OneLivePerAlert

LEMMA InitEInv ==
  ASSUME NoneAssumption, Init
  PROVE  EInv
  BY DEF Init, EInv, CallsTyped, RowsOwned, OneLivePerAlert, Live, ActiveStatus, Free, NoCall,
         Request, Pc, NoneAssumption

\* An answer, an insert and a report each write one field of the call's record.
LEMMA AnswerSet ==
  ASSUME call \in [Call -> Request], NEW c \in Call, NEW r \in Row, Answer(c, r)
  PROVE  /\ call' \in [Call -> Request] /\ call'[c].answer = r
         /\ \A d \in Call : call'[d].alert = call[d].alert /\ call'[d].own = call[d].own
  BY DEF Answer, Request

LEMMA OwnSet ==
  ASSUME call \in [Call -> Request], NEW c \in Call, NEW r \in Row,
         call' = [call EXCEPT ![c].own = r]
  PROVE  /\ call' \in [Call -> Request] /\ call'[c].own = r
         /\ \A d \in Call : call'[d].alert = call[d].alert
         /\ \A d \in Call \ {c} : call'[d] = call[d]
  BY DEF Request

LEMMA OpenedSet ==
  ASSUME call \in [Call -> Request], NEW c \in Call, Report(c)
  PROVE  /\ call' \in [Call -> Request]
         /\ \A d \in Call : call'[d].alert = call[d].alert /\ call'[d].own = call[d].own
<1>1. PICK x \in BOOLEAN : call' = [call EXCEPT ![c].opened = x]
  BY DEF Report
<1> QED
  BY <1>1 DEF Request

LEMMA Submitted ==
  ASSUME NEW k \in {"enqueue", "start", "auto"}, NEW a \in Alert
  PROVE  /\ [NoCall EXCEPT !.kind = k, !.alert = a] \in Request
         /\ [NoCall EXCEPT !.kind = k, !.alert = a].alert = a
  BY DEF NoCall, Request

LEMMA TypesStep ==
  ASSUME NoneAssumption, CallsTyped, RowsOwned, [Next]_vars
  PROVE  CallsTyped'
<1> USE DEF CallsTyped, Pc, Goto
<1>1. ASSUME NEW c \in Call, Submit(c)
      PROVE  CallsTyped'
  <2>1. PICK k \in {"enqueue", "start", "auto"}, a \in Alert :
           call' = [call EXCEPT ![c] = [NoCall EXCEPT !.kind = k, !.alert = a]]
    BY <1>1 DEF Submit
  <2>2. PICK m \in Request : call' = [call EXCEPT ![c] = m] /\ m.alert = a
    BY <2>1, Submitted
  <2>3. call' \in [Call -> Request] /\ call'[c].alert = a
        /\ \A d \in Call \ {c} : call'[d] = call[d]
    BY <2>2
  <2>4. pc' = [pc EXCEPT ![c] = "acquire"] /\ UNCHANGED <<lease, status, of>>
    BY <1>1 DEF Submit, rows
  <2> QED
    BY <2>3, <2>4
<1>2. ASSUME NEW c \in Call, Acquire(c)
      PROVE  CallsTyped'
  <2>1. lease' \in [Alert -> [holder : Call \cup {None}, lapsed : BOOLEAN]]
    <3>1. [holder |-> c, lapsed |-> FALSE] \in [holder : Call \cup {None}, lapsed : BOOLEAN]
      OBVIOUS
    <3> QED
      BY <1>2, <3>1 DEF Acquire
  <2>2. UNCHANGED <<status, of, call>> /\ pc[c] = "acquire"
        /\ \E p \in {"join", "check"} : pc' = [pc EXCEPT ![c] = p]
    BY <1>2 DEF Acquire, rows
  <2> QED
    BY <2>1, <2>2
<1>3. ASSUME NEW c \in Call, Join(c) \/ Check(c) \/ Again(c)
      PROVE  CallsTyped'
  <2>1. CASE Active(call[c].alert) = {}
    BY <1>3, <2>1 DEF Join, Check, Again, rows
  <2>2. CASE Active(call[c].alert) # {}
    <3>1. PICK r \in Row : Answer(c, r)
      BY <1>3, <2>2 DEF Join, Check, Again, Active
    <3>2. call' \in [Call -> Request] /\ \A d \in Call : call'[d].alert = call[d].alert
      BY <3>1, AnswerSet
    <3> QED
      BY <1>3, <2>2, <3>2 DEF Join, Check, Again, rows
  <2> QED
    BY <2>1, <2>2
<1>4. ASSUME NEW c \in Call, Insert(c)
      PROVE  CallsTyped'
  <2>1. CASE Refused(call[c].alert)
    BY <1>4, <2>1 DEF Insert, rows
  <2>2. CASE ~Refused(call[c].alert)
    <3>1. PICK r \in Row : /\ status' = [status EXCEPT ![r] = "pending"]
                           /\ of' = [of EXCEPT ![r] = call[c].alert]
                           /\ call' = [call EXCEPT ![c].own = r]
                           /\ pc' = [pc EXCEPT ![c] = "commit"] /\ lease' = lease
      BY <1>4, <2>2 DEF Insert
    <3>2. call[c].alert \in Alert
      BY <1>4 DEF Insert
    <3>3. call' \in [Call -> Request] /\ \A d \in Call : call'[d].alert = call[d].alert
      BY <3>1, OwnSet
    <3> QED
      BY <3>1, <3>2, <3>3
  <2> QED
    BY <2>1, <2>2
<1>5. ASSUME NEW c \in Call, Commit(c)
      PROVE  CallsTyped'
  <2>1. call' \in [Call -> Request] /\ \A d \in Call : call'[d].alert = call[d].alert
    BY <1>5, AnswerSet DEF Commit, RowsOwned
  <2> QED
    BY <1>5, <2>1 DEF Commit, RowsOwned, ActiveStatus
<1>6. ASSUME NEW c \in Call, Release(c)
      PROVE  CallsTyped'
  <2>1. lease' \in [Alert -> [holder : Call \cup {None}, lapsed : BOOLEAN]]
    BY <1>6 DEF Release, Released, Free
  <2>2. UNCHANGED <<status, of, call>> /\ pc[c] \in {"release", "failing"}
        /\ \E p \in {"refused", "answered"} : pc' = [pc EXCEPT ![c] = p]
    BY <1>6 DEF Release, rows
  <2> QED
    BY <2>1, <2>2
<1>7. ASSUME NEW c \in Call, Report(c)
      PROVE  CallsTyped'
  <2>1. call' \in [Call -> Request] /\ \A d \in Call : call'[d].alert = call[d].alert
    BY <1>7, OpenedSet
  <2> QED
    BY <1>7, <2>1 DEF Report, rows
<1>8. ASSUME NEW c \in Call, Crash(c)
      PROVE  CallsTyped'
  BY <1>8 DEF Crash, NoCall, Request
<1>9. ASSUME NEW a \in Alert, Lapse(a)
      PROVE  CallsTyped'
  BY <1>9 DEF Lapse, rows
<1>10. ASSUME NEW r \in Row, Advance(r)
      PROVE  CallsTyped'
  BY <1>10 DEF Advance
<1>11. CASE UNCHANGED vars
  BY <1>11 DEF vars, rows
<1> QED
  BY <1>1, <1>2, <1>3, <1>4, <1>5, <1>6, <1>7, <1>8, <1>9, <1>10, <1>11 DEF Next, Enqueue

\* A step that moves no row, takes none for a call and commits for none.
LEMMA RowsFrame ==
  ASSUME RowsOwned, OneLivePerAlert, UNCHANGED rows,
         \A c \in Call : /\ call'[c].own = call[c].own \/ call'[c].own \notin Row
                         /\ pc'[c] = "commit" => pc[c] = "commit" /\ call'[c].own = call[c].own
  PROVE  RowsOwned' /\ OneLivePerAlert'
<1>1. RowsOwned'
  BY DEF RowsOwned, rows
<1>2. OneLivePerAlert'
  BY DEF OneLivePerAlert, rows
<1> QED
  BY <1>1, <1>2

LEMMA OwnersStep ==
  ASSUME NoneAssumption, Migrated, EInv, [Next]_vars
  PROVE  RowsOwned' /\ OneLivePerAlert'
<1> DEFINE Goal == RowsOwned' /\ OneLivePerAlert'
<1> USE DEF EInv, CallsTyped, Goto
<1>1. ASSUME NEW c \in Call, Submit(c)
      PROVE  Goal
  <2>1. /\ \A d \in Call \ {c} : call'[d] = call[d] /\ pc'[d] = pc[d]
        /\ call'[c].own = None /\ pc'[c] = "acquire" /\ UNCHANGED rows
    BY <1>1 DEF Submit, NoCall, Request
  <2> QED
    BY <2>1, RowsFrame DEF NoneAssumption
<1>2. ASSUME NEW c \in Call, \/ Acquire(c) \/ Join(c) \/ Check(c) \/ Again(c) \/ Release(c)
                             \/ Report(c)
      PROVE  Goal
  <2>1. UNCHANGED rows /\ pc'[c] # "commit" /\ \A d \in Call \ {c} : pc'[d] = pc[d]
    BY <1>2 DEF Acquire, Join, Check, Again, Release, Report
  <2>2. \A d \in Call : call'[d].own = call[d].own
    <3>1. CASE Join(c) \/ Check(c) \/ Again(c)
      <4>1. CASE call' = call
        BY <4>1
      <4>2. ASSUME NEW r \in Active(call[c].alert), Answer(c, r)
            PROVE  \A d \in Call : call'[d].own = call[d].own
        BY <4>2, AnswerSet DEF Active
      <4> QED
        BY <3>1, <4>1, <4>2 DEF Join, Check, Again
    <3>2. CASE Report(c)
      BY <3>2, OpenedSet
    <3>3. CASE Acquire(c) \/ Release(c)
      BY <3>3 DEF Acquire, Release
    <3> QED
      BY <1>2, <3>1, <3>2, <3>3
  <2> QED
    BY <2>1, <2>2, RowsFrame
<1>3. ASSUME NEW c \in Call, Insert(c)
      PROVE  Goal
  <2>1. CASE Refused(call[c].alert)
    <3>1. UNCHANGED <<status, of, call>> /\ \A d \in Call : pc'[d] = "commit" => pc[d] = "commit"
      BY <1>3, <2>1 DEF Insert, rows
    <3> QED
      BY <3>1, RowsFrame DEF rows
  <2>2. CASE ~Refused(call[c].alert)
    <3>1. PICK r \in Row : /\ status[r] = "absent"
                           /\ status' = [status EXCEPT ![r] = "pending"]
                           /\ of' = [of EXCEPT ![r] = call[c].alert]
                           /\ call' = [call EXCEPT ![c].own = r]
                           /\ pc' = [pc EXCEPT ![c] = "commit"]
      BY <1>3, <2>2 DEF Insert
    <3>2. \A q \in Row : of[q] = call[c].alert => status[q] \notin Live
      BY <1>3, <2>2 DEF Insert, Refused, Waits, Active, Live
    <3>3. OneLivePerAlert'
      BY <3>1, <3>2 DEF OneLivePerAlert, Live
    <3>4. call'[c].own = r /\ \A d \in Call \ {c} : call'[d] = call[d] /\ pc'[d] = pc[d]
      BY <3>1, OwnSet
    <3>5. \A d \in Call : call[d].own # r
      BY <3>1 DEF RowsOwned
    <3>6. status'[r] = "pending" /\ \A q \in Row \ {r} : status'[q] = status[q]
      BY <3>1
    <3>7. RowsOwned'
      BY <3>4, <3>5, <3>6 DEF RowsOwned
    <3> QED
      BY <3>3, <3>7
  <2> QED
    BY <2>1, <2>2
<1>4. ASSUME NEW c \in Call, Commit(c)
      PROVE  Goal
  <2>1. PICK r \in Row : r = call[c].own /\ status[r] = "pending"
    BY <1>4 DEF Commit, RowsOwned
  <2>2. /\ status' = [status EXCEPT ![r] = "indexed"] /\ of' = of
        /\ pc'[c] = "release" /\ \A d \in Call \ {c} : pc'[d] = pc[d]
    BY <1>4, <2>1 DEF Commit
  <2>3. \A d \in Call : call'[d].own = call[d].own
    BY <1>4, <2>1, AnswerSet DEF Commit
  <2>4. OneLivePerAlert'
    <3>1. \A q \in Row : status'[q] \in Live => status[q] \in Live
      BY <2>1, <2>2 DEF Live
    <3> QED
      BY <2>2, <3>1 DEF OneLivePerAlert
  <2>5. \A d \in Call \ {c} : call[d].own # r
    BY <2>1 DEF RowsOwned
  <2>6. status'[r] = "indexed" /\ \A q \in Row \ {r} : status'[q] = status[q]
    BY <2>2
  <2>7. RowsOwned'
    BY <2>1, <2>2, <2>3, <2>5, <2>6 DEF RowsOwned
  <2> QED
    BY <2>4, <2>7
<1>5. ASSUME NEW c \in Call, Crash(c)
      PROVE  Goal
  <2>1. /\ of' = of /\ \A d \in Call \ {c} : call'[d] = call[d] /\ pc'[d] = pc[d]
        /\ call'[c].own = None /\ pc'[c] = "over"
    BY <1>5 DEF Crash, NoCall
  <2>2. \A q \in Row : /\ status'[q] \in {status[q], "absent"}
                       /\ q # call[c].own => status'[q] = status[q]
    BY <1>5 DEF Crash
  <2>3. OneLivePerAlert'
    BY <2>1, <2>2 DEF OneLivePerAlert, Live, ActiveStatus
  <2>4. \A d \in Call \ {c} : call[d].own \in Row => status'[call[d].own] = status[call[d].own]
    BY <2>2 DEF RowsOwned
  <2>5. RowsOwned'
    BY <2>1, <2>4 DEF RowsOwned, NoneAssumption
  <2> QED
    BY <2>3, <2>5
<1>6. ASSUME NEW r \in Row, Advance(r)
      PROVE  Goal
  <2>1. /\ UNCHANGED <<of, pc, call>> /\ status[r] \in ActiveStatus
        /\ status'[r] \in ActiveStatus \cup {"final"}
        /\ \A q \in Row \ {r} : status'[q] = status[q]
    BY <1>6 DEF Advance
  <2>2. OneLivePerAlert'
    BY <2>1 DEF OneLivePerAlert, Live
  <2>3. RowsOwned'
    BY <2>1 DEF RowsOwned, ActiveStatus
  <2> QED
    BY <2>2, <2>3
<1>7. CASE UNCHANGED vars \/ \E a \in Alert : Lapse(a)
  BY <1>7, RowsFrame DEF vars, Lapse
<1> QED
  BY <1>1, <1>2, <1>3, <1>4, <1>5, <1>6, <1>7 DEF Next, Enqueue

LEMMA EnqueueInvariance ==
  ASSUME NoneAssumption, Migrated
  PROVE  Spec => []EInv
<1>1. Init => EInv
  BY InitEInv
<1>2. EInv /\ [Next]_vars => EInv'
  BY TypesStep, OwnersStep DEF EInv
<1> QED
  BY <1>1, <1>2, PTL DEF Spec

\* In a migrated database an alert has one active investigation, however many
\* processes ask for it and whatever becomes of their leases.
THEOREM InvestigationsAreUnique ==
  ASSUME NoneAssumption, Migrated
  PROVE  Spec => [](TypeOK /\ OneActivePerAlert)
<1>1. EInv => TypeOK /\ OneActivePerAlert
  BY DEF EInv, CallsTyped, Pc, Request, TypeOK, OneLivePerAlert, OneActivePerAlert, Live
<1> QED
  BY EnqueueInvariance, <1>1, PTL

-----------------------------------------------------------------------------
(* Latecomers.                                                             *)

\* Only the call itself moves its control state.
LEMMA OwnPc ==
  ASSUME CallsTyped, NEW c \in Call, NEW d \in Call, Enqueue(d), pc'[c] # pc[c]
  PROVE  c = d
  BY DEF CallsTyped, Enqueue, Submit, Acquire, Join, Check, Insert, Commit, Again, Release,
         Report, Crash, Goto

LEMMA OwnMove ==
  ASSUME CallsTyped, [Next]_vars, NEW c \in Call, pc'[c] # pc[c]
  PROVE  Enqueue(c)
<1>1. ~(UNCHANGED vars \/ (\E a \in Alert : Lapse(a)) \/ \E r \in Row : Advance(r))
  BY DEF vars, Lapse, Advance
<1> QED
  BY <1>1, OwnPc DEF Next

\* A call that lost its lease leaves the lease of its successor, and one that lost the
\* race for the row is answered with the winner's.
THEOREM LatecomersAreHarmless ==
  ASSUME NoneAssumption, Migrated
  PROVE  Spec => LatecomersDoNoHarm
<1> DEFINE Keeps == \A a \in Alert, c \in Call :
               lease[a].holder \in Call \ {c} /\ pc'[c] # pc[c] /\ pc[c] \in {"release", "failing"}
               => lease'[a] = lease[a]
           Joins == \A c \in Call :
               pc[c] = "again" /\ pc'[c] \notin {"again", "over"} /\ Active(call[c].alert) # {}
               => call'[c].answer \in Active(call[c].alert)
<1>1. ASSUME EInv, [Next]_vars
      PROVE  Keeps
  <2> SUFFICES ASSUME NEW a \in Alert, NEW c \in Call, lease[a].holder \in Call \ {c},
                      pc'[c] # pc[c], pc[c] \in {"release", "failing"}
               PROVE  lease'[a] = lease[a]
    OBVIOUS
  <2>1. Enqueue(c) /\ lease \in [Alert -> [holder : Call \cup {None}, lapsed : BOOLEAN]]
    BY <1>1, OwnMove DEF EInv, CallsTyped
  <2>2. Release(c) \/ Crash(c)
    BY <2>1 DEF Enqueue, Submit, Acquire, Join, Check, Insert, Commit, Again, Report
  <2> QED
    BY <2>1, <2>2 DEF Release, Released, Crash
<1>2. ASSUME EInv, [Next]_vars
      PROVE  Joins
  <2> SUFFICES ASSUME NEW c \in Call, pc[c] = "again", pc'[c] \notin {"again", "over"},
                      Active(call[c].alert) # {}
               PROVE  call'[c].answer \in Active(call[c].alert)
    OBVIOUS
  <2>1. Enqueue(c) /\ call \in [Call -> Request] /\ pc \in [Call -> Pc]
    BY <1>2, OwnMove DEF EInv, CallsTyped
  <2>2. Again(c) \/ Crash(c)
    BY <2>1 DEF Enqueue, Submit, Acquire, Join, Check, Insert, Commit, Release, Report
  <2>3. ~Crash(c)
    BY <2>1 DEF Crash, Goto
  <2>4. PICK r \in Active(call[c].alert) : Answer(c, r)
    BY <2>2, <2>3 DEF Again
  <2>5. r \in Row
    BY <2>4 DEF Active
  <2> QED
    BY <2>1, <2>4, <2>5, AnswerSet
<1>3. Keeps => [Keeps]_vars
  OBVIOUS
<1>4. Joins => [Joins]_vars
  OBVIOUS
<1>5. Spec => SuccessorKeepsItsLease
  BY EnqueueInvariance, <1>1, <1>3, PTL DEF Spec, SuccessorKeepsItsLease
<1>6. Spec => LosersJoin
  BY EnqueueInvariance, <1>2, <1>4, PTL DEF Spec, LosersJoin
<1> QED
  BY <1>5, <1>6 DEF LatecomersDoNoHarm
=============================================================================
