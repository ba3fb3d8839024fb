----------------------------- MODULE Records_proofs -----------------------------
(***************************************************************************)
(* Theorems about Records.  For the service the invariant says, besides    *)
(* the types, who may touch the thread (Owned), that a write accepted by   *)
(* the version is based on the row it replaces (Based), that a view about  *)
(* to be written is the checkpoint (Ordered), and why a response is never  *)
(* followed by a diagnosis (Fresh, Onward); Ordered and Onward hold as     *)
(* long as no lease lapsed.  For the retention job it says what a row and  *)
(* the job's list tell of a case (RowsAgree, JobFound), and that a pause   *)
(* of the workers keeps both true until the job commits (PausedJob).       *)
(* For the audit trail, whose rows are added by a recursive function, it    *)
(* says what a process read and holds (Reading, Holding), that the clock    *)
(* tells the events apart (OneEventATime), what is stored (Remembered), and *)
(* where rows point (PointsBack, Linked) and whether they repeat (Single).  *)
(* For a conversation it says where a turn is and what it has stored        *)
(* (Phased, Exchanged, Listened), that turns of a calm one follow each      *)
(* other (Solo), and that its messages and its references agree on the last *)
(* investigation, but for a reference still to be stored (Agreeing), also   *)
(* for what a turn was told (Minding).                                      *)
(***************************************************************************)
EXTENDS Records, Sequences, WellFoundedInduction, TLAPS

Owned == /\ OnlyALapseSharesTheThread
         /\ lapses = 0 => lost = {}
         /\ lapses <= faults

Based == \A c \in Caller : c \in current /\ pc[c] = "counting" => seen[c] = snap

Ordered == lapses = 0 =>
    /\ snap.turn <= thread.turn
    /\ \A c \in Caller : pc[c] \in {"versioning", "saving"} => view[c] = thread

\* A snapshot that is still queued belongs to an investigation nobody approved.
Fresh == snap.status = "queued" =>
    /\ ledger = "none" /\ ~snap.approved /\ ~sent
    /\ \A c \in Caller : pc[c] = "invoking" => op[c] # "execute"

Onward == lapses = 0 /\ sent =>
    /\ thread.at \in {"responding", "concluding", "verification_wait", "finished"}
    /\ \A c \in Caller : /\ pc[c] = "invoking" => op[c] \notin {"run", "collect"}
                         /\ pc[c] = "running" => phase[c] # "diagnosing"

\* An invocation is under way in a phase, and the responding one has sent.
Moving == /\ \A c \in Caller : pc[c] = "running" => phase[c] \in Underway
          /\ thread.at = "responding" => sent

IInv == TypeOK /\ Owned /\ Based /\ Ordered /\ Fresh /\ Onward /\ Moving

\* What a caller's locals are reset to.
LEMMA LocalsTyped == NoThread \in Views /\ Queued \in Rows
  BY DEF NoThread, Queued, Views, Rows

\* The status a view is saved under.
LEMMA StatusTyped ==
  ASSUME NEW phaseNow
  PROVE  StatusOf(phaseNow) \in {"running", "waiting_approval", "approved", "waiting_verification",
                           "escalated", "finished"}
  BY DEF StatusOf

\* Nothing has happened yet.
LEMMA InitIInv == Init => IInv
<1> SUFFICES ASSUME Init PROVE IInv
  OBVIOUS
<1> USE DEF Init
<1>1. TypeOK
  <2>1. thread \in Views /\ snap \in Rows /\ view \in [Caller -> Views] /\ seen \in [Caller -> Rows]
    BY LocalsTyped
  <2>2. /\ pc \in [Caller -> {"idle", "called", "checking", "failing", "counting"} \cup Held]
        /\ op \in [Caller -> {"none", "run", "verify", "approve", "execute", "collect"}]
        /\ phase \in [Caller -> {"none"} \cup Underway \cup Resting]
    OBVIOUS
  <2>3. sent \in BOOLEAN /\ lost \subseteq Caller /\ current \subseteq Caller
    OBVIOUS
  <2>4. requests \in 0 .. MaxRequests /\ faults \in 0 .. MaxFaults /\ lapses \in 0 .. MaxFaults
    BY BoundsAssumption
  <2> QED BY <2>1, <2>2, <2>3, <2>4 DEF TypeOK
<1>2. Owned /\ Based
  BY DEF Owned, OnlyALapseSharesTheThread, Based, Held
<1>3. Ordered /\ Onward /\ Moving
  BY DEF Ordered, Onward, Moving, NoThread, Queued
<1>4. Fresh
  <2>1. snap.approved = FALSE /\ sent = FALSE
    BY DEF Queued
  <2>2. \A c \in Caller : pc[c] # "invoking"
    OBVIOUS
  <2> QED BY <2>1, <2>2, Zenon DEF Fresh
<1> QED BY <1>1, <1>2, <1>3, <1>4 DEF IInv

\* Steps outside the lease, short of the count of a failure: they only move a caller.
LEMMA CallsStep == ASSUME IInv, NEW c \in Caller,
                       Pick(c) \/ CheckVerification(c) \/ Request(c) \/ Refused(c) \/ ReadFailure(c) \/ CountFailure(c)
                PROVE  IInv'
<1> USE CallersAssumption, DeadAssumption, AttemptsAssumption, BoundsAssumption DEF IInv, rows, locals, bounds, Dead
<1>1. CASE Pick(c)
  <2> USE <1>1 DEF Pick, Call, Goto
  <2>1. TypeOK'
    BY DEF TypeOK, Views, Rows, Held, Caller, NoThread, Queued, Underway, Resting
  <2>2. Owned'
    BY DEF TypeOK, Owned, OnlyALapseSharesTheThread, Held, Caller
  <2>3. Based'
    BY DEF TypeOK, Based
  <2>4. Ordered'
    BY DEF TypeOK, Views, Rows, Owned, OnlyALapseSharesTheThread, Held, Based, Ordered
  <2>5. Fresh'
    BY DEF TypeOK, Views, Rows, Based, Fresh, Moving, Underway
  <2>6. Onward'
    BY DEF TypeOK, Views, Owned, OnlyALapseSharesTheThread, Held, Onward, Moving, Underway, Resting
  <2>7. Moving'
    BY DEF TypeOK, Views, Moving, Underway, Resting
  <2> QED BY <2>1, <2>2, <2>3, <2>4, <2>5, <2>6, <2>7
<1>2. CASE CheckVerification(c)
  <2> USE <1>2 DEF CheckVerification, Return, Forget, Goto
  <2>1. TypeOK'
    <3>1. CASE thread.at = "verification_wait"
      BY <3>1 DEF TypeOK, Caller
    <3>2. CASE thread.at # "verification_wait"
      BY <3>2, LocalsTyped DEF TypeOK, Caller
    <3> QED BY <3>1, <3>2
  <2>2. Owned'
    BY DEF TypeOK, Owned, OnlyALapseSharesTheThread, Held, Caller
  <2>3. Based'
    BY DEF TypeOK, Based
  <2>4. Ordered'
    BY DEF TypeOK, Views, Rows, Owned, OnlyALapseSharesTheThread, Held, Based, Ordered
  <2>5. Fresh'
    BY DEF TypeOK, Views, Rows, Based, Fresh, Moving, Underway
  <2>6. Onward'
    BY DEF TypeOK, Views, Owned, OnlyALapseSharesTheThread, Held, Onward, Moving, Underway, Resting
  <2>7. Moving'
    BY DEF TypeOK, Views, Moving, Underway, Resting
  <2> QED BY <2>1, <2>2, <2>3, <2>4, <2>5, <2>6, <2>7
<1>3. CASE Request(c)
  <2> USE <1>3 DEF Request, Call, Goto
  <2>1. TypeOK'
    BY DEF TypeOK, Views, Rows, Held, Caller, NoThread, Queued, Underway, Resting
  <2>2. Owned'
    BY DEF TypeOK, Owned, OnlyALapseSharesTheThread, Held, Caller
  <2>3. Based'
    BY DEF TypeOK, Based
  <2>4. Ordered'
    BY DEF TypeOK, Views, Rows, Owned, OnlyALapseSharesTheThread, Held, Based, Ordered
  <2>5. Fresh'
    BY DEF TypeOK, Views, Rows, Based, Fresh, Moving, Underway
  <2>6. Onward'
    BY DEF TypeOK, Views, Owned, OnlyALapseSharesTheThread, Held, Onward, Moving, Underway, Resting
  <2>7. Moving'
    BY DEF TypeOK, Views, Moving, Underway, Resting
  <2> QED BY <2>1, <2>2, <2>3, <2>4, <2>5, <2>6, <2>7
<1>4. CASE Refused(c)
  <2> USE <1>4 DEF Refused, Return, Forget, Goto
  <2>1. TypeOK'
    BY DEF TypeOK, Views, Rows, Held, Caller, NoThread, Queued, Underway, Resting
  <2>2. Owned'
    BY DEF TypeOK, Owned, OnlyALapseSharesTheThread, Held, Caller
  <2>3. Based'
    BY DEF TypeOK, Based
  <2>4. Ordered'
    BY DEF TypeOK, Views, Rows, Owned, OnlyALapseSharesTheThread, Held, Based, Ordered
  <2>5. Fresh'
    BY DEF TypeOK, Views, Rows, Based, Fresh, Moving, Underway
  <2>6. Onward'
    BY DEF TypeOK, Views, Owned, OnlyALapseSharesTheThread, Held, Onward, Moving, Underway, Resting
  <2>7. Moving'
    BY DEF TypeOK, Views, Moving, Underway, Resting
  <2> QED BY <2>1, <2>2, <2>3, <2>4, <2>5, <2>6, <2>7
<1>5. CASE ReadFailure(c)
  <2> USE <1>5 DEF ReadFailure, Goto
  <2>1. TypeOK'
    BY DEF TypeOK, Views, Rows, Held, Caller, NoThread, Queued, Underway, Resting
  <2>2. Owned'
    BY DEF TypeOK, Owned, OnlyALapseSharesTheThread, Held, Caller
  <2>3. Based'
    BY DEF TypeOK, Based
  <2>4. Ordered'
    BY DEF TypeOK, Views, Rows, Owned, OnlyALapseSharesTheThread, Held, Based, Ordered
  <2>5. Fresh'
    BY DEF TypeOK, Views, Rows, Based, Fresh, Moving, Underway
  <2>6. Onward'
    BY DEF TypeOK, Views, Owned, OnlyALapseSharesTheThread, Held, Onward, Moving, Underway, Resting
  <2>7. Moving'
    BY DEF TypeOK, Views, Moving, Underway, Resting
  <2> QED BY <2>1, <2>2, <2>3, <2>4, <2>5, <2>6, <2>7
<1>6. CASE CountFailure(c)
  <2> USE <1>6 DEF CountFailure, Current, Projected, Return, Forget, Goto
  <2>1. TypeOK'
    BY DEF TypeOK, Views, Rows, Held, Caller, NoThread, Queued, Underway, Resting
  <2>2. Owned'
    BY DEF TypeOK, Owned, OnlyALapseSharesTheThread, Held, Caller
  <2>3. Based'
    BY DEF TypeOK, Based
  <2>4. Ordered'
    BY DEF TypeOK, Views, Rows, Owned, OnlyALapseSharesTheThread, Held, Based, Ordered
  <2>5. Fresh'
    BY DEF TypeOK, Views, Rows, Based, Fresh, Moving, Underway
  <2>6. Onward'
    BY DEF TypeOK, Views, Owned, OnlyALapseSharesTheThread, Held, Onward, Moving, Underway, Resting
  <2>7. Moving'
    BY DEF TypeOK, Views, Moving, Underway, Resting
  <2> QED BY <2>1, <2>2, <2>3, <2>4, <2>5, <2>6, <2>7
<1> QED BY <1>1, <1>2, <1>3, <1>4, <1>5, <1>6

\* Steps that take, lose or leave the lease.
LEMMA LeaseStep == ASSUME IInv, NEW c \in Caller,
                       Acquire(c) \/ Release(c) \/ Crash(c) \/ Lapse(c)
                PROVE  IInv'
<1> USE CallersAssumption, DeadAssumption, AttemptsAssumption, BoundsAssumption DEF IInv, rows, locals, bounds, Dead
<1>1. CASE Acquire(c)
  <2> USE <1>1 DEF Acquire, Goto
  <2>1. TypeOK'
    BY DEF TypeOK, Views, Rows, Held, Caller, NoThread, Queued, Underway, Resting
  <2>2. Owned'
    BY DEF TypeOK, Owned, OnlyALapseSharesTheThread, Held, Caller
  <2>3. Based'
    BY DEF TypeOK, Based
  <2>4. Ordered'
    BY DEF TypeOK, Views, Rows, Owned, OnlyALapseSharesTheThread, Held, Based, Ordered
  <2>5. Fresh'
    BY DEF TypeOK, Views, Rows, Based, Fresh, Moving, Underway
  <2>6. Onward'
    BY DEF TypeOK, Views, Owned, OnlyALapseSharesTheThread, Held, Onward, Moving, Underway, Resting
  <2>7. Moving'
    BY DEF TypeOK, Views, Moving, Underway, Resting
  <2> QED BY <2>1, <2>2, <2>3, <2>4, <2>5, <2>6, <2>7
<1>2. CASE Release(c)
  <2> USE <1>2 DEF Release, Remaining, Fruitless, Return, Forget, Goto
  <2>1. TypeOK'
    BY DEF TypeOK, Views, Rows, Held, Caller, NoThread, Queued, Underway, Resting
  <2>2. Owned'
    BY DEF TypeOK, Owned, OnlyALapseSharesTheThread, Held, Caller
  <2>3. Based'
    BY DEF TypeOK, Based
  <2>4. Ordered'
    BY DEF TypeOK, Views, Rows, Owned, OnlyALapseSharesTheThread, Held, Based, Ordered
  <2>5. Fresh'
    BY DEF TypeOK, Views, Rows, Based, Fresh, Moving, Underway
  <2>6. Onward'
    BY DEF TypeOK, Views, Owned, OnlyALapseSharesTheThread, Held, Onward, Moving, Underway, Resting
  <2>7. Moving'
    BY DEF TypeOK, Views, Moving, Underway, Resting
  <2> QED BY <2>1, <2>2, <2>3, <2>4, <2>5, <2>6, <2>7
<1>3. CASE Crash(c)
  <2> USE <1>3 DEF Crash, Return, Forget, Goto
  <2>1. TypeOK'
    BY DEF TypeOK, Views, Rows, Held, Caller, NoThread, Queued, Underway, Resting
  <2>2. Owned'
    BY DEF TypeOK, Owned, OnlyALapseSharesTheThread, Held, Caller
  <2>3. Based'
    BY DEF TypeOK, Based
  <2>4. Ordered'
    BY DEF TypeOK, Views, Rows, Owned, OnlyALapseSharesTheThread, Held, Based, Ordered
  <2>5. Fresh'
    BY DEF TypeOK, Views, Rows, Based, Fresh, Moving, Underway
  <2>6. Onward'
    BY DEF TypeOK, Views, Owned, OnlyALapseSharesTheThread, Held, Onward, Moving, Underway, Resting
  <2>7. Moving'
    BY DEF TypeOK, Views, Moving, Underway, Resting
  <2> QED BY <2>1, <2>2, <2>3, <2>4, <2>5, <2>6, <2>7
<1>4. CASE Lapse(c)
  <2> USE <1>4 DEF Lapse
  <2>1. TypeOK'
    BY DEF TypeOK, Owned, Caller
  <2>2. Owned'
    BY DEF TypeOK, Owned, OnlyALapseSharesTheThread, Held, Caller
  <2>3. Based'
    BY DEF TypeOK, Based
  <2>4. Ordered'
    BY DEF TypeOK, Views, Rows, Owned, OnlyALapseSharesTheThread, Held, Based, Ordered
  <2>5. Fresh'
    BY DEF TypeOK, Views, Rows, Based, Fresh, Moving, Underway
  <2>6. Onward'
    BY DEF TypeOK, Views, Owned, OnlyALapseSharesTheThread, Held, Onward, Moving, Underway, Resting
  <2>7. Moving'
    BY DEF TypeOK, Views, Moving, Underway, Resting
  <2> QED BY <2>1, <2>2, <2>3, <2>4, <2>5, <2>6, <2>7
<1> QED BY <1>1, <1>2, <1>3, <1>4

\* The lease of a caller that is gone ends.
LEMMA ExpireStep == IInv /\ Expire => IInv'
<1> SUFFICES ASSUME IInv, Expire PROVE IInv'
  OBVIOUS
<1> USE CallersAssumption, DeadAssumption DEF IInv, rows, locals, bounds, Dead, Expire, Ended
<1>1. TypeOK'
  BY DEF TypeOK, Views, Rows, Held, Caller, NoThread, Queued, Underway, Resting
<1>2. Owned'
  BY DEF TypeOK, Owned, OnlyALapseSharesTheThread, Held, Caller
<1>3. Based'
  BY DEF TypeOK, Based
<1>4. Ordered'
  BY DEF TypeOK, Views, Rows, Owned, OnlyALapseSharesTheThread, Held, Based, Ordered
<1>5. Fresh'
  BY DEF TypeOK, Views, Rows, Based, Fresh, Moving, Underway
<1>6. Onward'
  BY DEF TypeOK, Views, Owned, OnlyALapseSharesTheThread, Held, Onward, Moving, Underway, Resting
<1>7. Moving'
  BY DEF TypeOK, Views, Moving, Underway, Resting
<1> QED BY <1>1, <1>2, <1>3, <1>4, <1>5, <1>6, <1>7

\* Steps of graph.invoke.
LEMMA GraphStep == ASSUME IInv, NEW c \in Caller,
                       Admit(c) \/ Enter(c) \/ Settle(c) \/ Raise(c)
                PROVE  IInv'
<1> USE CallersAssumption, DeadAssumption, AttemptsAssumption, BoundsAssumption DEF IInv, rows, locals, bounds, Dead
<1>1. CASE Admit(c)
  <2> USE <1>1 DEF Admit, Admitted, StillQueued, Goto
  <2>1. TypeOK'
    BY DEF TypeOK, Views, Rows, Held, Caller, NoThread, Queued, Underway, Resting
  <2>2. Owned'
    BY DEF TypeOK, Owned, OnlyALapseSharesTheThread, Held, Caller
  <2>3. Based'
    BY DEF TypeOK, Based
  <2>4. Ordered'
    BY DEF TypeOK, Views, Rows, Owned, OnlyALapseSharesTheThread, Held, Based, Ordered
  <2>5. Fresh'
    BY DEF TypeOK, Views, Rows, Based, Fresh, Moving, Underway
  <2>6. Onward'
    BY DEF TypeOK, Views, Owned, OnlyALapseSharesTheThread, Held, Onward, Fresh
  <2>7. Moving'
    BY DEF TypeOK, Views, Moving, Underway, Resting
  <2> QED BY <2>1, <2>2, <2>3, <2>4, <2>5, <2>6, <2>7
<1>2. CASE Enter(c)
  <2> USE DEF Goto
  <2>0. PICK p \in First(op[c], thread.at) :
           /\ phase' = [phase EXCEPT ![c] = p]
           /\ IF p = thread.at /\ op[c] \notin {"run", "collect"}
              THEN UNCHANGED thread
              ELSE Checkpoint(op[c], p)
           /\ sent' = (sent \/ p = "responding")
           /\ pc' = [pc EXCEPT ![c] = IF p \in Underway THEN "running" ELSE "viewing"]
    BY <1>2 DEF Enter
  <2>a. /\ pc[c] = "invoking"
        /\ UNCHANGED <<rows, holder, op, view, seen, lost, bounds>>
    BY <1>2 DEF Enter
  <2>b. /\ p \in {"none"} \cup Underway \cup Resting
        /\ op[c] \in {"run", "collect"} => p = "diagnosing"
        /\ op[c] \notin {"run", "collect"} /\ p = "diagnosing" => thread.at = "diagnosing"
        /\ p = "responding" => op[c] = "execute" \/ thread.at = "responding"
    <3>1. thread.at \in {"none"} \cup Underway \cup Resting
      BY DEF TypeOK, Views
    <3>2. op[c] \in {"none", "run", "verify", "approve", "execute", "collect"}
      BY DEF TypeOK
    <3> QED BY <2>0, <3>1, <3>2 DEF First, Underway, Resting
  <2>c. /\ thread' \in Views
        /\ thread'.at = p
        /\ thread'.turn >= thread.turn
    <3>1. thread.at \in {"none"} \cup Underway \cup Resting /\ thread.turn \in Nat
          /\ thread.approved \in BOOLEAN
      BY DEF TypeOK, Views
    <3>2. Approved(op[c], p) \in BOOLEAN
      BY <3>1, Zenon DEF Approved
    <3>3. CASE UNCHANGED thread /\ p = thread.at
      BY <3>3, <3>1 DEF TypeOK
    <3>4. CASE Checkpoint(op[c], p)
      <4> DEFINE t == IF p \in Resting THEN thread.turn + 1 ELSE thread.turn
      <4>1. t \in Nat /\ t >= thread.turn
        BY <3>1
      <4>2. thread' = [at |-> p, approved |-> Approved(op[c], p), turn |-> t]
        BY <3>4 DEF Checkpoint
      <4> HIDE DEF t
      <4> QED BY <4>1, <4>2, <3>2, <2>b DEF Views
    <3> QED BY <2>0, <3>3, <3>4
  <2>d. lapses = 0 => \A d \in Caller : pc[d] \in Held => d = c
    BY <2>a DEF Owned, OnlyALapseSharesTheThread, Held
  <2>1. TypeOK'
    <3>1. phase' \in [Caller -> {"none"} \cup Underway \cup Resting]
      BY <2>0, <2>b DEF TypeOK
    <3>2. sent' \in BOOLEAN
      BY <2>0, Zenon DEF TypeOK
    <3>3. pc' \in [Caller -> {"idle", "called", "checking", "failing", "counting"} \cup Held]
      BY <2>0 DEF TypeOK, Held
    <3> QED BY <3>1, <3>2, <3>3, <2>a, <2>c DEF TypeOK, Caller
  <2>2. Owned'
    BY <2>0, <2>a DEF TypeOK, Owned, OnlyALapseSharesTheThread, Held
  <2>3. Based'
    BY <2>0, <2>a DEF TypeOK, Based
  <2>4. Ordered'
    <3>1. lapses = 0 => snap.turn <= thread'.turn
      BY <2>c DEF TypeOK, Views, Rows, Ordered
    <3>2. lapses = 0 => \A d \in Caller : pc'[d] \notin {"versioning", "saving"}
      BY <2>0, <2>d DEF TypeOK, Held
    <3> QED BY <3>1, <3>2, <2>a DEF Ordered
  <2>5. Fresh'
    BY <2>0, <2>a, <2>b DEF TypeOK, Fresh, Moving
  <2>6. Onward'
    <3> SUFFICES ASSUME lapses = 0, sent'
                 PROVE  /\ p \in {"responding", "concluding", "verification_wait", "finished"}
                        /\ \A d \in Caller : pc'[d] \notin {"invoking"}
                        /\ phase'[c] # "diagnosing"
      BY <2>0, <2>a, <2>c, <2>d DEF Onward, TypeOK, Held
    <3>1. \A d \in Caller : pc'[d] # "invoking"
      BY <2>0, <2>d DEF TypeOK, Held, Underway
    <3>2. CASE p = "responding"
      BY <3>1, <3>2, <2>0 DEF TypeOK
    <3>3. CASE sent
      BY <3>1, <3>3, <2>0, <2>a DEF Onward, First, TypeOK
    <3> QED BY <3>2, <3>3, <2>0
  <2>7. Moving'
    <3>1. \A d \in Caller : pc'[d] = "running" => phase'[d] \in Underway
      BY <2>0 DEF Moving, TypeOK, Held
    <3>2. thread'.at = "responding" => sent'
      BY <2>0, <2>c, Zenon
    <3> QED BY <3>1, <3>2 DEF Moving
  <2> QED BY <2>1, <2>2, <2>3, <2>4, <2>5, <2>6, <2>7
<1>3. CASE Settle(c)
  <2> USE DEF Goto
  <2>0. PICK p \in Rest(phase[c]) : Checkpoint(op[c], p)
    BY <1>3 DEF Settle
  <2>a. /\ pc[c] = "running" /\ pc' = [pc EXCEPT ![c] = "viewing"]
        /\ UNCHANGED <<rows, holder, locals, sent, bounds>>
    BY <1>3 DEF Settle
  <2>b. /\ p \in Resting
        /\ phase[c] # "diagnosing" => p \in {"verification_wait", "finished"}
    BY <2>0, <2>a DEF Rest, Moving, Underway, Resting
  <2>c. /\ thread' \in Views
        /\ thread'.at = p
        /\ thread'.turn >= thread.turn
    <3>1. thread.turn \in Nat /\ thread.approved \in BOOLEAN
      BY DEF TypeOK, Views
    <3>2. Approved(op[c], p) \in BOOLEAN
      BY <3>1, Zenon DEF Approved
    <3>3. thread' = [at |-> p, approved |-> Approved(op[c], p), turn |-> thread.turn + 1]
      BY <2>0, <2>b DEF Checkpoint
    <3> QED BY <2>b, <3>1, <3>2, <3>3 DEF Views
  <2>d. lapses = 0 => \A d \in Caller : pc[d] \in Held => d = c
    BY <2>a DEF Owned, OnlyALapseSharesTheThread, Held
  <2>1. TypeOK'
    BY <2>a, <2>c DEF TypeOK, Held, Caller
  <2>2. Owned'
    BY <2>a DEF TypeOK, Owned, OnlyALapseSharesTheThread, Held
  <2>3. Based'
    BY <2>a DEF TypeOK, Based
  <2>4. Ordered'
    <3>1. lapses = 0 => snap.turn <= thread'.turn
      BY <2>c DEF TypeOK, Views, Rows, Ordered
    <3>2. lapses = 0 => \A d \in Caller : pc'[d] \notin {"versioning", "saving"}
      BY <2>a, <2>d DEF TypeOK, Held
    <3> QED BY <3>1, <3>2, <2>a DEF Ordered
  <2>5. Fresh'
    BY <2>a DEF TypeOK, Fresh
  <2>6. Onward'
    BY <2>a, <2>b, <2>c, <2>d DEF TypeOK, Held, Onward
  <2>7. Moving'
    BY <2>a, <2>b, <2>c DEF TypeOK, Moving, Resting
  <2> QED BY <2>1, <2>2, <2>3, <2>4, <2>5, <2>6, <2>7
<1>4. CASE Raise(c)
  <2> USE <1>4 DEF Raise, Goto
  <2>1. TypeOK'
    BY DEF TypeOK, Views, Rows, Held, Caller, NoThread, Queued, Underway, Resting
  <2>2. Owned'
    BY DEF TypeOK, Owned, OnlyALapseSharesTheThread, Held, Caller
  <2>3. Based'
    BY DEF TypeOK, Based
  <2>4. Ordered'
    BY DEF TypeOK, Views, Rows, Owned, OnlyALapseSharesTheThread, Held, Based, Ordered
  <2>5. Fresh'
    BY DEF TypeOK, Views, Rows, Based, Fresh, Moving, Underway
  <2>6. Onward'
    BY DEF TypeOK, Views, Owned, OnlyALapseSharesTheThread, Held, Onward, Moving, Underway, Resting
  <2>7. Moving'
    BY DEF TypeOK, Views, Moving, Underway, Resting
  <2> QED BY <2>1, <2>2, <2>3, <2>4, <2>5, <2>6, <2>7
<1> QED BY <1>1, <1>2, <1>3, <1>4

\* Steps of _sync_snapshot.
LEMMA SyncStep == ASSUME IInv, NEW c \in Caller,
                       ReadView(c) \/ ReadVersion(c) \/ Save(c)
                PROVE  IInv'
<1> USE CallersAssumption, DeadAssumption, AttemptsAssumption, BoundsAssumption DEF IInv, rows, locals, bounds, Dead
<1>1. CASE ReadView(c)
  <2> USE <1>1 DEF ReadView, Goto
  <2>1. TypeOK'
    BY DEF TypeOK, Views, Rows, Held, Caller, NoThread, Queued, Underway, Resting
  <2>2. Owned'
    BY DEF TypeOK, Owned, OnlyALapseSharesTheThread, Held, Caller
  <2>3. Based'
    BY DEF TypeOK, Based
  <2>4. Ordered'
    BY DEF TypeOK, Views, Rows, Owned, OnlyALapseSharesTheThread, Held, Based, Ordered
  <2>5. Fresh'
    BY DEF TypeOK, Views, Rows, Based, Fresh, Moving, Underway
  <2>6. Onward'
    BY DEF TypeOK, Views, Owned, OnlyALapseSharesTheThread, Held, Onward, Moving, Underway, Resting
  <2>7. Moving'
    BY DEF TypeOK, Views, Moving, Underway, Resting
  <2> QED BY <2>1, <2>2, <2>3, <2>4, <2>5, <2>6, <2>7
<1>2. CASE ReadVersion(c)
  <2> USE <1>2 DEF ReadVersion, Goto
  <2>1. TypeOK'
    BY DEF TypeOK, Views, Rows, Held, Caller, NoThread, Queued, Underway, Resting
  <2>2. Owned'
    BY DEF TypeOK, Owned, OnlyALapseSharesTheThread, Held, Caller
  <2>3. Based'
    BY DEF TypeOK, Based
  <2>4. Ordered'
    BY DEF TypeOK, Views, Rows, Owned, OnlyALapseSharesTheThread, Held, Based, Ordered
  <2>5. Fresh'
    BY DEF TypeOK, Views, Rows, Based, Fresh, Moving, Underway
  <2>6. Onward'
    BY DEF TypeOK, Views, Owned, OnlyALapseSharesTheThread, Held, Onward, Moving, Underway, Resting
  <2>7. Moving'
    BY DEF TypeOK, Views, Moving, Underway, Resting
  <2> QED BY <2>1, <2>2, <2>3, <2>4, <2>5, <2>6, <2>7
<1>3. CASE Save(c)
  <2> USE <1>3 DEF Save, Current, StatusOf, Projected, Goto
  <2>1. TypeOK'
    <3>1. view[c].turn \in Nat /\ view[c].approved \in BOOLEAN
      BY DEF TypeOK, Views
    <3>2. CASE c \in current
      <4>1. snap' = [status |-> StatusOf(view[c].at), turn |-> view[c].turn,
                     approved |-> view[c].approved, attempts |-> 0]
        BY <3>2 DEF Save, Current
      <4>2. snap' \in Rows
        BY <4>1, <3>1, StatusTyped DEF Rows
      <4>3. ledger' \in {"none", "approved", "claimed", "failed"}
        BY <3>2 DEF Save, Current, Projected
      <4> QED BY <3>2, <4>2, <4>3 DEF Save, Current, TypeOK, Held
    <3>3. CASE c \notin current
      BY <3>3 DEF TypeOK, Held
    <3> QED BY <3>2, <3>3
  <2>2. Owned'
    BY DEF TypeOK, Owned, OnlyALapseSharesTheThread, Held, Caller
  <2>3. Based'
    BY DEF TypeOK, Based
  <2>4. Ordered'
    BY DEF TypeOK, Views, Rows, Owned, OnlyALapseSharesTheThread, Held, Based, Ordered
  <2>5. Fresh'
    BY DEF TypeOK, Views, Rows, Based, Fresh, Moving, Underway
  <2>6. Onward'
    BY DEF TypeOK, Views, Owned, OnlyALapseSharesTheThread, Held, Onward, Moving, Underway, Resting
  <2>7. Moving'
    BY DEF TypeOK, Views, Moving, Underway, Resting
  <2> QED BY <2>1, <2>2, <2>3, <2>4, <2>5, <2>6, <2>7
<1> QED BY <1>1, <1>2, <1>3

\* The invariant is inductive, so it holds of every reachable state.
THEOREM Invariance == Spec => []IInv
<1>1. IInv /\ [Next]_vars => IInv'
  <2> SUFFICES ASSUME IInv, [Next]_vars PROVE IInv'
    OBVIOUS
  <2>1. ASSUME NEW c \in Caller, Proceed(c) \/ Crash(c) \/ Lapse(c)
        PROVE  IInv'
    BY <2>1, CallsStep, LeaseStep, GraphStep, SyncStep DEF Proceed, Inside
  <2>2. ASSUME NEW w \in Worker, WorkerStep(w)
        PROVE  IInv'
    BY <2>2, CallsStep DEF WorkerStep, Caller
  <2>3. ASSUME NEW a \in Analyst, Request(a)
        PROVE  IInv'
    BY <2>3, CallsStep DEF Caller
  <2>4. CASE Expire
    BY <2>4, ExpireStep
  <2>5. CASE UNCHANGED vars
    BY <2>5 DEF IInv, TypeOK, Owned, OnlyALapseSharesTheThread, Based, Ordered, Fresh, Onward,
                Moving, vars, rows, locals, bounds
  <2> QED BY <2>1, <2>2, <2>3, <2>4, <2>5 DEF Next
<1> QED BY <1>1, InitIInv, PTL DEF Spec

\* Every variable of the service keeps its type.
THEOREM TypeCorrect == Spec => []TypeOK
<1>1. IInv => TypeOK
  BY DEF IInv
<1> QED BY <1>1, Invariance, PTL

\* For any number of workers and analysts, only a lapse lets two callers share a thread.
THEOREM LeaseIsolates == Spec => []OnlyALapseSharesTheThread
<1>1. IInv => OnlyALapseSharesTheThread
  BY DEF IInv, Owned
<1> QED BY <1>1, Invariance, PTL

\* Without a lapse nobody diagnoses an investigation again once its response has begun.
THEOREM ResponsesAreNotRestarted == Spec => []NoRestartAfterResponse
<1>1. IInv => NoRestartAfterResponse
  BY DEF IInv, Onward, NoRestartAfterResponse
<1> QED BY <1>1, Invariance, PTL

\* Without a lapse the snapshot follows the checkpoint and never goes back.
THEOREM SnapshotsAdvance == Spec => SnapshotNeverGoesBack
<1>1. IInv /\ [Next]_vars => [lapses = 0 => snap'.turn >= snap.turn]_vars
  <2> SUFFICES ASSUME IInv, Next, lapses = 0 PROVE snap'.turn >= snap.turn
    OBVIOUS
  <2>1. snap.turn \in Nat /\ thread.turn \in Nat
    BY DEF IInv, TypeOK, Rows, Views
  <2>2. CASE snap' = snap
    BY <2>1, <2>2
  <2>3. ASSUME NEW c \in Caller, Save(c)
        PROVE  snap'.turn >= snap.turn
    BY <2>1, <2>3 DEF Save, rows, IInv, Ordered
  <2>4. ASSUME NEW c \in Caller, CountFailure(c)
        PROVE  snap'.turn >= snap.turn
    BY <2>1, <2>4 DEF CountFailure, Current, rows, IInv, Based
  <2> QED
    BY <2>2, <2>3, <2>4
       DEF Next, Proceed, Inside, WorkerStep, Caller, Pick, CheckVerification, Request, Acquire,
           Refused, Admit, Enter, Settle, Raise, ReadView, ReadVersion, Release, ReadFailure,
           Crash, Expire, Lapse, rows
<1> QED BY <1>1, Invariance, PTL DEF Spec, SnapshotNeverGoesBack

-----------------------------------------------------------------------------
(* The retention job.  A case is finished from its first completion to the *)
(* save that finds it active again, and the job works with what it found   *)
(* when it began.                                                          *)

Threads == {Retention!NoThread}
             \cup [status : {"running", "waiting"} \cup Retention!Terminal, evidence : SUBSET Alerts]
CaseRows == [status : Retention!Statuses, done : Nat, saved : Nat,
             snapshot : {"none", "full", "stub"}, says : Retention!Statuses]
Jobs == [pc : {"idle", "begun"}, threads : SUBSET Cases, stubs : SUBSET Cases,
         says : [Cases -> Retention!Statuses],
         events : SUBSET [case : Cases, event : Retention!Events, at : Nat],
         evidence : SUBSET Alerts]

RecordsTyped ==
    /\ now \in 1..MaxTime /\ beside \in BOOLEAN
    /\ case \in [Cases -> CaseRows] /\ graph \in [Cases -> Threads]
    /\ evidence \in [Alerts -> [case : SUBSET Cases, at : Nat]]
    /\ audit \subseteq [case : Cases, event : Retention!Events, at : Nat]
    /\ worker \in [Cases -> {"idle", "running", "stopped"}]
    /\ job \in Jobs

\* A row is of a case that was opened, and a completion of a case that is over.
RowsAgree ==
    \A c \in Cases :
        /\ case[c].done \in (1..now) \cup {Retention!Never}
        /\ case[c].snapshot = "none" <=> case[c].status = "none"
        /\ case[c].done # Retention!Never => case[c].status \in Retention!Terminal
        /\ case[c].snapshot = "stub" => case[c].says \in Retention!Terminal
        /\ worker[c] = "stopped" /\ graph[c] # Retention!NoThread => graph[c].status # "running"

\* What the job found finished was over, and is a case still.
JobFound ==
    /\ job.pc # "begun" => job.threads = {} /\ job.stubs = {}
    /\ \A c \in job.stubs : case[c].status # "none" /\ job.says[c] \in Retention!Terminal

\* While the workers pause nothing changes under the job; a row and its snapshot agree, and
\* a case that waits has its checkpoint.
PausedJob ==
    ~beside =>
        /\ job.pc = "begun" => \A c \in Cases : worker[c] = "idle"
        /\ \A c \in job.stubs : job.says[c] = case[c].status
        /\ \A c \in job.threads \cup job.stubs : case[c].status \in Retention!Terminal
        /\ Retention!WaitingKeepsItsState /\ Retention!SnapshotAgrees

RetInv == RecordsTyped /\ RowsAgree /\ JobFound /\ PausedJob

LEMMA RetentionNats ==
  /\ MaxTime \in Nat /\ Retention!Never \in Nat /\ Retention!Never = MaxTime + 1
  /\ 1 \in 1..MaxTime
BY RecordsAssumption DEF Retention!RetentionAssumption, Retention!Never

LEMMA ThreadStatus ==
  ASSUME NEW t \in Threads
  PROVE  /\ t.status \in {"none", "running", "waiting"} \cup Retention!Terminal
         /\ t = Retention!NoThread \/ t.status # "none"
         /\ t.evidence \in SUBSET Alerts
         /\ \A s \in {"running", "waiting"} \cup Retention!Terminal :
              [t EXCEPT !.status = s] \in Threads \/ t = Retention!NoThread
BY DEF Threads, Retention!NoThread, Retention!Terminal

LEMMA InitRetInv ==
  ASSUME Retention!Init
  PROVE  RetInv
<1>1. RecordsTyped
  <2>1. Retention!NoRow \in CaseRows
    BY RetentionNats DEF Retention!NoRow, CaseRows, Retention!Statuses
  <2>2. Retention!NoThread \in Threads
    BY DEF Threads
  <2>3. Retention!NoEvidence \in [case : SUBSET Cases, at : Nat]
    BY DEF Retention!NoEvidence
  <2>4. Retention!Quiet \in Jobs
    BY DEF Retention!Quiet, Jobs, Retention!Statuses
  <2> QED
    BY <2>1, <2>2, <2>3, <2>4, RetentionNats DEF Retention!Init, RecordsTyped
<1>2. RowsAgree
  BY DEF Retention!Init, RowsAgree, Retention!NoRow
<1>3. JobFound
  BY DEF Retention!Init, JobFound, Retention!Quiet
<1>4. PausedJob
  BY DEF Retention!Init, PausedJob, Retention!Quiet, Retention!NoRow,
         Retention!WaitingKeepsItsState, Retention!SnapshotAgrees
<1> QED
  BY <1>1, <1>2, <1>3, <1>4 DEF RetInv

\* What a save writes.
LEMMA SavedTyped ==
  ASSUME RecordsTyped, RowsAgree, NEW c \in Cases, NEW s \in {"waiting"} \cup Retention!Terminal
  PROVE  LET r == Retention!Saved(c, s)
         IN  /\ r \in CaseRows /\ r.status = s /\ r.says = s /\ r.snapshot = "full"
             /\ r.done \in (1..now) \cup {Retention!Never}
             /\ r.done # Retention!Never => s \in Retention!Terminal
<1>1. now \in Nat /\ now \in 1..now /\ now <= MaxTime
  BY RetentionNats DEF RecordsTyped
<1>2. /\ Retention!Completion(c, s) \in (1..now) \cup {Retention!Never}
      /\ Retention!Completion(c, s) # Retention!Never => s \in Retention!Terminal
  BY <1>1 DEF RowsAgree, Retention!Completion
<1>3. Retention!Completion(c, s) \in Nat
  BY <1>1, <1>2, RetentionNats
<1> QED
  BY <1>1, <1>2, <1>3 DEF Retention!Saved, CaseRows, Retention!Statuses, Retention!Terminal

\* What a step of a worker with a case does to the tables.
LEMMA WorkerTypes ==
  ASSUME RecordsTyped, RowsAgree, NEW c \in Cases,
         \/ Retention!Enqueue(c) \/ Retention!Start(c) \/ Retention!Monitor(c) \/ Retention!Decide(c)
         \/ Retention!Stop(c) \/ Retention!Lose(c) \/ Retention!Save(c)
  PROVE  RecordsTyped'
<1> DEFINE Audits == [case : Cases, event : Retention!Events, at : Nat]
<1>0. now \in Nat /\ now' = now /\ beside' = beside /\ job' = job
  BY RetentionNats DEF RecordsTyped, Retention!Enqueue, Retention!Start, Retention!Monitor,
       Retention!Decide, Retention!Stop, Retention!Lose, Retention!Save
<1>1. CASE Retention!Enqueue(c)
  <2>1. [status |-> "queued", done |-> Retention!Never, saved |-> now,
         snapshot |-> "full", says |-> "queued"] \in CaseRows
    BY <1>0, RetentionNats DEF CaseRows, Retention!Statuses
  <2> QED
    BY <1>0, <1>1, <2>1 DEF Retention!Enqueue, RecordsTyped
<1>2. CASE Retention!Start(c) \/ Retention!Lose(c)
  BY <1>0, <1>2 DEF Retention!Start, Retention!Lose, RecordsTyped
<1>3. CASE Retention!Monitor(c)
  <2>1. PICK found \in SUBSET Alerts :
          graph' = [graph EXCEPT ![c] = [status |-> "running", evidence |-> found]]
    BY <1>3 DEF Retention!Monitor
  <2>2. [status |-> "running", evidence |-> found] \in Threads
    BY DEF Threads
  <2>3. audit' \subseteq Audits
    BY <1>0, <1>3 DEF Retention!Monitor, Retention!Record, Retention!Events, RecordsTyped
  <2>4. graph' \in [Cases -> Threads]
    BY <2>1, <2>2 DEF RecordsTyped
  <2> QED
    BY <1>0, <1>3, <2>3, <2>4 DEF Retention!Monitor, RecordsTyped
<1>4. CASE Retention!Decide(c)
  <2>1. [graph[c] EXCEPT !.status = "running"] \in Threads
    <3>1. graph[c] \in Threads /\ graph[c] # Retention!NoThread
      BY <1>4 DEF RecordsTyped, Retention!Decide, Retention!NoThread
    <3> QED
      BY <3>1, ThreadStatus
  <2>2. audit' \subseteq Audits
    BY <1>0, <1>4 DEF Retention!Decide, Retention!Record, Retention!Events, RecordsTyped
  <2>3. graph' \in [Cases -> Threads]
    BY <1>4, <2>1 DEF RecordsTyped, Retention!Decide
  <2> QED
    BY <1>0, <1>4, <2>2, <2>3 DEF Retention!Decide, RecordsTyped
<1>5. CASE Retention!Stop(c)
  <2>1. PICK s \in {"waiting"} \cup Retention!Terminal : graph' = [graph EXCEPT ![c].status = s]
    BY <1>5 DEF Retention!Stop
  <2>2. [graph[c] EXCEPT !.status = s] \in Threads
    <3>1. graph[c] \in Threads /\ graph[c] # Retention!NoThread
      BY <1>5 DEF RecordsTyped, Retention!Stop, Retention!NoThread
    <3> QED
      BY <3>1, ThreadStatus
  <2>3. graph' \in [Cases -> Threads]
    BY <2>1, <2>2 DEF RecordsTyped
  <2> QED
    BY <1>0, <1>5, <2>3 DEF Retention!Stop, RecordsTyped
<1>6. CASE Retention!Save(c)
  <2>1. graph[c].status \in {"waiting"} \cup Retention!Terminal
    <3>1. graph[c] \in Threads /\ graph[c] # Retention!NoThread /\ graph[c].status # "running"
      BY <1>6 DEF RecordsTyped, RowsAgree, Retention!Save
    <3> QED
      BY <3>1, ThreadStatus
  <2>2. case' \in [Cases -> CaseRows]
    BY <1>6, <2>1, SavedTyped DEF RecordsTyped, Retention!Save
  <2>3. evidence' \in [Alerts -> [case : SUBSET Cases, at : Nat]]
    <3>1. [case |-> {c}, at |-> now] \in [case : SUBSET Cases, at : Nat]
      BY <1>0
    <3> QED
      BY <1>6, <3>1 DEF RecordsTyped, Retention!Save, Retention!Kept
  <2> QED
    BY <1>0, <1>6, <2>2, <2>3 DEF Retention!Save, RecordsTyped
<1> QED
  BY <1>1, <1>2, <1>3, <1>4, <1>5, <1>6

LEMMA JobTypes ==
  ASSUME RecordsTyped, Retention!Begin \/ Retention!Commit \/ Retention!Tick
  PROVE  RecordsTyped'
<1>1. CASE Retention!Begin
  <2>1. job' \in Jobs
    <3> DEFINE j == job'
    <3>1. /\ j = [pc |-> j.pc, threads |-> j.threads, stubs |-> j.stubs, says |-> j.says,
                  events |-> j.events, evidence |-> j.evidence]
          /\ j.pc = "begun" /\ j.threads = Retention!Finished(CheckpointAge)
          /\ j.stubs = Retention!Finished(CaseAge) /\ j.says = [c \in Cases |-> case[c].status]
          /\ j.events \subseteq audit /\ j.evidence \subseteq Alerts
      BY <1>1 DEF Retention!Begin
    <3>2. j.threads \subseteq Cases /\ j.stubs \subseteq Cases
      BY <3>1 DEF Retention!Finished
    <3>3. j.says \in [Cases -> Retention!Statuses]
      BY <3>1 DEF RecordsTyped, CaseRows
    <3>4. j.events \in SUBSET [case : Cases, event : Retention!Events, at : Nat]
      BY <3>1 DEF RecordsTyped
    <3> HIDE DEF j
    <3>5. j \in Jobs
      BY <3>1, <3>2, <3>3, <3>4 DEF Jobs
    <3> QED
      BY <3>5 DEF j
  <2> QED
    BY <1>1, <2>1 DEF Retention!Begin, RecordsTyped
<1>2. CASE Retention!Commit
  <2>1. job \in Jobs
    BY DEF RecordsTyped
  <2>2. Retention!Quiet \in Jobs /\ Retention!NoThread \in Threads
        /\ Retention!NoEvidence \in [case : SUBSET Cases, at : Nat]
    BY DEF Retention!Quiet, Jobs, Retention!Statuses, Threads, Retention!NoEvidence
  <2>3. \A c \in Cases : Retention!Archive(c) \in CaseRows
    <3> SUFFICES ASSUME NEW c \in Cases
                 PROVE  Retention!Archive(c) \in CaseRows
      OBVIOUS
    <3>1. case[c] \in CaseRows /\ job.says[c] \in Retention!Statuses
      BY <2>1 DEF RecordsTyped, Jobs
    <3> QED
      BY <3>1 DEF Retention!Archive, CaseRows
  <2>4. case' \in [Cases -> CaseRows] /\ graph' \in [Cases -> Threads]
    BY <1>2, <2>2, <2>3 DEF Retention!Commit, RecordsTyped
  <2>5. evidence' \in [Alerts -> [case : SUBSET Cases, at : Nat]] /\ job' \in Jobs
    BY <1>2, <2>2 DEF Retention!Commit, RecordsTyped
  <2> QED
    BY <1>2, <2>4, <2>5 DEF Retention!Commit, RecordsTyped
<1>3. CASE Retention!Tick
  <2>1. now' \in 1..MaxTime
    BY <1>3, RetentionNats DEF Retention!Tick, RecordsTyped
  <2> QED
    BY <1>3, <2>1 DEF Retention!Tick, RecordsTyped
<1> QED
  BY <1>1, <1>2, <1>3

\* What each step does to the row of a case, its checkpoint and its worker.
LEMMA RowsStep ==
  ASSUME RecordsTyped, RowsAgree, JobFound, [Retention!Next]_(Retention!vars)
  PROVE  RowsAgree'
<1> DEFINE Agrees(c) ==
             /\ case[c].done \in (1..now) \cup {Retention!Never}
             /\ case[c].snapshot = "none" <=> case[c].status = "none"
             /\ case[c].done # Retention!Never => case[c].status \in Retention!Terminal
             /\ case[c].snapshot = "stub" => case[c].says \in Retention!Terminal
           Rests(c) == worker[c] = "stopped" /\ graph[c] # Retention!NoThread => graph[c].status # "running"
<1>0. now \in Nat /\ \A c \in Cases : Agrees(c) /\ Rests(c)
  BY RetentionNats DEF RecordsTyped, RowsAgree
<1>1. ASSUME \A c \in Cases : Agrees(c)' /\ Rests(c)'
      PROVE  RowsAgree'
  BY <1>1 DEF RowsAgree
<1> HIDE DEF Agrees, Rests
<1>2. ASSUME NEW c \in Cases, case'[c] = case[c], now' = now
      PROVE  Agrees(c)'
  BY <1>0, <1>2 DEF Agrees
<1>3. ASSUME NEW c \in Cases, graph'[c] = graph[c], worker'[c] = worker[c] \/ worker'[c] # "stopped"
      PROVE  Rests(c)'
  BY <1>0, <1>3 DEF Rests
<1>4. ASSUME NEW c \in Cases, Retention!Enqueue(c)
      PROVE  RowsAgree'
  <2>1. Agrees(c)'
    BY <1>4 DEF Agrees, Retention!Enqueue, RecordsTyped
  <2>2. \A d \in Cases \ {c} : case'[d] = case[d]
    BY <1>4 DEF Retention!Enqueue, RecordsTyped
  <2> QED
    BY <1>1, <1>2, <1>3, <1>4, <2>1, <2>2 DEF Retention!Enqueue
<1>5. ASSUME NEW c \in Cases, Retention!Start(c) \/ Retention!Lose(c)
      PROVE  RowsAgree'
  <2>1. \A d \in Cases : worker'[d] = worker[d] \/ worker'[d] # "stopped"
    BY <1>5 DEF Retention!Start, Retention!Lose, RecordsTyped
  <2> QED
    BY <1>1, <1>2, <1>3, <1>5, <2>1 DEF Retention!Start, Retention!Lose
<1>6. ASSUME NEW c \in Cases, Retention!Monitor(c) \/ Retention!Decide(c)
      PROVE  RowsAgree'
  <2>1. worker[c] # "stopped" /\ worker' = worker /\ case' = case /\ now' = now
    BY <1>6 DEF Retention!Monitor, Retention!Decide
  <2>2. \A d \in Cases \ {c} : graph'[d] = graph[d]
    BY <1>6 DEF Retention!Monitor, Retention!Decide, RecordsTyped
  <2>3. Rests(c)'
    BY <2>1 DEF Rests
  <2> QED
    BY <1>1, <1>2, <1>3, <2>1, <2>2, <2>3
<1>7. ASSUME NEW c \in Cases, Retention!Stop(c)
      PROVE  RowsAgree'
  <2>1. PICK s \in {"waiting"} \cup Retention!Terminal : graph' = [graph EXCEPT ![c].status = s]
    BY <1>7 DEF Retention!Stop
  <2>2. graph[c] \in Threads /\ graph[c] # Retention!NoThread
    BY <1>7 DEF RecordsTyped, Retention!Stop, Retention!NoThread
  <2>3. graph'[c].status # "running"
    BY <2>1, <2>2 DEF RecordsTyped, Threads, Retention!Terminal
  <2>4. \A d \in Cases \ {c} : graph'[d] = graph[d] /\ worker'[d] = worker[d]
    BY <1>7 DEF Retention!Stop, RecordsTyped
  <2>5. Rests(c)'
    BY <2>3 DEF Rests
  <2>6. case' = case /\ now' = now
    BY <1>7 DEF Retention!Stop
  <2> QED
    BY <1>1, <1>2, <1>3, <2>4, <2>5, <2>6
<1>8. ASSUME NEW c \in Cases, Retention!Save(c)
      PROVE  RowsAgree'
  <2>1. graph[c].status \in {"waiting"} \cup Retention!Terminal
    <3>1. graph[c] \in Threads /\ graph[c] # Retention!NoThread /\ graph[c].status # "running"
      BY <1>8 DEF RecordsTyped, RowsAgree, Retention!Save
    <3> QED
      BY <3>1, ThreadStatus
  <2>2. PICK r : r = Retention!Saved(c, graph[c].status)
    OBVIOUS
  <2>3. case'[c] = r /\ now' = now /\ \A d \in Cases \ {c} : case'[d] = case[d]
    BY <1>8, <2>2 DEF Retention!Save, RecordsTyped
  <2>4. /\ r.status = graph[c].status /\ r.snapshot = "full"
        /\ r.done \in (1..now) \cup {Retention!Never}
        /\ r.done # Retention!Never => r.status \in Retention!Terminal
    BY <2>1, <2>2, SavedTyped
  <2>5. r.status # "none"
    BY <2>1, <2>4 DEF Retention!Terminal
  <2>6. Agrees(c)'
    BY <2>3, <2>4, <2>5 DEF Agrees
  <2>7. \A d \in Cases : graph'[d] = graph[d] /\ (worker'[d] = worker[d] \/ worker'[d] # "stopped")
    BY <1>8 DEF Retention!Save, RecordsTyped
  <2> QED
    BY <1>1, <1>2, <1>3, <2>3, <2>6, <2>7
<1>9. CASE Retention!Begin
  BY <1>1, <1>2, <1>3, <1>9 DEF Retention!Begin
<1>10. CASE Retention!Commit
  <2>1. ASSUME NEW c \in Cases
        PROVE  Agrees(c)'
    <3>1. CASE c \notin job.stubs
      <4>1. case'[c] = case[c] /\ now' = now
        BY <1>10, <3>1 DEF Retention!Commit
      <4> QED
        BY <1>2, <4>1
    <3>2. CASE c \in job.stubs
      <4>1. case'[c] = [case[c] EXCEPT !.snapshot = "stub", !.says = job.says[c]] /\ now' = now
        BY <1>10, <3>2 DEF Retention!Commit, Retention!Archive
      <4>2. case[c] \in CaseRows
        BY DEF RecordsTyped
      <4>3. /\ case'[c].done = case[c].done /\ case'[c].status = case[c].status
            /\ case'[c].snapshot = "stub" /\ case'[c].says = job.says[c]
        BY <4>1, <4>2 DEF CaseRows
      <4> QED
        BY <1>0, <3>2, <4>1, <4>3 DEF Agrees, JobFound
    <3> QED
      BY <3>1, <3>2
  <2>2. ASSUME NEW c \in Cases
        PROVE  Rests(c)'
    BY <1>0, <1>10 DEF Rests, Retention!Commit
  <2> QED
    BY <1>1, <2>1, <2>2
<1>11. CASE Retention!Tick
  <2>1. ASSUME NEW c \in Cases
        PROVE  Agrees(c)'
    BY <1>0, <1>11 DEF Agrees, Retention!Tick
  <2> QED
    BY <1>1, <1>3, <1>11, <2>1 DEF Retention!Tick
<1>12. CASE UNCHANGED Retention!vars
  BY <1>1, <1>2, <1>3, <1>12 DEF Retention!vars
<1> QED
  BY <1>4, <1>5, <1>6, <1>7, <1>8, <1>9, <1>10, <1>11, <1>12 DEF Retention!Next

LEMMA FoundStep ==
  ASSUME RecordsTyped, RowsAgree, JobFound, [Retention!Next]_(Retention!vars)
  PROVE  JobFound'
<1>1. ASSUME job' = job, \A c \in Cases : case[c].status # "none" => case'[c].status # "none"
      PROVE  JobFound'
  BY <1>1 DEF JobFound, RecordsTyped, Jobs
<1>2. ASSUME NEW c \in Cases, Retention!Enqueue(c)
      PROVE  JobFound'
  BY <1>1, <1>2 DEF Retention!Enqueue, RecordsTyped
<1>3. ASSUME NEW c \in Cases,
             \/ Retention!Start(c) \/ Retention!Monitor(c) \/ Retention!Decide(c)
             \/ Retention!Stop(c) \/ Retention!Lose(c)
      PROVE  JobFound'
  BY <1>1, <1>3 DEF Retention!Start, Retention!Monitor, Retention!Decide, Retention!Stop,
       Retention!Lose
<1>4. ASSUME NEW c \in Cases, Retention!Save(c)
      PROVE  JobFound'
  <2>1. graph[c].status # "none"
    <3>1. graph[c] \in Threads /\ graph[c] # Retention!NoThread
      BY <1>4 DEF RecordsTyped, Retention!Save
    <3> QED
      BY <3>1, ThreadStatus
  <2>2. \A d \in Cases : case'[d].status = case[d].status \/ case'[d].status = graph[c].status
    BY <1>4 DEF Retention!Save, Retention!Saved, RecordsTyped
  <2> QED
    BY <1>1, <1>4, <2>1, <2>2 DEF Retention!Save
<1>5. CASE Retention!Begin
  <2>1. /\ case' = case /\ job'.pc = "begun" /\ job'.stubs = Retention!Finished(CaseAge)
        /\ job'.says = [c \in Cases |-> case[c].status]
    BY <1>5 DEF Retention!Begin
  <2>2. \A c \in Retention!Finished(CaseAge) :
          c \in Cases /\ case[c].status \in Retention!Terminal
    BY DEF Retention!Finished, RowsAgree
  <2> QED
    BY <2>1, <2>2 DEF JobFound, Retention!Terminal
<1>6. CASE Retention!Commit
  BY <1>6 DEF Retention!Commit, JobFound, Retention!Quiet
<1>7. CASE Retention!Tick
  BY <1>1, <1>7 DEF Retention!Tick
<1>8. CASE UNCHANGED Retention!vars
  BY <1>1, <1>8 DEF Retention!vars
<1> QED
  BY <1>2, <1>3, <1>4, <1>5, <1>6, <1>7, <1>8 DEF Retention!Next

LEMMA PausedStep ==
  ASSUME RetInv, [Retention!Next]_(Retention!vars)
  PROVE  PausedJob'
<1> USE DEF Retention!WaitingKeepsItsState, Retention!SnapshotAgrees
<1>0. RecordsTyped /\ RowsAgree /\ JobFound /\ PausedJob /\ beside' = beside
  BY DEF RetInv, Retention!Next, Retention!vars, Retention!Enqueue, Retention!Start,
      Retention!Monitor, Retention!Decide, Retention!Stop, Retention!Lose, Retention!Save,
      Retention!Begin, Retention!Commit, Retention!Tick
<1>1. CASE beside
  BY <1>0, <1>1 DEF PausedJob
<1>2. ASSUME ~beside, NEW c \in Cases, Retention!Enqueue(c)
      PROVE  PausedJob'
  <2>1. /\ case'[c].status = "queued" /\ case'[c].says = "queued"
        /\ \A d \in Cases \ {c} : case'[d] = case[d]
        /\ c \notin job.threads \cup job.stubs
    BY <1>0, <1>2 DEF Retention!Enqueue, RecordsTyped, PausedJob, Retention!Terminal
  <2>2. job.threads \subseteq Cases /\ job.stubs \subseteq Cases
    BY <1>0 DEF RecordsTyped, Jobs
  <2> QED
    BY <1>0, <1>2, <2>1, <2>2 DEF Retention!Enqueue, PausedJob
<1>3. ASSUME ~beside, NEW c \in Cases, Retention!Start(c) \/ Retention!Lose(c)
      PROVE  PausedJob'
  <2>1. job.pc # "begun"
    BY <1>0, <1>3 DEF Retention!Start, Retention!Lose, PausedJob
  <2> QED
    BY <1>0, <1>3, <2>1 DEF Retention!Start, Retention!Lose, PausedJob
<1>4. ASSUME ~beside, NEW c \in Cases, Retention!Monitor(c) \/ Retention!Decide(c) \/ Retention!Stop(c)
      PROVE  PausedJob'
  <2>1. job.pc # "begun" /\ job' = job /\ case' = case
    BY <1>0, <1>4 DEF Retention!Monitor, Retention!Decide, Retention!Stop, PausedJob
  <2>2. graph'[c] # Retention!NoThread /\ \A d \in Cases \ {c} : graph'[d] = graph[d]
    <3>1. graph \in [Cases -> Threads]
      BY <1>0 DEF RecordsTyped
    <3>2. CASE Retention!Monitor(c)
      BY <3>1, <3>2 DEF Retention!Monitor, Retention!NoThread
    <3>3. CASE Retention!Decide(c)
      BY <3>1, <3>3 DEF Retention!Decide, Retention!NoThread, Threads, Retention!Terminal
    <3>4. ASSUME Retention!Stop(c)
          PROVE  /\ graph'[c] # Retention!NoThread
                 /\ \A d \in Cases \ {c} : graph'[d] = graph[d]
      <4>1. PICK s \in {"waiting"} \cup Retention!Terminal :
              graph' = [graph EXCEPT ![c].status = s]
        BY <3>4 DEF Retention!Stop
      <4>2. graph'[c] = [graph[c] EXCEPT !.status = s]
        BY <3>1, <4>1
      <4>3. graph[c] # Retention!NoThread /\ graph[c] \in Threads
        BY <3>1, <3>4 DEF Retention!Stop, Retention!NoThread
      <4>4. graph'[c].status = s
        BY <4>2, <4>3 DEF Threads
      <4> QED
        BY <3>1, <4>1, <4>4 DEF Retention!NoThread, Retention!Terminal
    <3> QED
      BY <1>4, <3>2, <3>3, <3>4
  <2>3. \A d \in Cases : graph'[d] = Retention!NoThread => graph[d] = Retention!NoThread
    BY <2>2
  <2>4. worker'[c] \in {"running", "stopped"} \/ worker'[c] = worker[c]
    BY <1>0, <1>4 DEF Retention!Monitor, Retention!Decide, Retention!Stop, RecordsTyped
  <2> QED
    BY <1>0, <1>4, <2>1, <2>3
    DEF PausedJob, Retention!WaitingKeepsItsState, Retention!SnapshotAgrees
<1>5. ASSUME ~beside, NEW c \in Cases, Retention!Save(c)
      PROVE  PausedJob'
  <2>1. /\ job' = job /\ graph' = graph /\ graph[c] # Retention!NoThread
        /\ job.pc # "begun" /\ job.threads = {} /\ job.stubs = {}
    BY <1>0, <1>5 DEF Retention!Save, PausedJob, JobFound
  <2>2. /\ case'[c].status = case'[c].says /\ case'[c].snapshot = "full"
        /\ \A d \in Cases \ {c} : case'[d] = case[d]
    BY <1>0, <1>5 DEF Retention!Save, Retention!Saved, RecordsTyped
  <2> QED
    BY <1>0, <1>5, <2>1, <2>2 DEF PausedJob
<1>6. ASSUME ~beside, Retention!Begin
      PROVE  PausedJob'
  <2>1. /\ case' = case /\ graph' = graph /\ worker' = worker
        /\ job'.threads = Retention!Finished(CheckpointAge) /\ job'.stubs = Retention!Finished(CaseAge)
        /\ job'.says = [c \in Cases |-> case[c].status]
        /\ \A c \in Cases : worker[c] = "idle"
    BY <1>6 DEF Retention!Begin
  <2>2. \A age : \A c \in Retention!Finished(age) :
          c \in Cases /\ case[c].status \in Retention!Terminal
    BY <1>0 DEF Retention!Finished, RowsAgree
  <2>3. /\ \A c \in Cases : worker'[c] = "idle"
        /\ \A c \in job'.stubs : job'.says[c] = case'[c].status
        /\ \A c \in job'.threads \cup job'.stubs : case'[c].status \in Retention!Terminal
    BY <2>1, <2>2
  <2>4. Retention!WaitingKeepsItsState' /\ Retention!SnapshotAgrees'
    BY <1>0, <1>6, <2>1 DEF PausedJob, Retention!WaitingKeepsItsState, Retention!SnapshotAgrees
  <2> QED
    BY <2>3, <2>4 DEF PausedJob
<1>7. ASSUME ~beside, Retention!Commit
      PROVE  PausedJob'
  <2>1. \A c \in Cases : case'[c].status = case[c].status
                           /\ (c \notin job.stubs => case'[c] = case[c])
                           /\ (c \in job.stubs => case'[c].says = job.says[c])
    BY <1>0, <1>7 DEF Retention!Commit, Retention!Archive, RecordsTyped, CaseRows
  <2>2. /\ job'.pc = "idle" /\ job'.threads = {} /\ job'.stubs = {}
        /\ \A c \in Cases \ job.threads : graph'[c] = graph[c]
    BY <1>7 DEF Retention!Commit, Retention!Quiet
  <2>3. /\ \A c \in job.stubs : job.says[c] = case[c].status
        /\ \A c \in job.threads \cup job.stubs : case[c].status \in Retention!Terminal
        /\ Retention!WaitingKeepsItsState /\ Retention!SnapshotAgrees
    BY <1>0, <1>7 DEF PausedJob
  <2>4. "waiting" \notin Retention!Terminal
    BY DEF Retention!Terminal
  <2>5. \A c \in Cases : case'[c].status = "waiting" =>
          c \notin job.threads \cup job.stubs
    BY <2>1, <2>3, <2>4
  <2> QED
    BY <2>1, <2>2, <2>3, <2>5 DEF PausedJob
<1>8. ASSUME ~beside, Retention!Tick \/ UNCHANGED Retention!vars
      PROVE  PausedJob'
  BY <1>0, <1>8 DEF Retention!Tick, Retention!vars, PausedJob
<1>9. beside \in BOOLEAN
  BY <1>0 DEF RecordsTyped
<1> QED
  BY <1>1, <1>2, <1>3, <1>4, <1>5, <1>6, <1>7, <1>8, <1>9 DEF Retention!Next

\* A snapshot is archived for a case that is over only, also when it was reopened while the
\* job ran; and a job that runs while the workers pause leaves a case that waits its
\* checkpoint and its snapshot, and lets a snapshot say what its row says.
THEOREM WaitingCasesAreSpared == RecordsSpec => []RetentionSparesTheLive
<1>1. RecordsInit => RetInv
  BY InitRetInv DEF RecordsInit
<1>2. RetInv /\ [RecordsNext]_records => RetInv'
  <2> SUFFICES ASSUME RetInv, [RecordsNext]_records
               PROVE  RetInv'
    OBVIOUS
  <2>1. [Retention!Next]_(Retention!vars)
    BY DEF RecordsNext, records, retentionVars, Retention!vars
  <2>2. RecordsTyped'
    BY <2>1, WorkerTypes, JobTypes DEF RetInv, Retention!Next, Retention!vars, RecordsTyped
  <2> QED
    BY <2>1, <2>2, RowsStep, FoundStep, PausedStep DEF RetInv
<1>3. RetInv => RetentionSparesTheLive
  <2> SUFFICES ASSUME RetInv
               PROVE  RetentionSparesTheLive
    OBVIOUS
  <2>1. Retention!ArchivedSaysFinished
    BY DEF RetInv, RowsAgree, Retention!ArchivedSaysFinished
  <2>2. ASSUME NEW c \in Cases
        PROVE  graph[c].evidence \subseteq Alerts
    BY ThreadStatus DEF RetInv, RecordsTyped
  <2>3. Retention!TypeOK
    BY <2>2 DEF RetInv, RecordsTyped, RowsAgree, Retention!TypeOK, CaseRows
  <2> QED
    BY <2>1, <2>3 DEF RetInv, PausedJob, RetentionSparesTheLive
<1> QED
  BY <1>1, <1>2, <1>3, PTL DEF RecordsSpec

-----------------------------------------------------------------------------
(* The audit trail.                                                        *)
Entries == [event : Trail!Event, form : {"whole", "cut"}, prev : Nat]
Finds == [event : Trail!Event, form : {"whole", "cut"}]

\* A set of numbers up to n that has 0, and k with k - 1, has them all: else there would be
\* a least one that is missing.
LEMMA Upwards ==
  ASSUME NEW n \in Nat, NEW S \in SUBSET (0..n), 0 \in S,
         \A k \in 1..n : k - 1 \in S => k \in S
  PROVE  S = 0..n
<1> DEFINE Less == {p \in Nat \X Nat : p[1] < p[2]}
           T == (0..n) \ S
<1>1. IsWellFoundedOn(Less, Nat)
  BY NatLessThanWellFounded DEF OpToRel
<1>2. \A i, j \in Nat : i < j => <<i, j>> \in Less
  OBVIOUS
<1>3. T \in SUBSET Nat
  OBVIOUS
<1>4. ASSUME NEW m \in T, \A k \in T : ~(<<k, m>> \in Less)
      PROVE  FALSE
  <2>1. m \in 1..n /\ m - 1 \in 0..n /\ m - 1 \notin S
    BY <1>4
  <2>2. <<m - 1, m>> \in Less
    BY <2>1
  <2> QED
    BY <1>4, <2>1, <2>2
<1>5. T = {}
  <2> HIDE DEF Less, T
  <2> QED
    BY <1>1, <1>3, <1>4, WFMin
<1> QED
  BY <1>5

-----------------------------------------------------------------------------
(* The rows that an append or a save adds: Chain is a recursive function of *)
(* how many of the events were looked up.                                   *)
LinkAt(found, n, latest, chain, k) ==
    IF k = 0 THEN <<>>
    ELSE IF Trail!Missing(found[k], n)
         THEN Append(chain[k - 1], Trail!Link(found[k], chain[k - 1], latest))
         ELSE chain[k - 1]

LEMMA LinkTyped ==
  ASSUME table \in Seq(Entries), NEW found \in Seq(Finds), NEW n, NEW latest \in Nat,
         NEW chain, NEW k \in 0..Len(found), k # 0 => chain[k - 1] \in Seq(Entries)
  PROVE  LinkAt(found, n, latest, chain, k) \in Seq(Entries)
<1>1. CASE k = 0
  BY <1>1 DEF LinkAt
<1>2. CASE k # 0
  <2>1. found[k] \in Finds /\ Len(table) \in Nat /\ Len(chain[k - 1]) \in Nat
    BY <1>2
  <2>2. Trail!Link(found[k], chain[k - 1], latest) \in Entries
    BY <2>1 DEF Trail!Link, Entries, Finds
  <2>3. Append(chain[k - 1], Trail!Link(found[k], chain[k - 1], latest)) \in Seq(Entries)
    BY <1>2, <2>2
  <2> QED
    BY <1>2, <2>3 DEF LinkAt
<1> QED
  BY <1>1, <1>2

LEMMA ChainExists ==
  ASSUME table \in Seq(Entries), NEW found \in Seq(Finds), NEW n, NEW latest \in Nat
  PROVE  \E f : f = [k \in 0..Len(found) |-> LinkAt(found, n, latest, f, k)]
<1> DEFINE All == 0..Len(found)
           Upto(m, f) == \A k \in All : k <= m => f[k] = LinkAt(found, n, latest, f, k)
           S == {m \in All : \E f \in [All -> Seq(Entries)] : Upto(m, f)}
<1>0. Len(found) \in Nat
  OBVIOUS
<1>1. 0 \in S
  <2>1. [k \in All |-> <<>>] \in [All -> Seq(Entries)]
    OBVIOUS
  <2>2. Upto(0, [k \in All |-> <<>>])
    BY DEF LinkAt
  <2> HIDE DEF Upto
  <2> QED
    BY <1>0, <2>1, <2>2
<1>2. ASSUME NEW m \in 1..Len(found), m - 1 \in S
      PROVE  m \in S
  <2>1. PICK f \in [All -> Seq(Entries)] : Upto(m - 1, f)
    BY <1>2
  <2>2. m \in All /\ m - 1 \in All /\ m # 0
    BY <1>0
  <2>3. PICK r \in Seq(Entries) : r = LinkAt(found, n, latest, f, m)
    BY <2>2, LinkTyped
  <2>4. PICK g \in [All -> Seq(Entries)] : g = [f EXCEPT ![m] = r]
    BY <2>2
  <2>5. g[m] = r /\ \A k \in All : k # m => g[k] = f[k]
    BY <2>2, <2>4
  <2>6. Upto(m, g)
    <3> SUFFICES ASSUME NEW k \in All, k <= m
                 PROVE  g[k] = LinkAt(found, n, latest, g, k)
      OBVIOUS
    <3>1. k # 0 => k - 1 \in All /\ k - 1 # m
      BY <1>0
    <3>2. LinkAt(found, n, latest, g, k) = LinkAt(found, n, latest, f, k)
      BY <2>5, <3>1 DEF LinkAt
    <3>3. k # m => k <= m - 1
      BY <1>0
    <3> QED
      BY <2>1, <2>3, <2>5, <3>2, <3>3
  <2> HIDE DEF Upto
  <2> QED
    BY <2>2, <2>6
<1>3. S = All
  <2> HIDE DEF Upto
  <2>1. S \in SUBSET All
    OBVIOUS
  <2> HIDE DEF S
  <2> QED
    BY <1>0, <1>1, <1>2, <2>1, Upwards
<1>4. PICK f \in [All -> Seq(Entries)] : Upto(Len(found), f)
  <2>1. Len(found) \in All
    BY <1>0
  <2> HIDE DEF Upto
  <2> QED
    BY <1>3, <2>1
<1>5. \A k \in All : f[k] = LinkAt(found, n, latest, f, k)
  BY <1>0, <1>4
<1>6. f = [k \in All |-> LinkAt(found, n, latest, f, k)]
  BY <1>5
<1> QED
  BY <1>6

LEMMA ChainIs ==
  ASSUME table \in Seq(Entries), NEW found \in Seq(Finds), NEW n, NEW latest \in Nat,
         NEW k \in 0..Len(found)
  PROVE  Trail!Chain(found, n, latest)[k]
           = LinkAt(found, n, latest, Trail!Chain(found, n, latest), k)
<1> DEFINE P(f) == f = [j \in 0..Len(found) |-> LinkAt(found, n, latest, f, j)]
<1>1. Trail!Chain(found, n, latest) = CHOOSE f : P(f)
  BY DEF Trail!Chain, LinkAt
<1>2. \E f : P(f)
  BY ChainExists
<1>3. P(Trail!Chain(found, n, latest))
  <2> HIDE DEF P
  <2> QED
    BY <1>1, <1>2
<1> QED
  BY <1>3

-----------------------------------------------------------------------------
\* What one call adds: rows of the events it did not find, each but the first chained to
\* the one before, and none twice if it was given none twice.
AddsUpto(found, n, latest, k, new) ==
    /\ new \in Seq(Entries)
    /\ \A i \in 1..Len(new) :
         /\ new[i].prev = IF i = 1 THEN latest ELSE Len(table) + i - 1
         /\ \E m \in 1..k : /\ Trail!Missing(found[m], n)
                            /\ new[i].event = found[m].event /\ new[i].form = found[m].form
    /\ \A m \in 1..k : Trail!Missing(found[m], n) => \E i \in 1..Len(new) : new[i].event = found[m].event
    /\ (\A i, j \in 1..Len(found) : found[i].event = found[j].event => i = j)
         => \A i, j \in 1..Len(new) : new[i].event = new[j].event => i = j
Adds(found, n, latest, new) == AddsUpto(found, n, latest, Len(found), new)

LEMMA ChainedAdds ==
  ASSUME table \in Seq(Entries), NEW found \in Seq(Finds), NEW n, NEW latest \in Nat
  PROVE  /\ Adds(found, n, latest, Trail!Chained(found, n, latest))
         /\ Trail!Chained(found, n, latest) \in Seq(Entries)
<1> DEFINE c == Trail!Chain(found, n, latest)
           S == {k \in 0..Len(found) : AddsUpto(found, n, latest, k, c[k])}
<1>0. Len(found) \in Nat /\ Len(table) \in Nat
  OBVIOUS
<1>1. 0 \in S
  <2>1. c[0] = <<>> /\ 0 \in 0..Len(found)
    BY <1>0, ChainIs DEF LinkAt
  <2> HIDE DEF c
  <2>2. AddsUpto(found, n, latest, 0, c[0])
    BY <2>1 DEF AddsUpto
  <2> QED
    BY <2>1, <2>2
<1>2. ASSUME NEW k \in 1..Len(found), k - 1 \in S
      PROVE  k \in S
  <2>1. PICK old \in Seq(Entries) : old = c[k - 1] /\ AddsUpto(found, n, latest, k - 1, old)
    BY <1>2 DEF AddsUpto
  <2>2. PICK new : new = c[k]
    OBVIOUS
  <2>3. new = LinkAt(found, n, latest, c, k) /\ k # 0 /\ k \in 0..Len(found) /\ k - 1 \in Nat
    BY <1>0, <2>2, ChainIs
  <2>4. found[k] \in Finds
    BY <1>0
  <2> HIDE DEF c
  <2>5. AddsUpto(found, n, latest, k, new)
    <3>1. CASE ~Trail!Missing(found[k], n)
      <4>1. new = old
        BY <2>1, <2>3, <3>1 DEF LinkAt
      <4>2. \A m \in 1..k : m = k \/ m \in 1..(k - 1)
        BY <2>3
      <4>3. \A m \in 1..(k - 1) : m \in 1..k
        BY <2>3
      <4>4. ASSUME NEW i \in 1..Len(new)
            PROVE  \E m \in 1..k : /\ Trail!Missing(found[m], n)
                         /\ new[i].event = found[m].event /\ new[i].form = found[m].form
        <5>1. PICK m \in 1..(k - 1) : /\ Trail!Missing(found[m], n)
                 /\ new[i].event = found[m].event /\ new[i].form = found[m].form
          BY <2>1, <4>1 DEF AddsUpto
        <5> QED
          BY <4>3, <5>1
      <4>5. ASSUME NEW m \in 1..k, Trail!Missing(found[m], n)
            PROVE  \E i \in 1..Len(new) : new[i].event = found[m].event
        <5>1. m \in 1..(k - 1)
          BY <3>1, <4>2, <4>5
        <5> QED
          BY <2>1, <4>1, <4>5, <5>1 DEF AddsUpto
      <4> QED
        BY <2>1, <4>1, <4>4, <4>5 DEF AddsUpto
    <3>2. CASE Trail!Missing(found[k], n)
      <4>1. PICK link : link = Trail!Link(found[k], old, latest)
        OBVIOUS
      <4>2. /\ link \in Entries
            /\ link.event = found[k].event /\ link.form = found[k].form
            /\ link.prev = IF old = <<>> THEN latest ELSE Len(table) + Len(old)
        BY <1>0, <2>1, <2>4, <4>1 DEF Trail!Link, Entries, Finds
      <4>3. new = Append(old, link)
        BY <2>1, <2>3, <3>2, <4>1 DEF LinkAt
      <4>4. /\ new \in Seq(Entries) /\ Len(new) = Len(old) + 1 /\ Len(old) \in Nat
            /\ new[Len(old) + 1] = link /\ \A i \in 1..Len(old) : new[i] = old[i]
        BY <2>1, <4>2, <4>3
      <4>5. \A i \in 1..Len(new) : i \in 1..Len(old) \/ i = Len(old) + 1
        BY <4>4
      <4>6. \A m \in 1..k : m = k \/ m \in 1..(k - 1)
        BY <2>3
      <4>7. k \in 1..k /\ \A m \in 1..(k - 1) : m \in 1..k /\ m # k /\ m \in 1..Len(found)
        BY <1>0, <2>3
      <4>8. ASSUME NEW i \in 1..Len(new)
            PROVE  /\ new[i].prev = IF i = 1 THEN latest ELSE Len(table) + i - 1
                   /\ \E m \in 1..k : /\ Trail!Missing(found[m], n)
                          /\ new[i].event = found[m].event /\ new[i].form = found[m].form
        <5>1. CASE i \in 1..Len(old)
          <6>1. /\ old[i].prev = IF i = 1 THEN latest ELSE Len(table) + i - 1
                /\ \E m \in 1..(k - 1) : /\ Trail!Missing(found[m], n)
                       /\ old[i].event = found[m].event /\ old[i].form = found[m].form
            BY <2>1, <5>1 DEF AddsUpto
          <6>2. PICK m \in 1..(k - 1) : /\ Trail!Missing(found[m], n)
                   /\ old[i].event = found[m].event /\ old[i].form = found[m].form
            BY <6>1
          <6>3. new[i] = old[i] /\ m \in 1..k
            BY <4>4, <4>7, <5>1
          <6> QED
            BY <6>1, <6>2, <6>3
        <5>2. CASE i = Len(old) + 1
          <6>1. old = <<>> <=> Len(old) = 0
            BY <2>1
          <6>2. new[i].prev = IF i = 1 THEN latest ELSE Len(table) + i - 1
            BY <1>0, <4>2, <4>4, <5>2, <6>1
          <6> QED
            BY <3>2, <4>2, <4>4, <4>7, <5>2, <6>2
        <5> QED
          BY <4>5, <5>1, <5>2
      <4>9. ASSUME NEW m \in 1..k, Trail!Missing(found[m], n)
            PROVE  \E i \in 1..Len(new) : new[i].event = found[m].event
        <5>1. CASE m = k
          <6>1. Len(old) + 1 \in 1..Len(new)
            BY <4>4
          <6> QED
            BY <4>2, <4>4, <5>1, <6>1
        <5>2. CASE m # k
          <6>1. PICK i \in 1..Len(old) : old[i].event = found[m].event
            BY <2>1, <4>6, <4>9, <5>2 DEF AddsUpto
          <6>2. i \in 1..Len(new)
            BY <4>4
          <6> QED
            BY <4>4, <6>1, <6>2
        <5> QED
          BY <5>1, <5>2
      <4>10. ASSUME \A i, j \in 1..Len(found) : found[i].event = found[j].event => i = j
             PROVE  \A i, j \in 1..Len(new) : new[i].event = new[j].event => i = j
        <5>1. \A i, j \in 1..Len(old) : old[i].event = old[j].event => i = j
          BY <2>1, <4>10 DEF AddsUpto
        <5>2. \A i \in 1..Len(old) : old[i].event # found[k].event
          BY <2>1, <4>7, <4>10 DEF AddsUpto
        <5> QED
          BY <4>2, <4>4, <4>5, <5>1, <5>2
      <4> QED
        BY <4>4, <4>8, <4>9, <4>10 DEF AddsUpto
    <3> QED
      BY <3>1, <3>2
  <2> QED
    BY <2>2, <2>3, <2>5
<1>3. S = 0..Len(found)
  <2>1. S \in SUBSET (0..Len(found))
    OBVIOUS
  <2> HIDE DEF S
  <2> QED
    BY <1>0, <1>1, <1>2, <2>1, Upwards
<1>4. AddsUpto(found, n, latest, Len(found), c[Len(found)])
  <2>1. Len(found) \in 0..Len(found)
    BY <1>0
  <2> QED
    BY <1>3, <2>1
<1> QED
  BY <1>4 DEF Adds, AddsUpto, Trail!Chained
-----------------------------------------------------------------------------
(* Types of the audit trail.                                               *)
TrailDrivers ==
    [pc : {"idle", "loaded", "emitted", "append", "appended", "viewed", "versioned", "save"},
     view : Seq(Trail!Event), event : Seq(Trail!Event), version : Nat, base : Nat, latest : Nat]

TrailTyped ==
    /\ events \in 0..MaxEvents
    /\ table \in Seq(Entries)
    /\ channel \in Seq(Trail!Event) /\ Len(channel) <= Window
    /\ saved \in [version : Nat \ {0}, events : Seq(Trail!Event)] /\ Len(saved.events) <= Page
    /\ lessee \in Drivers \cup {NoDriver}
    /\ driver \in [Drivers -> TrailDrivers]
    /\ lapsed \in BOOLEAN

\* What a step of p leaves in its locals.
Moves(p, pc_, view_, event_, base_, latest_) ==
    /\ driver' \in [Drivers -> TrailDrivers]
    /\ \A q \in Drivers \ {p} : driver'[q] = driver[q]
    /\ driver'[p].pc = pc_ /\ driver'[p].view = view_ /\ driver'[p].event = event_
    /\ driver'[p].base = base_ /\ driver'[p].latest = latest_

LEMMA TrailConstants ==
  /\ NoDriver \notin Drivers /\ Deep \subseteq Labels /\ Requested \notin Labels
  /\ Window \in Nat \ {0} /\ Page \in Nat \ {0} /\ MaxEvents \in Nat \ {0}
  /\ MaxBeside \in Nat \ {0} /\ MaxSaves \in Nat \ {0} /\ MaxBeside <= MaxEvents
<1>1. Trail!AuditAssumption
  BY RecordsAssumption
<1>2. {Window, Page, MaxEvents, MaxBeside, MaxSaves} \subseteq Nat \ {0} /\ MaxBeside <= MaxEvents
  BY <1>1 DEF Trail!AuditAssumption
<1>3. NoDriver \notin Drivers /\ Deep \subseteq Labels /\ Requested \notin Labels
  BY <1>1 DEF Trail!AuditAssumption
<1> QED
  BY <1>2, <1>3

LEMMA BoundedIs ==
  ASSUME NEW s \in Seq(Trail!Event)
  PROVE  /\ Trail!Bounded(s) \in Seq(Trail!Event) /\ Len(Trail!Bounded(s)) <= Window
         /\ \E o \in Nat : \A k \in 1..Len(Trail!Bounded(s)) :
              k + o \in 1..Len(s) /\ Trail!Bounded(s)[k] = s[k + o]
<1>1. Len(s) \in Nat /\ Window \in Nat \ {0}
  BY TrailConstants
<1>2. CASE Len(s) > Window
  <2>1. PICK o \in Nat : o = Len(s) - Window
    BY <1>1, <1>2
  <2>2. Trail!Bounded(s) = SubSeq(s, o + 1, Len(s)) /\ 1 <= o + 1 /\ o + 1 <= Len(s)
    BY <1>1, <1>2, <2>1 DEF Trail!Bounded
  <2>3. \A k \in 1..Window : k + o \in 1..Len(s) /\ (o + 1) + k - 1 = k + o
    BY <1>1, <2>1
  <2>4. PICK b : b = Trail!Bounded(s)
    OBVIOUS
  <2>5. b = SubSeq(s, o + 1, Len(s)) /\ Len(s) - (o + 1) + 1 = Window
    BY <1>1, <2>1, <2>2, <2>4
  <2>6. b \in Seq(Trail!Event) /\ Len(b) = Window
    BY <1>1, <2>2, <2>5
  <2>7. \A k \in 1..Window : b[k] = s[k + o]
    BY <1>1, <2>2, <2>3, <2>5
  <2>8. \A k \in 1..Len(b) : k + o \in 1..Len(s) /\ b[k] = s[k + o]
    BY <2>3, <2>6, <2>7
  <2>9. Len(b) <= Window
    BY <1>1, <2>6
  <2> QED
    BY <2>4, <2>6, <2>8, <2>9
<1>3. CASE ~(Len(s) > Window)
  <2>1. Trail!Bounded(s) = SubSeq(s, 1, Len(s))
    BY <1>3 DEF Trail!Bounded
  <2>2. Trail!Bounded(s) = s
    BY <1>1, <2>1
  <2>3. \A k \in 1..Len(s) : k + 0 = k
    BY <1>1
  <2> QED
    BY <1>1, <1>3, <2>2, <2>3
<1> QED
  BY <1>2, <1>3

LEMMA FirstPageIs ==
  ASSUME NEW s \in Seq(Trail!Event)
  PROVE  /\ Trail!FirstPage(s) \in Seq(Trail!Event) /\ Len(Trail!FirstPage(s)) <= Page
         /\ Len(Trail!FirstPage(s)) <= Len(s)
         /\ \A k \in 1..Len(Trail!FirstPage(s)) : Trail!FirstPage(s)[k] = s[k]
         /\ \A k \in 1..Len(s) : k <= Page => k \in 1..Len(Trail!FirstPage(s))
<1>1. Len(s) \in Nat /\ Page \in Nat \ {0}
  BY TrailConstants
<1>2. PICK m \in 0..Len(s) : /\ m <= Page /\ Trail!FirstPage(s) = SubSeq(s, 1, m)
                             /\ m = Page \/ m = Len(s)
  BY <1>1 DEF Trail!FirstPage
<1>3. \A k \in 1..m : k \in 1..Len(s) /\ s[k] \in Trail!Event
  BY <1>1
<1> QED
  BY <1>1, <1>2, <1>3

LEMMA IdleTyped == Trail!Idle \in TrailDrivers
BY DEF Trail!Idle, TrailDrivers

LEMMA Settled ==
  ASSUME TrailTyped, NEW p \in Drivers, driver' = [driver EXCEPT ![p] = Trail!Idle]
  PROVE  Moves(p, "idle", <<>>, <<>>, 0, 0)
BY IdleTyped DEF TrailTyped, Moves, Trail!Idle

LEMMA TrailMoves ==
  ASSUME TrailTyped, NEW p \in Drivers
  PROVE  LET d == driver[p] IN
         /\ Trail!Take(p) => Moves(p, "loaded", channel, d.event, d.base, d.latest)
         /\ Trail!BeginAppend(p) => \E l \in Trail!Previous(Len(table)) :
              Moves(p, "append", d.view, d.event, Len(table), l)
         /\ Trail!CommitAppend(p) => Moves(p, "appended", d.view, d.event, d.base, d.latest)
         /\ Trail!View(p) => Moves(p, "viewed", channel, d.event, d.base, d.latest)
         /\ Trail!ReadVersion(p) => Moves(p, "versioned", d.view, d.event, d.base, d.latest)
         /\ Trail!BeginSave(p) => \E l \in Trail!Previous(Len(table)) :
              Moves(p, "save", d.view, d.event, Len(table), l)
         /\ Trail!CommitSave(p) \/ Trail!Conflict(p) \/ Trail!Crash(p)
              => Moves(p, "idle", <<>>, <<>>, 0, 0)
<1>0. /\ driver \in [Drivers -> TrailDrivers] /\ channel \in Seq(Trail!Event)
      /\ saved.version \in Nat /\ Len(table) \in Nat
  BY DEF TrailTyped
<1>1. Trail!Previous(Len(table)) \subseteq Nat
  BY <1>0 DEF Trail!Previous, Trail!Latest
<1>2. PICK d \in TrailDrivers : d = driver[p]
  BY <1>0
<1>3. ASSUME Trail!Take(p)
      PROVE  Moves(p, "loaded", channel, d.event, d.base, d.latest)
  BY <1>0, <1>2, <1>3 DEF Trail!Take, Moves, TrailDrivers
<1>4. ASSUME Trail!BeginAppend(p)
      PROVE  \E l \in Trail!Previous(Len(table)) : Moves(p, "append", d.view, d.event, Len(table), l)
  <2>1. PICK l \in Trail!Previous(Len(table)) :
          driver' = [driver EXCEPT ![p].pc = "append", ![p].base = Len(table), ![p].latest = l]
    BY <1>4 DEF Trail!BeginAppend
  <2>2. Moves(p, "append", d.view, d.event, Len(table), l)
    BY <1>0, <1>1, <1>2, <2>1 DEF Moves, TrailDrivers
  <2> QED
    BY <2>2
<1>5. ASSUME Trail!CommitAppend(p)
      PROVE  Moves(p, "appended", d.view, d.event, d.base, d.latest)
  BY <1>0, <1>2, <1>5 DEF Trail!CommitAppend, Moves, TrailDrivers
<1>6. ASSUME Trail!View(p)
      PROVE  Moves(p, "viewed", channel, d.event, d.base, d.latest)
  BY <1>0, <1>2, <1>6 DEF Trail!View, Moves, TrailDrivers
<1>7. ASSUME Trail!ReadVersion(p)
      PROVE  Moves(p, "versioned", d.view, d.event, d.base, d.latest)
  BY <1>0, <1>2, <1>7 DEF Trail!ReadVersion, Moves, TrailDrivers
<1>8. ASSUME Trail!BeginSave(p)
      PROVE  \E l \in Trail!Previous(Len(table)) : Moves(p, "save", d.view, d.event, Len(table), l)
  <2>1. PICK l \in Trail!Previous(Len(table)) :
          driver' = [driver EXCEPT ![p].pc = "save", ![p].base = Len(table), ![p].latest = l]
    BY <1>8 DEF Trail!BeginSave
  <2>2. Moves(p, "save", d.view, d.event, Len(table), l)
    BY <1>0, <1>1, <1>2, <2>1 DEF Moves, TrailDrivers
  <2> QED
    BY <2>2
<1>9. ASSUME Trail!CommitSave(p) \/ Trail!Conflict(p) \/ Trail!Crash(p)
      PROVE  Moves(p, "idle", <<>>, <<>>, 0, 0)
  BY <1>9, Settled DEF Trail!CommitSave, Trail!Conflict, Trail!Crash
<1> QED
  BY <1>2, <1>3, <1>4, <1>5, <1>6, <1>7, <1>8, <1>9

\* The three steps that know a new event or move one to the checkpoint.
LEMMA EventSteps ==
  ASSUME TrailTyped, NEW p \in Drivers
  PROVE  LET d == driver[p]
             asked == [label |-> Requested, at |-> events + 1]
         IN
         /\ Trail!Request(p) =>
              /\ events' = events + 1 /\ events' \in 1..MaxEvents /\ asked \in Trail!Event
              /\ channel' = Trail!Bounded(Append(d.view, asked)) /\ Append(d.view, asked) \in Seq(Trail!Event)
              /\ Moves(p, "loaded", channel', d.event, d.base, d.latest)
         /\ Trail!Emit(p) =>
              /\ events' = events + 1 /\ events' \in 1..MaxEvents /\ channel' = channel
              /\ \E e \in Trail!Event : /\ e.label \in Labels /\ e.at = events + 1
                                        /\ Moves(p, "emitted", d.view, <<e>>, d.base, d.latest)
         /\ Trail!Checkpoint(p) =>
              /\ events' = events /\ d.view \o d.event \in Seq(Trail!Event)
              /\ channel' = Trail!Bounded(d.view \o d.event)
              /\ Moves(p, "loaded", channel', <<>>, d.base, d.latest)
<1>0. /\ driver \in [Drivers -> TrailDrivers] /\ events \in 0..MaxEvents /\ lapsed \in BOOLEAN
  BY DEF TrailTyped
<1>1. PICK d \in TrailDrivers : d = driver[p]
  BY <1>0
<1>2. events < Trail!EventBound => events + 1 \in 1..MaxEvents
  BY <1>0, TrailConstants DEF Trail!EventBound
<1>3. events < Trail!EventBound => \A l \in Labels \cup {Requested} :
        [label |-> l, at |-> events + 1] \in Trail!Event
  BY <1>2 DEF Trail!Event
<1>4. d.view \in Seq(Trail!Event) /\ d.event \in Seq(Trail!Event)
  BY <1>1 DEF TrailDrivers
<1>5. ASSUME Trail!Request(p)
      PROVE  LET asked == [label |-> Requested, at |-> events + 1] IN
             /\ events' = events + 1 /\ events' \in 1..MaxEvents /\ asked \in Trail!Event
             /\ channel' = Trail!Bounded(Append(d.view, asked)) /\ Append(d.view, asked) \in Seq(Trail!Event)
             /\ Moves(p, "loaded", channel', d.event, d.base, d.latest)
  <2>1. PICK e \in Trail!Event : e = [label |-> Requested, at |-> events + 1]
    BY <1>3, <1>5 DEF Trail!Request
  <2>2. /\ events' = events + 1 /\ events < Trail!EventBound
        /\ channel' = Trail!Bounded(Append(d.view, e))
        /\ driver' = [driver EXCEPT ![p].view = channel']
        /\ d.pc = "loaded"
    BY <1>1, <1>5, <2>1 DEF Trail!Request, Trail!At
  <2>3. Append(d.view, e) \in Seq(Trail!Event)
    BY <1>4
  <2>4. channel' \in Seq(Trail!Event)
    BY <2>2, <2>3, BoundedIs
  <2>5. Moves(p, "loaded", channel', d.event, d.base, d.latest)
    BY <1>0, <1>1, <2>2, <2>4 DEF Moves, TrailDrivers
  <2> QED
    BY <1>2, <2>1, <2>2, <2>3, <2>5
<1>6. ASSUME Trail!Emit(p)
      PROVE  /\ events' = events + 1 /\ events' \in 1..MaxEvents /\ channel' = channel
             /\ \E e \in Trail!Event : /\ e.label \in Labels /\ e.at = events + 1
                                       /\ Moves(p, "emitted", d.view, <<e>>, d.base, d.latest)
  <2>1. /\ events' = events + 1 /\ events < Trail!EventBound /\ channel' = channel
    BY <1>6 DEF Trail!Emit
  <2>2. PICK l \in Labels : driver' = [driver EXCEPT ![p].pc = "emitted",
                               ![p].event = <<[label |-> l, at |-> events + 1]>>]
    BY <1>6 DEF Trail!Emit
  <2>3. PICK e \in Trail!Event : e = [label |-> l, at |-> events + 1]
    BY <1>3, <2>1
  <2>4. <<e>> \in Seq(Trail!Event)
    OBVIOUS
  <2>5. Moves(p, "emitted", d.view, <<e>>, d.base, d.latest)
    BY <1>0, <1>1, <2>2, <2>3, <2>4 DEF Moves, TrailDrivers
  <2>6. e.label \in Labels /\ e.at = events + 1
    BY <2>3
  <2> QED
    BY <1>2, <2>1, <2>5, <2>6
<1>7. ASSUME Trail!Checkpoint(p)
      PROVE  /\ events' = events /\ d.view \o d.event \in Seq(Trail!Event)
             /\ channel' = Trail!Bounded(d.view \o d.event)
             /\ Moves(p, "loaded", channel', <<>>, d.base, d.latest)
  <2>1. /\ events' = events /\ channel' = Trail!Bounded(d.view \o d.event)
        /\ driver' = [driver EXCEPT ![p].pc = "loaded", ![p].view = channel', ![p].event = <<>>]
    BY <1>1, <1>7 DEF Trail!Checkpoint
  <2>2. d.view \o d.event \in Seq(Trail!Event)
    BY <1>4
  <2>3. channel' \in Seq(Trail!Event) /\ <<>> \in Seq(Trail!Event)
    <3>1. channel' = Trail!Bounded(d.view \o d.event)
      BY <2>1
    <3>2. Trail!Bounded(d.view \o d.event) \in Seq(Trail!Event)
      BY <2>2, BoundedIs
    <3> QED
      BY <3>1, <3>2
  <2>4. PICK r \in TrailDrivers : r = [d EXCEPT !.pc = "loaded", !.view = channel', !.event = <<>>]
    BY <2>3 DEF TrailDrivers
  <2>5. /\ r.pc = "loaded" /\ r.view = channel' /\ r.event = <<>>
        /\ r.base = d.base /\ r.latest = d.latest
    BY <2>4 DEF TrailDrivers
  <2>6. driver' = [driver EXCEPT ![p] = r]
    BY <1>0, <1>1, <2>1, <2>4 DEF TrailDrivers
  <2>7. Moves(p, "loaded", channel', <<>>, d.base, d.latest)
    BY <1>0, <2>5, <2>6 DEF Moves
  <2> QED
    BY <2>1, <2>2, <2>7
<1> QED
  BY <1>1, <1>5, <1>6, <1>7
-----------------------------------------------------------------------------
(* The steps of a process by what they do to its locals, the checkpoint and *)
(* the table.                                                               *)
Same == UNCHANGED <<events, table, channel>>

Looks(p) ==
    \E from \in {"idle", "loaded", "viewed"}, to \in {"loaded", "viewed", "versioned"},
       v \in {channel, driver[p].view} :
      /\ driver[p].pc = from /\ Same
      /\ Moves(p, to, v, driver[p].event, driver[p].base, driver[p].latest)

Asks(p) ==
    \E e \in Trail!Event :
      /\ driver[p].pc = "loaded" /\ e.label = Requested /\ e.at = events + 1
      /\ events' = events + 1 /\ table' = table
      /\ Append(driver[p].view, e) \in Seq(Trail!Event)
      /\ channel' = Trail!Bounded(Append(driver[p].view, e))
      /\ Moves(p, "loaded", channel', driver[p].event, driver[p].base, driver[p].latest)

Emits(p) ==
    \E e \in Trail!Event :
      /\ driver[p].pc = "loaded" /\ e.label \in Labels /\ e.at = events + 1
      /\ events' = events + 1 /\ table' = table /\ channel' = channel
      /\ Moves(p, "emitted", driver[p].view, <<e>>, driver[p].base, driver[p].latest)

Begins(p) ==
    \E l \in Trail!Previous(Len(table)) :
      /\ Same
      /\ \/ /\ driver[p].pc = "emitted"
            /\ Moves(p, "append", driver[p].view, driver[p].event, Len(table), l)
         \/ /\ driver[p].pc = "versioned"
            /\ Moves(p, "save", driver[p].view, driver[p].event, Len(table), l)

Appends(p) ==
    /\ driver[p].pc = "append" /\ events' = events /\ channel' = channel
    /\ table' = table \o Trail!Chained(<<Trail!Whole(driver[p].event[1])>>,
                                       driver[p].base, driver[p].latest)
    /\ Moves(p, "appended", driver[p].view, driver[p].event, driver[p].base, driver[p].latest)

Checkpoints(p) ==
    /\ driver[p].pc = "appended" /\ events' = events /\ table' = table
    /\ driver[p].view \o driver[p].event \in Seq(Trail!Event)
    /\ channel' = Trail!Bounded(driver[p].view \o driver[p].event)
    /\ Moves(p, "loaded", channel', <<>>, driver[p].base, driver[p].latest)

Paged(s) == [k \in DOMAIN Trail!FirstPage(s) |-> Trail!Cut(Trail!FirstPage(s)[k])]
Saves(p) ==
    /\ driver[p].pc = "save" /\ events' = events /\ channel' = channel
    /\ table' = table \o Trail!Chained(Paged(driver[p].view), driver[p].base, driver[p].latest)
    /\ Moves(p, "idle", <<>>, <<>>, 0, 0)

Ends(p) == Same /\ Moves(p, "idle", <<>>, <<>>, 0, 0)

TrailStep(p) ==
    \/ Trail!Take(p) \/ Trail!Request(p) \/ Trail!Emit(p) \/ Trail!BeginAppend(p)
    \/ Trail!CommitAppend(p) \/ Trail!Checkpoint(p) \/ Trail!View(p) \/ Trail!ReadVersion(p)
    \/ Trail!BeginSave(p) \/ Trail!CommitSave(p) \/ Trail!Conflict(p) \/ Trail!Crash(p)

LEMMA TrailKinds ==
  ASSUME TrailTyped, NEW p \in Drivers, TrailStep(p)
  PROVE  \/ Looks(p) \/ Asks(p) \/ Emits(p) \/ Begins(p) \/ Appends(p) \/ Checkpoints(p)
         \/ Saves(p) \/ Ends(p)
<1>1. CASE Trail!Take(p)
  <2>1. driver[p].pc = "idle" /\ Same
    BY <1>1 DEF Trail!Take, Trail!At, Same
  <2> QED
    BY <1>1, <2>1, TrailMoves DEF Looks
<1>2. CASE Trail!View(p)
  <2>1. driver[p].pc = "loaded" /\ Same
    BY <1>2 DEF Trail!View, Trail!At, Same
  <2> QED
    BY <1>2, <2>1, TrailMoves DEF Looks
<1>3. CASE Trail!ReadVersion(p)
  <2>1. driver[p].pc = "viewed" /\ Same
    BY <1>3 DEF Trail!ReadVersion, Trail!At, Same
  <2> QED
    BY <1>3, <2>1, TrailMoves DEF Looks
<1>4. CASE Trail!Request(p)
  <2>1. driver[p].pc = "loaded" /\ table' = table
    BY <1>4 DEF Trail!Request, Trail!At
  <2>2. PICK e \in Trail!Event : e = [label |-> Requested, at |-> events + 1]
    BY <1>4, EventSteps
  <2>3. e.label = Requested /\ e.at = events + 1
    BY <2>2
  <2> QED
    BY <1>4, <2>1, <2>2, <2>3, EventSteps DEF Asks
<1>5. CASE Trail!Emit(p)
  <2>1. driver[p].pc = "loaded" /\ table' = table
    BY <1>5 DEF Trail!Emit, Trail!At
  <2> QED
    BY <1>5, <2>1, EventSteps DEF Emits
<1>6. CASE Trail!BeginAppend(p)
  <2>1. driver[p].pc = "emitted" /\ Same
    BY <1>6 DEF Trail!BeginAppend, Trail!At, Same
  <2> QED
    BY <1>6, <2>1, TrailMoves DEF Begins
<1>7. CASE Trail!BeginSave(p)
  <2>1. driver[p].pc = "versioned" /\ Same
    BY <1>7 DEF Trail!BeginSave, Trail!At, Same
  <2> QED
    BY <1>7, <2>1, TrailMoves DEF Begins
<1>8. CASE Trail!CommitAppend(p)
  <2>1. Moves(p, "appended", driver[p].view, driver[p].event, driver[p].base, driver[p].latest)
    BY <1>8, TrailMoves
  <2> QED
    BY <1>8, <2>1 DEF Trail!CommitAppend, Trail!At, Appends
<1>9. CASE Trail!Checkpoint(p)
  <2>1. driver[p].pc = "appended" /\ table' = table
    BY <1>9 DEF Trail!Checkpoint, Trail!Ready, Trail!At
  <2> QED
    BY <1>9, <2>1, EventSteps DEF Checkpoints
<1>10. CASE Trail!CommitSave(p)
  <2>1. Moves(p, "idle", <<>>, <<>>, 0, 0)
    BY <1>10, TrailMoves
  <2> QED
    BY <1>10, <2>1 DEF Trail!CommitSave, Trail!At, Saves, Paged
<1>11. CASE Trail!Conflict(p)
  <2>1. Moves(p, "idle", <<>>, <<>>, 0, 0)
    BY <1>11, TrailMoves
  <2> QED
    BY <1>11, <2>1 DEF Trail!Conflict, Ends, Same
<1>12. CASE Trail!Crash(p)
  <2>1. Moves(p, "idle", <<>>, <<>>, 0, 0)
    BY <1>12, TrailMoves
  <2> QED
    BY <1>12, <2>1 DEF Trail!Crash, Ends, Same
<1> QED
  BY <1>1, <1>2, <1>3, <1>4, <1>5, <1>6, <1>7, <1>8, <1>9, <1>10, <1>11, <1>12 DEF TrailStep

\* Every other step leaves all of them alone.
LEMMA TrailNext ==
  ASSUME [Trail!Next]_(Trail!vars)
  PROVE  (\E p \in Drivers : TrailStep(p)) \/ (Same /\ driver' = driver)
BY DEF Trail!Next, Trail!vars, Trail!Lapse, TrailStep, Same

-----------------------------------------------------------------------------
(* The invariant.                                                          *)
Rising(s) == \A i, j \in 1..Len(s) : i < j => s[i].at < s[j].at

\* What a process read of the table, before the rows it is about to add.
Reading ==
    \A p \in Drivers :
       /\ driver[p].base <= Len(table)
       /\ driver[p].pc \in {"append", "save"} =>
            \A n, l \in Nat : driver[p].base = n /\ driver[p].latest = l => l \in Trail!Previous(n)

\* It holds an event from the node until the checkpoint, younger than its view.
InHand == {"emitted", "append", "appended"}
Holding ==
    \A p \in Drivers :
       /\ Rising(driver[p].view)
       /\ driver[p].pc \notin InHand => driver[p].event = <<>>
       /\ driver[p].pc \in InHand =>
            \E e \in Trail!Event :
               /\ driver[p].event = <<e>> /\ e.label \in Labels
               /\ \A k \in 1..Len(driver[p].view) : driver[p].view[k].at < e.at

IsStored(e) == \E i \in 1..Len(table) : table[i].event = e
InView(e) == \E k \in 1..Len(channel) : channel[k] = e
Carried(e) ==
    \E p \in Drivers : \/ \E k \in 1..Len(driver[p].view) : driver[p].view[k] = e
                       \/ \E k \in 1..Len(driver[p].event) : driver[p].event[k] = e
Known(e) == IsStored(e) \/ InView(e) \/ Carried(e)

\* The clock tells events apart.
OneEventATime ==
    /\ Rising(channel)
    /\ \A e \in Trail!Event : Known(e) => e.at <= events
    /\ \A e, f \in Trail!Event : Known(e) /\ Known(f) /\ e.at = f.at => e = f

\* What a checkpoint or a view remembers was appended by the wrapper.
Kept(s) == \A k \in 1..Len(s) : s[k].label # Requested => IsStored(s[k])
Remembered ==
    /\ Kept(channel)
    /\ \A p \in Drivers : /\ Kept(driver[p].view)
                          /\ driver[p].pc = "appended" => Kept(driver[p].event)

\* As long as no lease lapsed, one process drives, and what it read of the table is true.
Sole == ~lapsed =>
    \A p \in Drivers : driver[p].pc # "idle" =>
       /\ lessee = p
       /\ driver[p].pc \in {"append", "save"} => driver[p].base = Len(table)

\* A row points back, and if one process drives to the row before it or to the latest one.
PointsBack == \A i \in 1..Len(table) : table[i].prev < i
Linked == ~lapsed =>
    \A i \in 1..Len(table) :
       IF table[i].prev = 0 THEN i = 1
       ELSE table[i].prev = i - 1 \/ table[i].prev \in Trail!Latest(i - 1)
Single == ~lapsed /\ Trail!NothingCut =>
    \A i, j \in 1..Len(table) : table[i].event = table[j].event => i = j

TrailInv ==
    /\ TrailTyped /\ Reading /\ Holding /\ OneEventATime /\ Remembered
    /\ Sole /\ PointsBack /\ Linked /\ Single
-----------------------------------------------------------------------------
(* The table only grows.                                                   *)
Extends ==
    /\ table' \in Seq(Entries) /\ Len(table) \in Nat /\ Len(table') \in Nat
    /\ Len(table) <= Len(table')
    /\ \A i \in 1..Len(table) : i \in 1..Len(table') /\ table'[i] = table[i]

\* The rows that are new are those of the sequence new.
Grows(new) ==
    /\ Extends /\ new \in Seq(Entries) /\ Len(new) \in Nat
    /\ Len(table') = Len(table) + Len(new)
    /\ \A i \in 1..Len(new) : table'[Len(table) + i] = new[i]
    /\ \A i \in 1..Len(table') : i \notin 1..Len(table) =>
         i - Len(table) \in 1..Len(new) /\ table'[i] = new[i - Len(table)]

LEMMA TableGrows ==
  ASSUME table \in Seq(Entries), NEW new \in Seq(Entries), table' = table \o new
  PROVE  Grows(new)
<1>1. PICK t \in Seq(Entries) : t = table
  OBVIOUS
<1>2. PICK s : s = t \o new
  OBVIOUS
<1>3. /\ s \in Seq(Entries) /\ Len(s) = Len(t) + Len(new) /\ Len(t) \in Nat /\ Len(new) \in Nat
      /\ \A i \in 1..Len(t) : s[i] = t[i]
      /\ \A i \in 1..Len(s) : i \notin 1..Len(t) => s[i] = new[i - Len(t)]
  BY <1>2
<1>4. /\ \A i \in 1..Len(t) : i \in 1..Len(s)
      /\ \A i \in 1..Len(s) : i \notin 1..Len(t) => i - Len(t) \in 1..Len(new)
      /\ \A i \in 1..Len(new) : Len(t) + i \in 1..Len(s) /\ Len(t) + i \notin 1..Len(t)
                                /\ Len(t) + i - Len(t) = i
  BY <1>3
<1>5. \A i \in 1..Len(new) : s[Len(t) + i] = new[i]
  BY <1>3, <1>4
<1> QED
  BY <1>1, <1>2, <1>3, <1>4, <1>5 DEF Grows, Extends

LEMMA FindsAre ==
  ASSUME NEW e \in Trail!Event
  PROVE  /\ Trail!Whole(e) \in Finds /\ Trail!Whole(e).event = e
         /\ Trail!Cut(e) \in Finds /\ Trail!Cut(e).event = e
BY DEF Trail!Whole, Trail!Cut, Finds

\* What an append or a save looks up: events the process carries, none twice.
LEMMA RowsAdded ==
  ASSUME TrailTyped, Holding, NEW p \in Drivers, Appends(p) \/ Saves(p)
  PROVE  \E found \in Seq(Finds), new \in Seq(Entries) :
           /\ Adds(found, driver[p].base, driver[p].latest, new) /\ Grows(new)
           /\ Len(found) \in Nat
           /\ \A m \in 1..Len(found) : Carried(found[m].event)
           /\ \A i, j \in 1..Len(found) : found[i].event = found[j].event => i = j
           /\ Appends(p) => Len(found) = 1 /\ found[1].event = driver[p].event[1]
           /\ Saves(p) => \A k \in 1..Len(driver[p].view) : k <= Page =>
                k \in 1..Len(found) /\ found[k].event = driver[p].view[k]
<1>0. PICK d \in TrailDrivers : d = driver[p]
  BY DEF TrailTyped
<1>1. /\ d.view \in Seq(Trail!Event) /\ d.event \in Seq(Trail!Event) /\ d.latest \in Nat
      /\ table \in Seq(Entries)
  BY <1>0 DEF TrailDrivers, TrailTyped
<1>2. CASE Appends(p)
  <2>1. PICK e \in Trail!Event : d.event = <<e>>
    BY <1>0, <1>2 DEF Appends, Holding, InHand
  <2>2. d.event[1] = e /\ Len(d.event) = 1
    BY <2>1
  <2>3. PICK f \in Finds : f = Trail!Whole(e)
    BY FindsAre
  <2>4. PICK found \in Seq(Finds) : found = <<f>>
    <3>1. <<f>> \in Seq(Finds)
      OBVIOUS
    <3> QED
      BY <3>1
  <2>5. Len(found) = 1 /\ found[1].event = e
    <3>1. f.event = e
      BY <2>3, FindsAre
    <3>2. Len(found) = 1 /\ found[1] = f
      BY <2>4
    <3> QED
      BY <3>1, <3>2
  <2>6. PICK new : new = Trail!Chained(found, d.base, d.latest)
    OBVIOUS
  <2>7. Adds(found, d.base, d.latest, new) /\ new \in Seq(Entries)
    BY <1>1, <2>6, ChainedAdds
  <2>8. Grows(new)
    <3>1. table' = table \o new
      BY <1>0, <1>2, <2>2, <2>3, <2>4, <2>6 DEF Appends
    <3> QED
      BY <1>1, <2>7, <3>1, TableGrows
  <2>9. Carried(e)
    <3>1. 1 \in 1..Len(d.event)
      BY <2>2
    <3> QED
      BY <1>0, <2>2, <3>1 DEF Carried
  <2>10. \A m \in 1..Len(found) : m = 1
    BY <2>5
  <2>11. ~Saves(p)
    BY <1>2 DEF Appends, Saves
  <2> QED
    BY <1>0, <2>2, <2>5, <2>7, <2>8, <2>9, <2>10, <2>11
<1>3. CASE Saves(p)
  <2>1. PICK page : page = Trail!FirstPage(d.view)
    OBVIOUS
  <2>2. /\ page \in Seq(Trail!Event) /\ Len(page) \in Nat /\ DOMAIN page = 1..Len(page)
        /\ Len(page) <= Len(d.view) /\ \A k \in 1..Len(page) : page[k] = d.view[k]
        /\ \A k \in 1..Len(d.view) : k <= Page => k \in 1..Len(page)
    <3>1. d.view \in Seq(Trail!Event)
      BY <1>1
    <3>2. /\ page \in Seq(Trail!Event)
          /\ Len(page) <= Len(d.view) /\ \A k \in 1..Len(page) : page[k] = d.view[k]
          /\ \A k \in 1..Len(d.view) : k <= Page => k \in 1..Len(page)
      BY <2>1, <3>1, FirstPageIs
    <3> QED
      BY <3>2
  <2>3. PICK found : found = [k \in 1..Len(page) |-> Trail!Cut(page[k])]
    OBVIOUS
  <2>4. found = Paged(d.view)
    BY <2>1, <2>2, <2>3 DEF Paged
  <2>5. \A k \in 1..Len(page) : Trail!Cut(page[k]) \in Finds
    BY <2>2, FindsAre
  <2>6. /\ found \in Seq(Finds) /\ Len(found) = Len(page)
        /\ \A k \in 1..Len(page) : found[k].event = page[k]
    <3>1. \A k \in 1..Len(page) : found[k] = Trail!Cut(page[k])
      BY <2>3
    <3>2. found \in [1..Len(page) -> Finds]
      BY <2>3, <2>5
    <3>3. found \in Seq(Finds) /\ Len(found) = Len(page)
      BY <2>2, <2>3, <3>2
    <3>4. ASSUME NEW k \in 1..Len(page)
          PROVE  found[k].event = page[k]
      <4>1. PICK e \in Trail!Event : e = page[k]
        BY <2>2
      <4>2. found[k] = Trail!Cut(e)
        BY <3>1, <4>1
      <4>3. Trail!Cut(e).event = e
        BY FindsAre
      <4> QED
        BY <4>1, <4>2, <4>3
    <3> QED
      BY <3>3, <3>4
  <2>7. PICK new : new = Trail!Chained(found, d.base, d.latest)
    OBVIOUS
  <2>8. Adds(found, d.base, d.latest, new) /\ new \in Seq(Entries)
    BY <1>1, <2>6, <2>7, ChainedAdds
  <2>9. Grows(new)
    <3>1. table' = table \o new
      BY <1>0, <1>3, <2>4, <2>7 DEF Saves
    <3> QED
      BY <1>1, <2>8, <3>1, TableGrows
  <2>10. \A m \in 1..Len(found) : m \in 1..Len(d.view) /\ found[m].event = d.view[m]
    BY <1>1, <2>2, <2>6
  <2>11. \A m \in 1..Len(found) : Carried(found[m].event)
    BY <1>0, <2>10 DEF Carried
  <2>12. ASSUME NEW i \in 1..Len(found), NEW j \in 1..Len(found), found[i].event = found[j].event
         PROVE  i = j
    <3>1. d.view[i].at = d.view[j].at /\ d.view[i] \in Trail!Event /\ i \in 1..Len(d.view) /\ j \in 1..Len(d.view)
      BY <1>1, <2>10, <2>12
    <3>2. Rising(d.view)
      BY <1>0 DEF Holding
    <3>3. d.view[i].at \in Nat
      BY <3>1, TrailConstants DEF Trail!Event
    <3>4. ~(i < j) /\ ~(j < i)
      BY <3>1, <3>2, <3>3 DEF Rising
    <3> QED
      BY <3>1, <3>4
  <2>13. ~Appends(p)
    BY <1>3 DEF Appends, Saves
  <2>14. \A k \in 1..Len(d.view) : k <= Page => k \in 1..Len(found) /\ found[k].event = d.view[k]
    BY <2>2, <2>6, <2>10
  <2> QED
    BY <1>0, <2>2, <2>6, <2>8, <2>9, <2>11, <2>12, <2>13, <2>14
<1> QED
  BY <1>2, <1>3

LEMMA TableExtends ==
  ASSUME TrailTyped, Holding, [Trail!Next]_(Trail!vars)
  PROVE  Extends
<1>1. CASE table' = table
  BY <1>1 DEF Extends, TrailTyped
<1>2. ASSUME NEW p \in Drivers, Appends(p) \/ Saves(p)
      PROVE  Extends
  BY <1>2, RowsAdded DEF Grows
<1> QED
  BY <1>1, <1>2, TrailNext, TrailKinds
  DEF Same, Looks, Asks, Emits, Begins, Checkpoints, Ends

\* What a process read of the table stays so.
LEMMA PreviousKept ==
  ASSUME Extends, table \in Seq(Entries), NEW n \in Nat, n <= Len(table)
  PROVE  Trail!Previous(n)' = Trail!Previous(n) /\ Trail!Latest(n)' = Trail!Latest(n)
<1>1. \A i \in 1..n : i \in 1..Len(table) /\ table'[i] = table[i]
  BY DEF Extends
<1>2. Trail!Latest(n)' = Trail!Latest(n)
  BY <1>1 DEF Trail!Latest
<1> QED
  BY <1>2 DEF Trail!Previous

LEMMA PreviousIs ==
  ASSUME table \in Seq(Entries), NEW n \in Nat, NEW l \in Trail!Previous(n)
  PROVE  l \in Nat /\ l <= n /\ (l = 0 => n = 0) /\ (n # 0 => l \in Trail!Latest(n))
BY DEF Trail!Previous, Trail!Latest
-----------------------------------------------------------------------------
(* Every step keeps the invariant.                                         *)
LEMMA TrailTypes ==
  ASSUME TrailTyped, Holding, [Trail!Next]_(Trail!vars)
  PROVE  TrailTyped'
<1>1. table' \in Seq(Entries)
  BY TableExtends DEF Extends
<1>2. /\ saved' \in [version : Nat \ {0}, events : Seq(Trail!Event)] /\ Len(saved'.events) <= Page
  <2>1. CASE saved' = saved
    BY <2>1 DEF TrailTyped
  <2>2. ASSUME NEW p \in Drivers, Trail!CommitSave(p)
        PROVE  saved' \in [version : Nat \ {0}, events : Seq(Trail!Event)] /\ Len(saved'.events) <= Page
    <3>1. PICK page : page = Trail!FirstPage(driver[p].view)
      OBVIOUS
    <3>2. driver[p].view \in Seq(Trail!Event)
      BY DEF TrailTyped, TrailDrivers
    <3>3. page \in Seq(Trail!Event) /\ Len(page) <= Page
      BY <3>1, <3>2, FirstPageIs
    <3>4. saved.version + 1 \in Nat \ {0}
      <4>1. saved.version \in Nat
        BY DEF TrailTyped
      <4> QED
        BY <4>1
    <3>5. saved' = [version |-> saved.version + 1, events |-> page]
      BY <2>2, <3>1 DEF Trail!CommitSave
    <3>6. saved'.events = page
      BY <3>5
    <3>7. saved' \in [version : Nat \ {0}, events : Seq(Trail!Event)]
      BY <3>3, <3>4, <3>5
    <3> QED
      BY <3>3, <3>6, <3>7
  <2> QED
    BY <2>1, <2>2 DEF Trail!Next, Trail!vars, Trail!Take, Trail!Request, Trail!Emit,
         Trail!BeginAppend, Trail!CommitAppend, Trail!Checkpoint, Trail!View, Trail!ReadVersion,
         Trail!BeginSave, Trail!Conflict, Trail!Crash, Trail!Lapse
<1>3. lessee' \in Drivers \cup {NoDriver} /\ lapsed' \in BOOLEAN
  BY DEF TrailTyped, Trail!Next, Trail!vars, Trail!Take, Trail!Request, Trail!Emit,
       Trail!BeginAppend, Trail!CommitAppend, Trail!Checkpoint, Trail!View, Trail!ReadVersion,
       Trail!BeginSave, Trail!CommitSave, Trail!Conflict, Trail!Crash, Trail!Lapse, Trail!Leave
<1>4. /\ events' \in 0..MaxEvents /\ driver' \in [Drivers -> TrailDrivers]
      /\ channel' \in Seq(Trail!Event) /\ Len(channel') <= Window
  <2>1. CASE Same /\ driver' = driver
    BY <2>1 DEF Same, TrailTyped
  <2>2. ASSUME NEW p \in Drivers,
               Looks(p) \/ Emits(p) \/ Begins(p) \/ Appends(p) \/ Saves(p) \/ Ends(p)
        PROVE  driver' \in [Drivers -> TrailDrivers] /\ channel' = channel
    BY <2>2 DEF Looks, Emits, Begins, Appends, Saves, Ends, Same, Moves
  <2>3. ASSUME NEW p \in Drivers, Asks(p)
        PROVE  /\ driver' \in [Drivers -> TrailDrivers]
               /\ channel' \in Seq(Trail!Event) /\ Len(channel') <= Window
    <3>1. PICK s \in Seq(Trail!Event) : channel' = Trail!Bounded(s)
      BY <2>3 DEF Asks
    <3>2. Trail!Bounded(s) \in Seq(Trail!Event) /\ Len(Trail!Bounded(s)) <= Window
      BY BoundedIs
    <3>3. driver' \in [Drivers -> TrailDrivers]
      BY <2>3 DEF Asks, Moves
    <3> QED
      BY <3>1, <3>2, <3>3
  <2>4. ASSUME NEW p \in Drivers, Checkpoints(p)
        PROVE  /\ driver' \in [Drivers -> TrailDrivers] /\ events' = events
               /\ channel' \in Seq(Trail!Event) /\ Len(channel') <= Window
    <3>1. PICK s \in Seq(Trail!Event) : channel' = Trail!Bounded(s)
      BY <2>4 DEF Checkpoints
    <3>2. Trail!Bounded(s) \in Seq(Trail!Event) /\ Len(Trail!Bounded(s)) <= Window
      BY BoundedIs
    <3>3. driver' \in [Drivers -> TrailDrivers] /\ events' = events
      BY <2>4 DEF Checkpoints, Moves
    <3> QED
      BY <3>1, <3>2, <3>3
  <2>5. ASSUME NEW p \in Drivers, Asks(p) \/ Emits(p)
        PROVE  events' \in 0..MaxEvents
    <3>1. PICK e \in Trail!Event : e.at = events + 1 /\ events' = events + 1
      BY <2>5 DEF Asks, Emits
    <3>2. e.at \in 1..MaxEvents
      BY DEF Trail!Event
    <3> QED
      BY <3>1, <3>2, TrailConstants
  <2>6. ASSUME NEW p \in Drivers,
               Looks(p) \/ Begins(p) \/ Appends(p) \/ Saves(p) \/ Ends(p)
        PROVE  events' = events
    BY <2>6 DEF Looks, Begins, Appends, Saves, Ends, Same
  <2>7. events \in 0..MaxEvents /\ channel \in Seq(Trail!Event) /\ Len(channel) <= Window
    BY DEF TrailTyped
  <2>8. CASE \E p \in Drivers : TrailStep(p)
    BY <2>2, <2>3, <2>4, <2>5, <2>6, <2>7, <2>8, TrailKinds
  <2> QED
    BY <2>1, <2>8, TrailNext
<1> QED
  BY <1>1, <1>2, <1>3, <1>4 DEF TrailTyped

\* A checkpoint keeps the end of what a process knows.
LEMMA BoundedKeeps ==
  ASSUME NEW s \in Seq(Trail!Event), Rising(s)
  PROVE  /\ Rising(Trail!Bounded(s))
         /\ \A k \in 1..Len(Trail!Bounded(s)) : \E j \in 1..Len(s) : Trail!Bounded(s)[k] = s[j]
<1>1. PICK b \in Seq(Trail!Event) : b = Trail!Bounded(s)
  BY BoundedIs
<1>2. PICK o \in Nat : \A k \in 1..Len(b) : k + o \in 1..Len(s) /\ b[k] = s[k + o]
  BY <1>1, BoundedIs
<1>3. Rising(b)
  <2> SUFFICES ASSUME NEW i \in 1..Len(b), NEW j \in 1..Len(b), i < j
               PROVE  b[i].at < b[j].at
    BY DEF Rising
  <2>1. i + o < j + o
    OBVIOUS
  <2> QED
    BY <1>2, <2>1 DEF Rising
<1> QED
  BY <1>1, <1>2, <1>3

\* An event that is younger than a sequence goes to its end.
LEMMA RisingOn ==
  ASSUME NEW s \in Seq(Trail!Event), Rising(s), NEW e \in Trail!Event,
         \A k \in 1..Len(s) : s[k].at < e.at, NEW t \in Seq(Trail!Event),
         Len(t) = Len(s) + 1, t[Len(s) + 1] = e, \A k \in 1..Len(s) : t[k] = s[k]
  PROVE  Rising(t)
<1> SUFFICES ASSUME NEW i \in 1..Len(t), NEW j \in 1..Len(t), i < j
             PROVE  t[i].at < t[j].at
  BY DEF Rising
<1>1. Len(s) \in Nat
  OBVIOUS
<1>2. i \in 1..Len(s)
  BY <1>1
<1>3. CASE j \in 1..Len(s)
  BY <1>2, <1>3 DEF Rising
<1>4. CASE j = Len(s) + 1
  BY <1>2, <1>4
<1> QED
  BY <1>1, <1>3, <1>4

\* What the two steps write that put an event into the checkpoint.
LEMMA AskedIs ==
  ASSUME TrailTyped, Holding, OneEventATime, NEW p \in Drivers, Asks(p)
  PROVE  \E e \in Trail!Event :
           /\ e.label = Requested /\ e.at = events + 1 /\ Rising(channel')
           /\ \A k \in 1..Len(channel') : \/ channel'[k] = e
                \/ \E j \in 1..Len(driver[p].view) : channel'[k] = driver[p].view[j]
<1>1. PICK e \in Trail!Event :
        /\ e.label = Requested /\ e.at = events + 1
        /\ channel' = Trail!Bounded(Append(driver[p].view, e))
  BY DEF Asks
<1>2. PICK v \in Seq(Trail!Event) : v = driver[p].view
  BY DEF TrailTyped, TrailDrivers
<1>3. PICK t \in Seq(Trail!Event) : t = Append(v, e)
  <2>1. Append(v, e) \in Seq(Trail!Event)
    OBVIOUS
  <2> QED
    BY <2>1
<1>4. Len(t) = Len(v) + 1 /\ t[Len(v) + 1] = e /\ (\A k \in 1..Len(v) : t[k] = v[k]) /\ Len(v) \in Nat
  BY <1>3
<1>5. ASSUME NEW k \in 1..Len(v)
      PROVE  v[k].at < e.at
  <2>1. v[k] \in Trail!Event /\ Carried(v[k])
    BY <1>2 DEF Carried
  <2>2. v[k].at <= events /\ v[k].at \in Nat /\ events \in Nat
    BY <2>1, TrailConstants DEF OneEventATime, Known, Trail!Event, TrailTyped
  <2> QED
    BY <1>1, <2>2
<1>6. Rising(v)
  BY <1>2 DEF Holding
<1>7. Rising(t)
  BY <1>4, <1>5, <1>6, RisingOn
<1>8. /\ channel' = Trail!Bounded(t) /\ Rising(channel')
      /\ \A k \in 1..Len(channel') : \E j \in 1..Len(t) : channel'[k] = t[j]
  BY <1>1, <1>2, <1>3, <1>7, BoundedKeeps
<1>9. \A j \in 1..Len(t) : j \in 1..Len(v) \/ j = Len(v) + 1
  BY <1>4
<1> QED
  BY <1>1, <1>2, <1>4, <1>8, <1>9

LEMMA CheckpointIs ==
  ASSUME TrailTyped, Holding, NEW p \in Drivers, Checkpoints(p)
  PROVE  /\ Rising(channel')
         /\ \A k \in 1..Len(channel') :
              \/ \E j \in 1..Len(driver[p].view) : channel'[k] = driver[p].view[j]
              \/ \E j \in 1..Len(driver[p].event) : channel'[k] = driver[p].event[j]
<1>1. PICK v \in Seq(Trail!Event) : v = driver[p].view
  BY DEF TrailTyped, TrailDrivers
<1>2. PICK e \in Trail!Event : driver[p].event = <<e>> /\ \A k \in 1..Len(v) : v[k].at < e.at
  BY <1>1 DEF Checkpoints, Holding, InHand
<1>3. PICK t \in Seq(Trail!Event) : t = v \o <<e>>
  <2>1. v \o <<e>> \in Seq(Trail!Event)
    OBVIOUS
  <2> QED
    BY <2>1
<1>4. Len(t) = Len(v) + 1 /\ t[Len(v) + 1] = e /\ (\A k \in 1..Len(v) : t[k] = v[k]) /\ Len(v) \in Nat
  BY <1>3
<1>5. Rising(v)
  BY <1>1 DEF Holding
<1>6. Rising(t)
  BY <1>2, <1>4, <1>5, RisingOn
<1>7. channel' = Trail!Bounded(t)
  BY <1>1, <1>2, <1>3 DEF Checkpoints
<1>8. Rising(channel') /\ \A k \in 1..Len(channel') : \E j \in 1..Len(t) : channel'[k] = t[j]
  BY <1>6, <1>7, BoundedKeeps
<1>9. \A j \in 1..Len(t) : j \in 1..Len(v) \/ j = Len(v) + 1
  BY <1>4
<1>10. 1 \in 1..Len(driver[p].event) /\ driver[p].event[1] = e
  BY <1>2
<1> QED
  BY <1>1, <1>4, <1>8, <1>9, <1>10

LEMMA ReadingStep ==
  ASSUME TrailTyped, Reading, Holding, [Trail!Next]_(Trail!vars)
  PROVE  Reading'
<1>0. Extends /\ table \in Seq(Entries) /\ Len(table) \in Nat
  BY TableExtends DEF TrailTyped
<1>1. \A n, l \in Nat : n <= Len(table) => (l \in Trail!Previous(n))' = (l \in Trail!Previous(n))
  BY <1>0, PreviousKept
<1>2. ASSUME NEW q \in Drivers, driver'[q] = driver[q]
      PROVE  /\ driver'[q].base <= Len(table')
             /\ driver'[q].pc \in {"append", "save"} =>
                  \A n, l \in Nat : driver'[q].base = n /\ driver'[q].latest = l
                                      => (l \in Trail!Previous(n))'
  <2>1. PICK d \in TrailDrivers : d = driver[q]
    BY DEF TrailTyped
  <2>2. d.base <= Len(table) /\ d.base \in Nat
    BY <2>1 DEF Reading, TrailDrivers
  <2>3. d.base <= Len(table')
    BY <1>0, <2>2 DEF Extends
  <2>4. d.pc \in {"append", "save"} =>
          \A n, l \in Nat : d.base = n /\ d.latest = l => l \in Trail!Previous(n)
    BY <2>1 DEF Reading
  <2> QED
    BY <1>1, <1>2, <2>1, <2>2, <2>3, <2>4
<1>3. ASSUME NEW p \in Drivers,
             \/ Looks(p) \/ Asks(p) \/ Emits(p) \/ Appends(p) \/ Checkpoints(p) \/ Saves(p) \/ Ends(p)
      PROVE  /\ driver'[p].base \in {driver[p].base, 0} /\ driver'[p].pc \notin {"append", "save"}
             /\ \A q \in Drivers \ {p} : driver'[q] = driver[q]
  BY <1>3 DEF Looks, Asks, Emits, Appends, Checkpoints, Saves, Ends, Moves
<1>4. ASSUME NEW p \in Drivers,
             driver'[p].base \in {driver[p].base, 0}, driver'[p].pc \notin {"append", "save"}
      PROVE  /\ driver'[p].base <= Len(table')
             /\ driver'[p].pc \in {"append", "save"} =>
                  \A n, l \in Nat : driver'[p].base = n /\ driver'[p].latest = l
                                      => (l \in Trail!Previous(n))'
  <2>1. driver[p].base <= Len(table) /\ driver[p].base \in Nat
    BY DEF Reading, TrailTyped, TrailDrivers
  <2> QED
    BY <1>0, <1>4, <2>1 DEF Extends
<1>5. ASSUME NEW p \in Drivers, Begins(p)
      PROVE  /\ driver'[p].base <= Len(table')
             /\ driver'[p].pc \in {"append", "save"} =>
                  \A n, l \in Nat : driver'[p].base = n /\ driver'[p].latest = l
                                      => (l \in Trail!Previous(n))'
             /\ \A q \in Drivers \ {p} : driver'[q] = driver[q]
  <2>1. PICK l \in Trail!Previous(Len(table)) :
          /\ table' = table /\ driver'[p].base = Len(table) /\ driver'[p].latest = l
          /\ \A q \in Drivers \ {p} : driver'[q] = driver[q]
    BY <1>5 DEF Begins, Moves, Same
  <2>2. PICK n \in Nat : n = Len(table)
    BY <1>0
  <2>3. l \in Trail!Previous(n) /\ l \in Nat
    BY <1>0, <2>1, <2>2, PreviousIs
  <2>4. (l \in Trail!Previous(n))'
    BY <1>0, <1>1, <2>2, <2>3
  <2>5. \A m, k \in Nat : driver'[p].base = m /\ driver'[p].latest = k => m = n /\ k = l
    BY <2>1, <2>2
  <2>6. driver'[p].base <= Len(table')
    BY <1>0, <2>1
  <2> QED
    BY <2>1, <2>4, <2>5, <2>6
<1>6. CASE Same /\ driver' = driver
  BY <1>2, <1>6 DEF Reading
<1>7. ASSUME NEW p \in Drivers, TrailStep(p)
      PROVE  Reading'
  BY <1>2, <1>3, <1>4, <1>5, <1>7, TrailKinds DEF Reading
<1> QED
  BY <1>6, <1>7, TrailNext

LEMMA HoldingStep ==
  ASSUME TrailTyped, Holding, OneEventATime, [Trail!Next]_(Trail!vars)
  PROVE  Holding'
<1> DEFINE Fine(d) ==
      /\ Rising(d.view)
      /\ d.pc \notin InHand => d.event = <<>>
      /\ d.pc \in InHand =>
           \E e \in Trail!Event :
              /\ d.event = <<e>> /\ e.label \in Labels
              /\ \A k \in 1..Len(d.view) : d.view[k].at < e.at
<1>0. ASSUME NEW p \in Drivers
      PROVE  Fine(driver[p])
  BY DEF Holding
<1>1. ASSUME NEW p \in Drivers, Looks(p)
      PROVE  Fine(driver'[p])
  <2>1. /\ driver[p].pc \notin InHand /\ driver'[p].pc \notin InHand
        /\ driver'[p].view \in {channel, driver[p].view} /\ driver'[p].event = driver[p].event
    BY <1>1 DEF Looks, Moves, InHand
  <2> QED
    BY <1>0, <2>1 DEF OneEventATime, Rising
<1>2. ASSUME NEW p \in Drivers, Asks(p)
      PROVE  Fine(driver'[p])
  <2>1. /\ driver[p].pc \notin InHand /\ driver'[p].pc \notin InHand
        /\ driver'[p].view = channel' /\ driver'[p].event = driver[p].event
    BY <1>2 DEF Asks, Moves, InHand
  <2>2. Rising(channel')
    BY <1>2, AskedIs
  <2> QED
    BY <1>0, <2>1, <2>2
<1>3. ASSUME NEW p \in Drivers, Emits(p)
      PROVE  Fine(driver'[p])
  <2>1. PICK e \in Trail!Event :
          /\ e.label \in Labels /\ e.at = events + 1
          /\ driver'[p].pc = "emitted" /\ driver'[p].view = driver[p].view /\ driver'[p].event = <<e>>
    BY <1>3 DEF Emits, Moves
  <2>2. PICK v \in Seq(Trail!Event) : v = driver[p].view
    BY DEF TrailTyped, TrailDrivers
  <2>3. ASSUME NEW k \in 1..Len(v)
        PROVE  v[k].at < e.at
    <3>1. v[k] \in Trail!Event /\ Known(v[k])
      BY <2>2 DEF Carried, Known
    <3>2. v[k].at <= events /\ v[k].at \in Nat /\ events \in Nat
      BY <3>1, TrailConstants DEF OneEventATime, Trail!Event, TrailTyped
    <3> QED
      BY <2>1, <3>2
  <2>4. Rising(v)
    BY <1>0, <2>2
  <2> QED
    BY <2>1, <2>2, <2>3, <2>4 DEF InHand
<1>4. ASSUME NEW p \in Drivers, Begins(p) \/ Appends(p)
      PROVE  Fine(driver'[p])
  <2>1. /\ driver'[p].pc \in InHand <=> driver[p].pc \in InHand
        /\ driver'[p].view = driver[p].view /\ driver'[p].event = driver[p].event
    BY <1>4 DEF Begins, Appends, Moves, InHand
  <2>2. Fine(driver[p])
    BY <1>0
  <2> QED
    BY <2>1, <2>2
<1>5. ASSUME NEW p \in Drivers, Checkpoints(p)
      PROVE  Fine(driver'[p])
  <2>1. driver'[p].pc \notin InHand /\ driver'[p].view = channel' /\ driver'[p].event = <<>>
    BY <1>5 DEF Checkpoints, Moves, InHand
  <2>2. Rising(channel')
    BY <1>5, CheckpointIs
  <2> QED
    BY <2>1, <2>2
<1>6. ASSUME NEW p \in Drivers, Saves(p) \/ Ends(p)
      PROVE  Fine(driver'[p])
  <2>1. driver'[p].pc \notin InHand /\ driver'[p].view = <<>> /\ driver'[p].event = <<>>
    BY <1>6 DEF Saves, Ends, Moves, InHand
  <2>2. Rising(<<>>)
    BY DEF Rising
  <2> QED
    BY <2>1, <2>2
<1>7. ASSUME NEW p \in Drivers, TrailStep(p)
      PROVE  \A q \in Drivers : Fine(driver'[q])
  <2>1. \A q \in Drivers \ {p} : driver'[q] = driver[q]
    BY <1>7, TrailKinds
    DEF Looks, Asks, Emits, Begins, Appends, Checkpoints, Saves, Ends, Moves
  <2>2. Fine(driver'[p])
    <3> HIDE DEF Fine
    <3> QED
      BY <1>1, <1>2, <1>3, <1>4, <1>5, <1>6, <1>7, TrailKinds
  <2>3. ASSUME NEW q \in Drivers \ {p}
        PROVE  Fine(driver'[q])
    <3>1. Fine(driver[q]) /\ driver'[q] = driver[q]
      BY <1>0, <2>1
    <3> HIDE DEF Fine
    <3> QED
      BY <3>1
  <2> HIDE DEF Fine
  <2> QED
    BY <2>2, <2>3
<1>8. CASE driver' = driver
  BY <1>8 DEF Holding, Rising
<1>9. ASSUME \A q \in Drivers : Fine(driver'[q])
      PROVE  Holding'
  BY <1>9 DEF Holding, Rising
<1> QED
  <2> HIDE DEF Fine
  <2> QED
    BY <1>7, <1>8, <1>9, TrailNext

\* A step that moves the clock makes one event; another one makes none.
LEMMA NewsStep ==
  ASSUME TrailTyped, Holding, OneEventATime, [Trail!Next]_(Trail!vars)
  PROVE  /\ events' \in {events, events + 1}
         /\ \E n : \A e \in Trail!Event :
              Known(e)' => Known(e) \/ (e = n /\ e.at = events + 1 /\ events' = events + 1)
<1>1. ASSUME NEW p \in Drivers, NEW e,
             \A q \in Drivers \ {p} : driver'[q] = driver[q],
             ~(\E k \in 1..Len(driver'[p].view) : driver'[p].view[k] = e),
             ~(\E k \in 1..Len(driver'[p].event) : driver'[p].event[k] = e)
      PROVE  Carried(e)' => Carried(e)
  BY <1>1 DEF Carried
<1>2. ASSUME NEW p \in Drivers, NEW e,
             \/ \E k \in 1..Len(driver[p].view) : driver[p].view[k] = e
             \/ \E k \in 1..Len(driver[p].event) : driver[p].event[k] = e
      PROVE  Known(e)
  BY <1>2 DEF Carried, Known
<1>3. ASSUME NEW p \in Drivers, NEW e, Looks(p), Known(e)'
      PROVE  Known(e)
  <2>1. /\ driver'[p].view \in {channel, driver[p].view} /\ driver'[p].event = driver[p].event
        /\ \A q \in Drivers \ {p} : driver'[q] = driver[q]
        /\ table' = table /\ channel' = channel
    BY <1>3 DEF Looks, Moves, Same
  <2>2. Carried(e)' => Carried(e) \/ InView(e)
    BY <1>1, <2>1 DEF Carried, InView
  <2> QED
    BY <1>3, <2>1, <2>2 DEF Known, IsStored, InView
<1>4. ASSUME NEW p \in Drivers, Asks(p)
      PROVE  \E n : \A e \in Trail!Event :
               Known(e)' => Known(e) \/ (e = n /\ e.at = events + 1 /\ events' = events + 1)
  <2>1. PICK n \in Trail!Event :
          /\ n.at = events + 1
          /\ \A k \in 1..Len(channel') : \/ channel'[k] = n
               \/ \E j \in 1..Len(driver[p].view) : channel'[k] = driver[p].view[j]
    BY <1>4, AskedIs
  <2>2. /\ driver'[p].view = channel' /\ driver'[p].event = driver[p].event
        /\ \A q \in Drivers \ {p} : driver'[q] = driver[q]
        /\ table' = table /\ events' = events + 1
    BY <1>4 DEF Asks, Moves
  <2>3. ASSUME NEW e \in Trail!Event, Known(e)', e # n
        PROVE  Known(e)
    <3>1. CASE IsStored(e)'
      BY <2>2, <3>1 DEF IsStored, Known
    <3>2. CASE \E k \in 1..Len(channel') : channel'[k] = e
      BY <1>2, <2>1, <2>3, <3>2
    <3>3. CASE Carried(e)' /\ ~ \E k \in 1..Len(channel') : channel'[k] = e
      BY <2>2, <3>3 DEF Carried, Known
    <3> QED
      BY <2>3, <3>1, <3>2, <3>3 DEF Known, InView
  <2> QED
    BY <2>1, <2>2, <2>3
<1>5. ASSUME NEW p \in Drivers, Emits(p)
      PROVE  \E n : \A e \in Trail!Event :
               Known(e)' => Known(e) \/ (e = n /\ e.at = events + 1 /\ events' = events + 1)
  <2>1. PICK n \in Trail!Event :
          /\ n.at = events + 1 /\ events' = events + 1 /\ table' = table /\ channel' = channel
          /\ driver'[p].view = driver[p].view /\ driver'[p].event = <<n>>
          /\ \A q \in Drivers \ {p} : driver'[q] = driver[q]
    BY <1>5 DEF Emits, Moves
  <2>2. Len(<<n>>) = 1 /\ <<n>>[1] = n /\ \A k \in 1..1 : k = 1
    OBVIOUS
  <2>3. ASSUME NEW e \in Trail!Event, Known(e)', e # n
        PROVE  Known(e)
    <3>1. Carried(e)' => Carried(e)
      BY <2>1, <2>2, <2>3 DEF Carried
    <3> QED
      BY <2>1, <2>3, <3>1 DEF Known, IsStored, InView
  <2> QED
    BY <2>1, <2>3
<1>6. ASSUME NEW p \in Drivers, NEW e, Begins(p), Known(e)'
      PROVE  Known(e)
  <2>1. /\ driver'[p].view = driver[p].view /\ driver'[p].event = driver[p].event
        /\ \A q \in Drivers \ {p} : driver'[q] = driver[q]
        /\ table' = table /\ channel' = channel
    BY <1>6 DEF Begins, Moves, Same
  <2>2. Carried(e)' => Carried(e)
    BY <2>1 DEF Carried
  <2> QED
    BY <1>6, <2>1, <2>2 DEF Known, IsStored, InView
<1>7. ASSUME NEW p \in Drivers, NEW e, Appends(p) \/ Saves(p), Known(e)'
      PROVE  Known(e)
  <2>1. PICK found \in Seq(Finds), new \in Seq(Entries) :
          /\ Adds(found, driver[p].base, driver[p].latest, new) /\ Grows(new)
          /\ \A m \in 1..Len(found) : Carried(found[m].event)
    BY <1>7, RowsAdded
  <2>2. IsStored(e)' => IsStored(e) \/ Carried(e)
    <3> SUFFICES ASSUME NEW i \in 1..Len(table'), table'[i].event = e
                 PROVE  IsStored(e) \/ Carried(e)
      BY DEF IsStored
    <3>1. CASE i \in 1..Len(table)
      BY <2>1, <3>1 DEF Grows, Extends, IsStored
    <3>2. CASE i \notin 1..Len(table)
      <4>1. PICK k \in 1..Len(new) : table'[i] = new[k]
        BY <2>1, <3>2 DEF Grows
      <4>2. PICK m \in 1..Len(found) : new[k].event = found[m].event
        BY <2>1 DEF Adds, AddsUpto
      <4> QED
        BY <2>1, <4>1, <4>2
    <3> QED
      BY <3>1, <3>2
  <2>3. Carried(e)' => Carried(e)
    <3>1. /\ \A q \in Drivers \ {p} : driver'[q] = driver[q]
          /\ driver'[p].view \in {driver[p].view, <<>>} /\ driver'[p].event \in {driver[p].event, <<>>}
      BY <1>7 DEF Appends, Saves, Moves
    <3>2. Len(<<>>) = 0 /\ 1..0 = {}
      OBVIOUS
    <3> SUFFICES ASSUME NEW q \in Drivers,
                        \/ \E k \in 1..Len(driver'[q].view) : driver'[q].view[k] = e
                        \/ \E k \in 1..Len(driver'[q].event) : driver'[q].event[k] = e
                 PROVE  Carried(e)
      BY DEF Carried
    <3>3. CASE q = p
      <4>1. CASE \E k \in 1..Len(driver'[p].view) : driver'[p].view[k] = e
        BY <3>1, <3>2, <4>1 DEF Carried
      <4>2. CASE \E k \in 1..Len(driver'[p].event) : driver'[p].event[k] = e
        BY <3>1, <3>2, <4>2 DEF Carried
      <4> QED
        BY <3>3, <4>1, <4>2
    <3>4. CASE q # p
      BY <3>1, <3>4 DEF Carried
    <3> QED
      BY <3>3, <3>4
  <2>4. channel' = channel
    BY <1>7 DEF Appends, Saves
  <2> QED
    BY <1>7, <2>2, <2>3, <2>4 DEF Known, InView
<1>8. ASSUME NEW p \in Drivers, NEW e, Checkpoints(p), Known(e)'
      PROVE  Known(e)
  <2>1. /\ driver'[p].view = channel' /\ driver'[p].event = <<>>
        /\ \A q \in Drivers \ {p} : driver'[q] = driver[q]
        /\ table' = table
    BY <1>8 DEF Checkpoints, Moves
  <2>2. Len(<<>>) = 0 /\ 1..0 = {}
    OBVIOUS
  <2>3. (\E k \in 1..Len(channel') : channel'[k] = e) => Known(e)
    BY <1>2, <1>8, CheckpointIs
  <2>4. Carried(e)' => Carried(e) \/ \E k \in 1..Len(channel') : channel'[k] = e
    BY <2>1, <2>2 DEF Carried
  <2> QED
    BY <1>8, <2>1, <2>3, <2>4 DEF Known, IsStored, InView
<1>9. ASSUME NEW p \in Drivers, NEW e, Ends(p), Known(e)'
      PROVE  Known(e)
  <2>1. /\ driver'[p].view = <<>> /\ driver'[p].event = <<>>
        /\ \A q \in Drivers \ {p} : driver'[q] = driver[q]
        /\ table' = table /\ channel' = channel
    BY <1>9 DEF Ends, Moves, Same
  <2>2. Len(<<>>) = 0 /\ 1..0 = {}
    OBVIOUS
  <2>3. Carried(e)' => Carried(e)
    BY <2>1, <2>2 DEF Carried
  <2> QED
    BY <1>9, <2>1, <2>3 DEF Known, IsStored, InView
<1>10. CASE Same /\ driver' = driver
  BY <1>10 DEF Same, Known, IsStored, InView, Carried
<1>11. ASSUME NEW p \in Drivers, TrailStep(p)
       PROVE  events' \in {events, events + 1}
  BY <1>11, TrailKinds DEF Looks, Asks, Emits, Begins, Appends, Checkpoints, Saves, Ends, Same
<1>12. ASSUME NEW p \in Drivers, TrailStep(p)
       PROVE  \E n : \A e \in Trail!Event :
                Known(e)' => Known(e) \/ (e = n /\ e.at = events + 1 /\ events' = events + 1)
  BY <1>3, <1>4, <1>5, <1>6, <1>7, <1>8, <1>9, <1>12, TrailKinds
<1>13. CASE \E p \in Drivers : TrailStep(p)
  BY <1>11, <1>12, <1>13
<1>14. Same => events' = events
  BY DEF Same
<1> QED
  BY <1>10, <1>13, <1>14, TrailNext

LEMMA OneEventStep ==
  ASSUME TrailTyped, Holding, OneEventATime, [Trail!Next]_(Trail!vars)
  PROVE  OneEventATime'
<1>1. PICK n : \A e \in Trail!Event :
        Known(e)' => Known(e) \/ (e = n /\ e.at = events + 1 /\ events' = events + 1)
  BY NewsStep
<1>2. events' \in {events, events + 1} /\ events \in Nat
  BY NewsStep, TrailConstants DEF TrailTyped
<1>3. \A e \in Trail!Event : e.at \in Nat
  BY TrailConstants DEF Trail!Event
<1>4. ASSUME NEW e \in Trail!Event, Known(e)'
      PROVE  e.at <= events'
  BY <1>1, <1>2, <1>3, <1>4 DEF OneEventATime
<1>5. ASSUME NEW e \in Trail!Event, NEW f \in Trail!Event, Known(e)', Known(f)', e.at = f.at
      PROVE  e = f
  <2>1. Known(e) => e.at # events + 1
    BY <1>2, <1>3 DEF OneEventATime
  <2>2. Known(f) => f.at # events + 1
    BY <1>2, <1>3 DEF OneEventATime
  <2> QED
    BY <1>1, <1>5, <2>1, <2>2 DEF OneEventATime
<1>6. Rising(channel')
  <2>1. CASE channel' = channel
    BY <2>1 DEF OneEventATime
  <2>2. ASSUME NEW p \in Drivers, Asks(p) \/ Checkpoints(p)
        PROVE  Rising(channel')
    BY <2>2, AskedIs, CheckpointIs
  <2>3. ASSUME NEW p \in Drivers, TrailStep(p), ~Asks(p), ~Checkpoints(p)
        PROVE  channel' = channel
    BY <2>3, TrailKinds DEF Looks, Emits, Begins, Appends, Saves, Ends, Same
  <2> QED
    BY <2>1, <2>2, <2>3, TrailNext DEF Same
<1> QED
  BY <1>4, <1>5, <1>6 DEF OneEventATime, Rising

LEMMA RememberedStep ==
  ASSUME TrailTyped, Reading, Holding, OneEventATime, Remembered, [Trail!Next]_(Trail!vars)
  PROVE  Remembered'
<1> DEFINE InTable(e) == \E i \in 1..Len(table') : table'[i].event = e
           Still(s) == \A k \in 1..Len(s) : s[k].label # Requested => InTable(s[k])
<1>1. \A e : IsStored(e) => InTable(e)
  BY TableExtends DEF Extends, IsStored
<1>2. ASSUME NEW s, Kept(s)
      PROVE  Still(s)
  BY <1>1, <1>2 DEF Kept
<1>3. Still(channel) /\ \A p \in Drivers : Still(driver[p].view)
                          /\ (driver[p].pc = "appended" => Still(driver[p].event))
  <2> HIDE DEF Still
  <2> QED
    BY <1>2 DEF Remembered
<1>4. Still(<<>>)
  BY DEF Still
<1>5. ASSUME NEW p \in Drivers, Looks(p)
      PROVE  Still(channel') /\ Still(driver'[p].view) /\ driver'[p].pc # "appended"
  <2>1. channel' = channel /\ driver'[p].view \in {channel, driver[p].view} /\ driver'[p].pc # "appended"
    BY <1>5 DEF Looks, Moves, Same
  <2> HIDE DEF Still
  <2> QED
    BY <1>3, <2>1
<1>6. ASSUME NEW p \in Drivers, Asks(p)
      PROVE  Still(channel') /\ Still(driver'[p].view) /\ driver'[p].pc # "appended"
  <2>1. driver'[p].view = channel' /\ driver'[p].pc # "appended"
    BY <1>6 DEF Asks, Moves
  <2>2. Still(channel')
    <3>1. PICK e \in Trail!Event :
            /\ e.label = Requested
            /\ \A k \in 1..Len(channel') : \/ channel'[k] = e
                 \/ \E j \in 1..Len(driver[p].view) : channel'[k] = driver[p].view[j]
      BY <1>6, AskedIs
    <3>2. Still(driver[p].view)
      BY <1>3
    <3> SUFFICES ASSUME NEW k \in 1..Len(channel'), channel'[k].label # Requested
                 PROVE  InTable(channel'[k])
      OBVIOUS
    <3>3. PICK j \in 1..Len(driver[p].view) : channel'[k] = driver[p].view[j]
      BY <3>1
    <3> HIDE DEF InTable
    <3> QED
      BY <3>2, <3>3
  <2> QED
    BY <2>1, <2>2
<1>7. ASSUME NEW p \in Drivers, Emits(p) \/ Begins(p)
      PROVE  Still(channel') /\ Still(driver'[p].view) /\ driver'[p].pc # "appended"
  <2>1. channel' = channel /\ driver'[p].view = driver[p].view /\ driver'[p].pc # "appended"
    BY <1>7 DEF Emits, Begins, Moves, Same
  <2> HIDE DEF Still
  <2> QED
    BY <1>3, <2>1
<1>8. ASSUME NEW p \in Drivers, Appends(p)
      PROVE  Still(channel') /\ Still(driver'[p].view) /\ Still(driver'[p].event)
  <2>1. channel' = channel /\ driver'[p].view = driver[p].view /\ driver'[p].event = driver[p].event
    BY <1>8 DEF Appends, Moves
  <2>2. PICK e \in Trail!Event : driver[p].event = <<e>>
    BY <1>8 DEF Appends, Holding, InHand
  <2>3. Len(<<e>>) = 1 /\ <<e>>[1] = e /\ \A k \in 1..1 : k = 1
    OBVIOUS
  <2>4. InTable(e)
    <3>1. PICK found \in Seq(Finds), new \in Seq(Entries) :
            /\ Adds(found, driver[p].base, driver[p].latest, new) /\ Grows(new)
            /\ Len(found) = 1 /\ found[1].event = e
      BY <1>8, <2>2, <2>3, RowsAdded
    <3>2. 1 \in 1..Len(found)
      BY <3>1
    <3>3. CASE Trail!Missing(found[1], driver[p].base)
      <4>1. PICK i \in 1..Len(new) : new[i].event = e
        BY <3>1, <3>2, <3>3 DEF Adds, AddsUpto
      <4>2. Len(table) + i \in 1..Len(table') /\ table'[Len(table) + i] = new[i]
        BY <3>1 DEF Grows, Extends
      <4> QED
        BY <4>1, <4>2 DEF IsStored
    <3>4. CASE ~Trail!Missing(found[1], driver[p].base)
      <4>1. PICK i \in 1..driver[p].base : table[i].event = e
        BY <3>1, <3>4 DEF Trail!Missing
      <4>2. driver[p].base <= Len(table) /\ driver[p].base \in Nat /\ Len(table) \in Nat
        BY DEF Reading, TrailTyped, TrailDrivers
      <4>3. i \in 1..Len(table)
        BY <4>2
      <4> QED
        BY <1>1, <4>1, <4>3 DEF IsStored
    <3> QED
      BY <3>3, <3>4
  <2>5. Still(driver'[p].event)
    BY <2>1, <2>2, <2>3, <2>4
  <2> HIDE DEF Still
  <2> QED
    BY <1>3, <2>1, <2>5
<1>9. ASSUME NEW p \in Drivers, Checkpoints(p)
      PROVE  Still(channel') /\ Still(driver'[p].view) /\ driver'[p].pc # "appended"
  <2>1. driver'[p].view = channel' /\ driver'[p].pc # "appended" /\ driver[p].pc = "appended"
    BY <1>9 DEF Checkpoints, Moves
  <2>2. Still(channel')
    <3> SUFFICES ASSUME NEW k \in 1..Len(channel'), channel'[k].label # Requested
                 PROVE  InTable(channel'[k])
      OBVIOUS
    <3>1. Still(driver[p].view) /\ Still(driver[p].event)
      BY <1>3, <2>1
    <3>2. \/ \E j \in 1..Len(driver[p].view) : channel'[k] = driver[p].view[j]
          \/ \E j \in 1..Len(driver[p].event) : channel'[k] = driver[p].event[j]
      BY <1>9, CheckpointIs
    <3> HIDE DEF InTable
    <3> QED
      BY <3>1, <3>2
  <2> QED
    BY <2>1, <2>2
<1>10. ASSUME NEW p \in Drivers, Saves(p) \/ Ends(p)
       PROVE  Still(channel') /\ Still(driver'[p].view) /\ driver'[p].pc # "appended"
  <2>1. channel' = channel /\ driver'[p].view = <<>> /\ driver'[p].pc # "appended"
    BY <1>10 DEF Saves, Ends, Moves, Same
  <2> HIDE DEF Still
  <2> QED
    BY <1>3, <1>4, <2>1
<1>11. ASSUME NEW p \in Drivers, TrailStep(p)
       PROVE  /\ Still(channel')
              /\ \A q \in Drivers : /\ Still(driver'[q].view)
                                    /\ driver'[q].pc = "appended" => Still(driver'[q].event)
  <2>1. \A q \in Drivers \ {p} : driver'[q] = driver[q]
    BY <1>11, TrailKinds
    DEF Looks, Asks, Emits, Begins, Appends, Checkpoints, Saves, Ends, Moves
  <2> HIDE DEF Still
  <2>2. /\ Still(channel') /\ Still(driver'[p].view)
        /\ driver'[p].pc = "appended" => Still(driver'[p].event)
    BY <1>5, <1>6, <1>7, <1>8, <1>9, <1>10, <1>11, TrailKinds
  <2>3. ASSUME NEW q \in Drivers \ {p}
        PROVE  /\ Still(driver'[q].view)
               /\ driver'[q].pc = "appended" => Still(driver'[q].event)
    BY <1>3, <2>1
  <2> QED
    BY <2>2, <2>3
<1>12. ASSUME Still(channel'),
              \A q \in Drivers : /\ Still(driver'[q].view)
                                 /\ driver'[q].pc = "appended" => Still(driver'[q].event)
       PROVE  Remembered'
  BY <1>12 DEF Remembered, Kept, IsStored
<1>13. ASSUME Same, driver' = driver
       PROVE  /\ Still(channel')
              /\ \A q \in Drivers : /\ Still(driver'[q].view)
                                    /\ driver'[q].pc = "appended" => Still(driver'[q].event)
  <2>1. channel' = channel
    BY <1>13 DEF Same
  <2> HIDE DEF Still
  <2> QED
    BY <1>3, <1>13, <2>1
<1> QED
  <2> HIDE DEF Still
  <2> QED
    BY <1>11, <1>12, <1>13, TrailNext

LEMMA SoleStep ==
  ASSUME TrailTyped, Sole, [Trail!Next]_(Trail!vars)
  PROVE  Sole'
<1>1. ASSUME NEW p \in Drivers, TrailStep(p)
      PROVE  /\ lapsed' = lapsed
             /\ driver[p].pc = "idle" => /\ lessee = NoDriver /\ lessee' = p
                                         /\ driver'[p].pc = "loaded"
             /\ driver[p].pc # "idle" /\ driver'[p].pc # "idle" => lessee' = lessee
  <2>1. CASE Trail!Take(p)
    <3>1. driver'[p].pc = "loaded" /\ driver[p].pc = "idle"
      BY <2>1, TrailMoves DEF Moves, Trail!Take, Trail!At
    <3> QED
      BY <2>1, <3>1 DEF Trail!Take
  <2>2. CASE Trail!CommitSave(p) \/ Trail!Conflict(p) \/ Trail!Crash(p)
    <3>1. driver'[p].pc = "idle"
      BY <2>2, TrailMoves DEF Moves
    <3>2. driver[p].pc # "idle" /\ lapsed' = lapsed
      BY <2>2 DEF Trail!CommitSave, Trail!Conflict, Trail!Crash, Trail!At
    <3> QED
      BY <3>1, <3>2
  <2>3. CASE ~(Trail!Take(p) \/ Trail!CommitSave(p) \/ Trail!Conflict(p) \/ Trail!Crash(p))
    BY <1>1, <2>3 DEF TrailStep, Trail!Request, Trail!Emit, Trail!BeginAppend,
         Trail!CommitAppend, Trail!Checkpoint, Trail!Ready, Trail!View, Trail!ReadVersion,
         Trail!BeginSave, Trail!At
  <2> QED
    BY <2>1, <2>2, <2>3
<1>2. ASSUME NEW p \in Drivers, TrailStep(p)
      PROVE  /\ \A q \in Drivers \ {p} : driver'[q] = driver[q]
             /\ driver'[p].pc \in {"append", "save"} =>
                  driver'[p].base = Len(table) /\ table' = table
             /\ driver[p].pc = "idle" => table' = table
  <2>1. CASE Looks(p)
    BY <2>1 DEF Looks, Moves, Same
  <2>2. CASE Asks(p) \/ Emits(p) \/ Checkpoints(p) \/ Ends(p)
    BY <2>2 DEF Asks, Emits, Checkpoints, Ends, Moves, Same
  <2>3. CASE Begins(p)
    BY <2>3 DEF Begins, Moves, Same
  <2>4. CASE Appends(p) \/ Saves(p)
    BY <2>4 DEF Appends, Saves, Moves
  <2> QED
    BY <1>2, <2>1, <2>2, <2>3, <2>4, TrailKinds
<1>3. ASSUME NEW p \in Drivers, TrailStep(p), ~lapsed', NEW q \in Drivers, driver'[q].pc # "idle"
      PROVE  lessee' = q /\ (driver'[q].pc \in {"append", "save"} => driver'[q].base = Len(table'))
  <2>1. ~lapsed
    BY <1>1, <1>3
  <2>2. \A d \in Drivers : driver[d].pc # "idle" =>
          lessee = d /\ (driver[d].pc \in {"append", "save"} => driver[d].base = Len(table))
    BY <2>1 DEF Sole
  <2>3. CASE q = p
    BY <1>1, <1>2, <1>3, <2>2, <2>3
  <2>4. CASE q # p
    <3>1. driver'[q] = driver[q] /\ lessee = q
      BY <1>2, <1>3, <2>2, <2>4
    <3>2. driver[p].pc # "idle"
      BY <1>1, <1>3, <3>1, TrailConstants
    <3>3. lessee = p
      BY <2>2, <3>2
    <3> QED
      BY <2>4, <3>1, <3>3
  <2> QED
    BY <2>3, <2>4
<1>4. CASE \E p \in Drivers : TrailStep(p)
  BY <1>3, <1>4 DEF Sole
<1>5. CASE Trail!Lapse
  BY <1>5 DEF Trail!Lapse, Sole
<1>6. CASE UNCHANGED Trail!vars
  BY <1>6 DEF Trail!vars, Sole
<1> QED
  BY <1>4, <1>5, <1>6 DEF Trail!Next, TrailStep

\* Where a row that is added points to.
LEMMA NewRows ==
  ASSUME TrailTyped, Holding, NEW p \in Drivers, Appends(p) \/ Saves(p),
         NEW i \in 1..Len(table'), i \notin 1..Len(table)
  PROVE  \/ i = Len(table) + 1 /\ table'[i].prev = driver[p].latest
         \/ i > Len(table) + 1 /\ table'[i].prev = i - 1
<1>1. PICK found \in Seq(Finds), new \in Seq(Entries) :
        Adds(found, driver[p].base, driver[p].latest, new) /\ Grows(new)
  BY RowsAdded
<1>2. PICK k \in 1..Len(new) : k = i - Len(table) /\ table'[i] = new[k]
  BY <1>1 DEF Grows
<1>3. new[k].prev = IF k = 1 THEN driver[p].latest ELSE Len(table) + k - 1
  BY <1>1 DEF Adds, AddsUpto
<1>4. Len(table) \in Nat /\ Len(new) \in Nat
  BY <1>1 DEF Grows, Extends
<1> QED
  BY <1>2, <1>3, <1>4

\* What it was given as the latest row, when its table still is the one it read.
LEMMA LatestIs ==
  ASSUME TrailTyped, Reading, NEW p \in Drivers, driver[p].pc \in {"append", "save"}
  PROVE  /\ driver[p].latest \in Nat /\ driver[p].latest <= Len(table)
         /\ \A n \in Nat : driver[p].base = n =>
              \/ driver[p].latest = 0 /\ n = 0
              \/ driver[p].latest # 0 /\ driver[p].latest \in Trail!Latest(n)
<1>1. PICK n \in Nat, l \in Nat : driver[p].base = n /\ driver[p].latest = l
  BY DEF TrailTyped, TrailDrivers
<1>2. l \in Trail!Previous(n) /\ n <= Len(table) /\ Len(table) \in Nat
  BY <1>1 DEF Reading, TrailTyped
<1>3. l <= n /\ (l = 0 => n = 0) /\ (n # 0 => l \in Trail!Latest(n)) /\ table \in Seq(Entries)
  BY <1>2, PreviousIs DEF TrailTyped
<1>4. l # 0 => l \in Trail!Latest(n)
  <2>1. l # 0 => n # 0
    BY <1>3
  <2> QED
    BY <1>3, <2>1
<1>5. l <= Len(table)
  BY <1>2, <1>3
<1> QED
  BY <1>1, <1>3, <1>4, <1>5

LEMMA PointsBackStep ==
  ASSUME TrailTyped, Reading, Holding, PointsBack, [Trail!Next]_(Trail!vars)
  PROVE  PointsBack'
<1>1. CASE table' = table
  BY <1>1 DEF PointsBack
<1>2. ASSUME NEW p \in Drivers, Appends(p) \/ Saves(p)
      PROVE  PointsBack'
  <2> SUFFICES ASSUME NEW i \in 1..Len(table')
               PROVE  table'[i].prev < i
    BY DEF PointsBack
  <2>1. Extends /\ Len(table) \in Nat
    BY TableExtends DEF Extends
  <2>2. CASE i \in 1..Len(table)
    BY <2>1, <2>2 DEF PointsBack, Extends
  <2>3. CASE i \notin 1..Len(table)
    <3>1. driver[p].latest \in Nat /\ driver[p].latest <= Len(table)
      BY <1>2, LatestIs DEF Appends, Saves
    <3> QED
      BY <1>2, <2>1, <2>3, <3>1, NewRows
  <2> QED
    BY <2>2, <2>3
<1> QED
  BY <1>1, <1>2, TrailNext, TrailKinds
  DEF Same, Looks, Asks, Emits, Begins, Checkpoints, Ends

LEMMA LapsedStays ==
  ASSUME TrailTyped, [Trail!Next]_(Trail!vars), ~lapsed'
  PROVE  ~lapsed
BY DEF TrailTyped, Trail!Next, Trail!vars, Trail!Take, Trail!Request, Trail!Emit,
     Trail!BeginAppend, Trail!CommitAppend, Trail!Checkpoint, Trail!View, Trail!ReadVersion,
     Trail!BeginSave, Trail!CommitSave, Trail!Conflict, Trail!Crash, Trail!Lapse

LEMMA LinkedStep ==
  ASSUME TrailTyped, Reading, Holding, Sole, PointsBack, Linked, [Trail!Next]_(Trail!vars)
  PROVE  Linked'
<1> SUFFICES ASSUME ~lapsed', NEW i \in 1..Len(table')
             PROVE  IF table'[i].prev = 0 THEN i = 1
                    ELSE table'[i].prev = i - 1 \/ table'[i].prev \in Trail!Latest(i - 1)'
  BY DEF Linked
<1>1. Extends /\ Len(table) \in Nat /\ table \in Seq(Entries) /\ ~lapsed
  BY TableExtends, LapsedStays DEF Extends, TrailTyped
<1>2. CASE i \in 1..Len(table)
  <2>1. table'[i] = table[i]
    BY <1>1, <1>2 DEF Extends
  <2>2. i - 1 \in Nat /\ i - 1 <= Len(table)
    BY <1>1, <1>2
  <2>3. Trail!Latest(i - 1)' = Trail!Latest(i - 1)
    BY <1>1, <2>2, PreviousKept
  <2> QED
    BY <1>1, <1>2, <2>1, <2>3 DEF Linked
<1>3. ASSUME NEW p \in Drivers, Appends(p) \/ Saves(p), i \notin 1..Len(table)
      PROVE  IF table'[i].prev = 0 THEN i = 1
             ELSE table'[i].prev = i - 1 \/ table'[i].prev \in Trail!Latest(i - 1)'
  <2>1. driver[p].pc \in {"append", "save"}
    BY <1>3 DEF Appends, Saves
  <2>2. PICK n \in Nat : n = Len(table) /\ driver[p].base = n
    BY <1>1, <2>1 DEF Sole
  <2>3. \/ driver[p].latest = 0 /\ n = 0
        \/ driver[p].latest # 0 /\ driver[p].latest \in Trail!Latest(n)
    BY <2>1, <2>2, LatestIs
  <2>4. Trail!Latest(n)' = Trail!Latest(n)
    BY <1>1, <2>2, PreviousKept
  <2>5. CASE i = n + 1 /\ table'[i].prev = driver[p].latest
    <3>1. i - 1 = n
      BY <2>5
    <3> QED
      BY <2>3, <2>4, <2>5, <3>1
  <2>6. CASE i > n + 1 /\ table'[i].prev = i - 1
    BY <2>6
  <2> QED
    BY <1>3, <2>2, <2>5, <2>6, NewRows
<1>4. CASE table' = table
  BY <1>2, <1>4
<1>5. ASSUME NEW p \in Drivers, TrailStep(p), table' # table
      PROVE  Appends(p) \/ Saves(p)
  BY <1>5, TrailKinds DEF Looks, Asks, Emits, Begins, Checkpoints, Ends, Same
<1> QED
  BY <1>2, <1>3, <1>4, <1>5, TrailNext DEF Same

LEMMA SingleStep ==
  ASSUME TrailTyped, Reading, Holding, Sole, Single, [Trail!Next]_(Trail!vars)
  PROVE  Single'
<1> SUFFICES ASSUME ~lapsed', Trail!NothingCut',
                    NEW i \in 1..Len(table'), NEW j \in 1..Len(table'),
                    table'[i].event = table'[j].event
             PROVE  i = j
  BY DEF Single
<1>1. Extends /\ Len(table) \in Nat /\ table \in Seq(Entries) /\ ~lapsed
  BY TableExtends, LapsedStays DEF Extends, TrailTyped
<1>2. \A k \in 1..Len(table') : table'[k].form = "whole"
  BY <1>1 DEF Trail!NothingCut, Extends
<1>3. \A k \in 1..Len(table) : table[k].form = "whole" /\ table'[k] = table[k]
  BY <1>1, <1>2 DEF Extends
<1>4. \A k, m \in 1..Len(table) : table[k].event = table[m].event => k = m
  BY <1>1, <1>3 DEF Single, Trail!NothingCut
<1>5. CASE i \in 1..Len(table) /\ j \in 1..Len(table)
  BY <1>3, <1>4, <1>5
<1>6. ASSUME NEW p \in Drivers, Appends(p) \/ Saves(p),
             i \notin 1..Len(table) \/ j \notin 1..Len(table)
      PROVE  i = j
  <2>1. PICK found \in Seq(Finds), new \in Seq(Entries) :
          /\ Adds(found, driver[p].base, driver[p].latest, new) /\ Grows(new)
          /\ \A m, n \in 1..Len(found) : found[m].event = found[n].event => m = n
    BY <1>6, RowsAdded
  <2>2. \A k, m \in 1..Len(new) : new[k].event = new[m].event => k = m
    BY <2>1 DEF Adds, AddsUpto
  <2>3. driver[p].base = Len(table)
    BY <1>1, <1>6 DEF Sole, Appends, Saves
  <2>4. ASSUME NEW k \in 1..Len(table'), k \notin 1..Len(table), NEW m \in 1..Len(table)
        PROVE  table'[k].event # table[m].event
    <3>1. PICK o \in 1..Len(new) : table'[k] = new[o]
      BY <2>1, <2>4 DEF Grows
    <3>2. PICK f \in 1..Len(found) : /\ Trail!Missing(found[f], driver[p].base)
                                     /\ new[o].event = found[f].event /\ new[o].form = found[f].form
      BY <2>1 DEF Adds, AddsUpto
    <3>3. found[f].form = "whole"
      BY <1>2, <3>1, <3>2
    <3> QED
      BY <1>3, <2>3, <3>1, <3>2, <3>3 DEF Trail!Missing
  <2>5. CASE i \in 1..Len(table)
    BY <1>3, <1>6, <2>4, <2>5
  <2>6. CASE j \in 1..Len(table)
    BY <1>3, <1>6, <2>4, <2>6
  <2>7. CASE i \notin 1..Len(table) /\ j \notin 1..Len(table)
    <3>1. /\ i - Len(table) \in 1..Len(new) /\ table'[i] = new[i - Len(table)]
          /\ j - Len(table) \in 1..Len(new) /\ table'[j] = new[j - Len(table)]
      BY <2>1, <2>7 DEF Grows
    <3>2. i - Len(table) = j - Len(table)
      BY <2>2, <3>1
    <3> QED
      BY <1>1, <3>2
  <2> QED
    BY <2>5, <2>6, <2>7
<1>7. ASSUME NEW p \in Drivers, TrailStep(p), table' # table
      PROVE  Appends(p) \/ Saves(p)
  BY <1>7, TrailKinds DEF Looks, Asks, Emits, Begins, Checkpoints, Ends, Same
<1> QED
  BY <1>5, <1>6, <1>7, TrailNext DEF Same

LEMMA InitTrailInv == Trail!Init => TrailInv
<1> SUFFICES ASSUME Trail!Init
             PROVE  TrailInv
  OBVIOUS
<1>1. /\ events = 0 /\ table = <<>> /\ channel = <<>> /\ lessee = NoDriver /\ ~lapsed
      /\ saved = [version |-> 1, events |-> <<>>] /\ driver = [p \in Drivers |-> Trail!Idle]
  BY DEF Trail!Init
<1>2. \A p \in Drivers : /\ driver[p].pc = "idle" /\ driver[p].view = <<>> /\ driver[p].event = <<>>
                         /\ driver[p].base = 0
  BY <1>1 DEF Trail!Idle
<1>3. Len(<<>>) = 0 /\ 1..0 = {}
  OBVIOUS
<1>4. TrailTyped
  <2>1. driver \in [Drivers -> TrailDrivers]
    BY <1>1, IdleTyped
  <2>2. saved \in [version : Nat \ {0}, events : Seq(Trail!Event)] /\ Len(saved.events) = 0
    BY <1>1
  <2>3. table \in Seq(Entries) /\ channel \in Seq(Trail!Event) /\ Len(channel) = 0
    BY <1>1
  <2>4. lapsed \in BOOLEAN
    BY DEF Trail!Init
  <2> QED
    BY <1>1, <2>1, <2>2, <2>3, <2>4, TrailConstants DEF TrailTyped
<1>5. Reading /\ Holding /\ Sole
  BY <1>1, <1>2, <1>3 DEF Reading, Holding, Sole, Rising, InHand
<1>6. \A e : ~Known(e)
  BY <1>1, <1>2, <1>3 DEF Known, IsStored, InView, Carried
<1>7. OneEventATime
  BY <1>1, <1>3, <1>6 DEF OneEventATime, Rising
<1>8. Remembered
  BY <1>1, <1>2, <1>3 DEF Remembered, Kept
<1>9. PointsBack /\ Linked /\ Single
  BY <1>1, <1>3 DEF PointsBack, Linked, Single
<1> QED
  BY <1>4, <1>5, <1>7, <1>8, <1>9 DEF TrailInv

LEMMA TrailInvariance == RecordsSpec => []TrailInv
<1>1. RecordsInit => TrailInv
  BY InitTrailInv DEF RecordsInit
<1>2. TrailInv /\ [RecordsNext]_records => TrailInv'
  <2> SUFFICES ASSUME TrailInv, [RecordsNext]_records
               PROVE  TrailInv'
    OBVIOUS
  <2>1. [Trail!Next]_(Trail!vars)
    BY DEF RecordsNext, records, trailVars, Trail!vars
  <2>2. /\ TrailTyped /\ Reading /\ Holding /\ OneEventATime /\ Remembered
        /\ Sole /\ PointsBack /\ Linked /\ Single
    BY DEF TrailInv
  <2>3. TrailTyped' /\ Reading' /\ Holding' /\ OneEventATime'
    BY <2>1, <2>2, TrailTypes, ReadingStep, HoldingStep, OneEventStep
  <2>4. Remembered' /\ Sole' /\ PointsBack' /\ Linked' /\ Single'
    BY <2>1, <2>2, RememberedStep, SoleStep, PointsBackStep, LinkedStep, SingleStep
  <2> QED
    BY <2>3, <2>4 DEF TrailInv
<1> QED
  BY <1>1, <1>2, PTL DEF RecordsSpec

\* What the checkpoint remembers of a node is stored, also with two drivers.  As long as no
\* lease lapsed the first row alone has no predecessor; and if no save cut an event either,
\* each event has one row, and rows stored in the order of time form one chain.
THEOREM TrailStaysWhole == RecordsSpec => []TrailIsWhole
<1>1. TrailInv => TrailIsWhole
  <2> SUFFICES ASSUME TrailInv
               PROVE  TrailIsWhole
    OBVIOUS
  <2>1. /\ TrailTyped /\ Reading /\ Holding /\ OneEventATime /\ Remembered
        /\ Sole /\ PointsBack /\ Linked /\ Single
    BY DEF TrailInv
  <2>2. table \in Seq(Entries) /\ DOMAIN table = 1..Len(table) /\ Len(table) \in Nat
    BY <2>1 DEF TrailTyped
  <2>3. Trail!TypeOK
    <3>1. ASSUME NEW i \in DOMAIN table
          PROVE  /\ table[i].event \in Trail!Event /\ table[i].form \in {"whole", "cut"}
                 /\ table[i].prev \in 0..(i - 1)
      <4>1. i \in 1..Len(table) /\ i \in Nat
        BY <2>2
      <4>2. table[i] \in Entries /\ table[i].prev < i
        BY <2>1, <2>2, <4>1 DEF PointsBack
      <4> QED
        BY <4>1, <4>2 DEF Entries
    <3>2. saved.version \in Nat \ {0} /\ saved.events \in Seq(Trail!Event)
      BY <2>1 DEF TrailTyped
    <3> QED
      BY <2>1, <3>1, <3>2 DEF Trail!TypeOK, TrailTyped, Reading
  <2>4. Trail!CheckpointedIsStored
    <3> SUFFICES ASSUME NEW k \in DOMAIN channel, channel[k].label # Requested
                 PROVE  Trail!Stored(channel[k]) # {}
      BY DEF Trail!CheckpointedIsStored
    <3>1. k \in 1..Len(channel)
      BY <2>1 DEF TrailTyped
    <3>2. PICK i \in 1..Len(table) : table[i].event = channel[k]
      BY <2>1, <3>1 DEF Remembered, Kept, IsStored
    <3> QED
      BY <2>2, <3>2 DEF Trail!Stored
  <2>5. ~lapsed => Trail!OneRoot
    BY <2>1, <2>2 DEF Linked, Trail!OneRoot
  <2>6. ASSUME ~lapsed, Trail!NothingCut
        PROVE  Trail!StoredOnce /\ Trail!TimelyEventsChain
    <3>1. \A i, j \in 1..Len(table) : table[i].event = table[j].event => i = j
      BY <2>1, <2>6 DEF Single
    <3>2. Trail!StoredOnce
      BY <2>2, <3>1 DEF Trail!StoredOnce, Trail!Stored
    <3>3. ASSUME NEW i \in 1..Len(table), NEW j \in 1..Len(table), i < j,
                 Trail!Timely(i), Trail!Timely(j), table[i].prev = table[j].prev
          PROVE  FALSE
      <4>1. PICK r \in Nat : r = table[i].prev /\ r = table[j].prev
        <5>1. table[i] \in Entries
          BY <2>2
        <5>2. table[i].prev \in Nat
          BY <5>1 DEF Entries
        <5> QED
          BY <3>3, <5>2
      <4>2. r < i
        BY <2>1, <4>1 DEF PointsBack
      <4>3. r # 0 /\ r # j - 1
        BY <2>1, <2>2, <2>6, <3>3, <4>1, <4>2 DEF Linked
      <4>4. r \in Trail!Latest(j - 1)
        BY <2>1, <2>6, <4>1, <4>3 DEF Linked
      <4>5. i \in 1..(j - 1) /\ r \in 1..(i - 1) /\ r \in 1..Len(table)
        BY <2>2, <3>3, <4>2, <4>3
      <4>6. table[i].event.at <= table[r].event.at
        BY <4>4, <4>5 DEF Trail!Latest
      <4>7. table[r].event.at <= table[i].event.at
        BY <3>3, <4>5 DEF Trail!Timely
      <4>8. /\ table[i].event \in Trail!Event /\ table[r].event \in Trail!Event
            /\ Known(table[i].event) /\ Known(table[r].event)
        <5>1. table[i] \in Entries /\ table[r] \in Entries
          BY <2>2, <4>5
        <5>2. table[i].event \in Trail!Event /\ table[r].event \in Trail!Event
          BY <5>1 DEF Entries
        <5> QED
          BY <4>5, <5>2 DEF Known, IsStored
      <4>9. table[i].event.at = table[r].event.at
        <5>1. table[i].event.at \in Nat /\ table[r].event.at \in Nat
          BY <4>8, TrailConstants DEF Trail!Event
        <5> QED
          BY <4>6, <4>7, <5>1
      <4>10. table[i].event = table[r].event
        BY <2>1, <4>8, <4>9 DEF OneEventATime
      <4> QED
        BY <3>1, <4>2, <4>5, <4>10
    <3>4. Trail!TimelyEventsChain
      <4> SUFFICES ASSUME NEW i \in DOMAIN table, NEW j \in DOMAIN table, i # j,
                          Trail!Timely(i), Trail!Timely(j), table[i].prev = table[j].prev
                   PROVE  FALSE
        BY DEF Trail!TimelyEventsChain
      <4>1. i \in 1..Len(table) /\ j \in 1..Len(table)
        BY <2>2
      <4>2. i < j \/ j < i
        BY <2>2, <4>1
      <4> QED
        BY <3>3, <4>1, <4>2
    <3> QED
      BY <3>2, <3>4
  <2> QED
    BY <2>3, <2>4, <2>5, <2>6 DEF TrailIsWhole
<1> QED
  BY <1>1, TrailInvariance, PTL
-----------------------------------------------------------------------------
(* The conversations.                                                      *)
Given == Talk!Type \X (Talk!Thing \cup {None})
Turns == [says : Message \cup {None}, context : [Talk!Type -> Talk!Thing \cup {None}],
          history : Seq(Talk!Row), heard : Nat, command : Talk!Command,
          about : Talk!Thing \cup {None}, leaves : Seq(Given), given : Nat, failed : BOOLEAN]
Places == {"new", "history", "route", "execute", "conversation", "create", "question",
           "answer", "references", "over"}

WorldTyped ==
    /\ stage \in [Investigation -> {"none", "active", "escalated", "closed"}]
    /\ tracks \in [Investigation -> Alert \cup {None}]
    /\ remembered \subseteq Indexed

StoredTyped ==
    /\ exists \in BOOLEAN
    /\ messages \in Seq(Talk!Row)
    /\ references \in Seq(Talk!Type \X Talk!Thing)

TurnsTyped ==
    /\ at \in [Turn -> Places]
    /\ turn \in [Turn -> Turns]
    /\ calm \in BOOLEAN

LEMMA TalkConstants ==
  /\ {ListLimit, Recent, RefLimit} \subseteq Nat \ {0} /\ Crowd \subseteq Turn
  /\ None \notin Talk!Thing /\ Indexed \subseteq Alert /\ Represents \in [Finding -> Alert]
  /\ \A m \in Message : /\ m.slash \in Talk!Command \cup {None}
                        /\ m.follow \in Talk!TakesInvestigation \cup {None}
                        /\ m.follow # None => m.slash = None
                        /\ m.names \in Talk!Thing \cup {None}
  /\ Listing \subseteq Seq(Finding)
<1>1. Talk!BoundAssumption /\ Talk!WorldAssumption /\ Talk!ScenarioAssumption
  BY TalkAssumption
<1> QED
  BY <1>1 DEF Talk!BoundAssumption, Talk!WorldAssumption, Talk!ScenarioAssumption

\* The references an answer about i leaves: the one to i, if there is an i, and no other
\* to an investigation.
Leaving(i) ==
    {rs \in Seq(Given) :
       IF i = None THEN \A k \in 1..Len(rs) : rs[k][1] # "investigation"
       ELSE \E k \in 1..Len(rs) :
              /\ rs[k] = <<"investigation", i>>
              /\ \A j \in 1..Len(rs) : j # k => rs[j][1] # "investigation"}

LEMMA LeavesAre ==
  /\ <<>> \in Leaving(None)
  /\ \A a \in Alert \cup {None}, d \in {Address, None} :
       <<<<"alert", a>>, <<"address", d>>>> \in Leaving(None)
  /\ \A l \in Seq(Finding) : /\ Talk!Listed(l) \in Leaving(None)
                             /\ [k \in 1..Len(l) |-> <<"finding", l[k]>>] \in Leaving(None)
  /\ \A i \in Investigation, a \in Alert \cup {None} :
       /\ <<<<"alert", a>>, <<"investigation", i>>>> \in Leaving(i)
       /\ <<<<"investigation", i>>>> \in Leaving(i)
<1>0. /\ Alert \subseteq Talk!Thing /\ Finding \subseteq Talk!Thing /\ Investigation \subseteq Talk!Thing
      /\ Address \in Talk!Thing /\ None \notin Talk!Thing
      /\ Talk!Type = {"alert", "finding", "investigation", "address"}
  BY TalkConstants DEF Talk!Thing, Talk!Type
<1>1. <<>> \in Leaving(None)
  BY DEF Leaving
<1>2. ASSUME NEW a \in Alert \cup {None}, NEW d \in {Address, None}
      PROVE  <<<<"alert", a>>, <<"address", d>>>> \in Leaving(None)
  <2>1. PICK x \in Given : x = <<"alert", a>>
    BY <1>0 DEF Given
  <2>2. PICK y \in Given : y = <<"address", d>>
    BY <1>0 DEF Given
  <2>3. x[1] # "investigation" /\ y[1] # "investigation"
    BY <2>1, <2>2
  <2>4. <<x, y>> \in Seq(Given) /\ \A k \in 1..Len(<<x, y>>) : <<x, y>>[k][1] # "investigation"
    BY <2>3
  <2> QED
    BY <2>1, <2>2, <2>4 DEF Leaving
<1>3. ASSUME NEW l \in Seq(Finding)
      PROVE  Talk!Listed(l) \in Leaving(None)
  <2>1. PICK n \in Nat : n = Len(l)
    OBVIOUS
  <2>2. ASSUME NEW k \in 1..2 * n
        PROVE  Talk!Listed(l)[k] \in Given /\ Talk!Listed(l)[k][1] # "investigation"
    <3>1. CASE k % 2 = 1
      <4>1. (k + 1) \div 2 \in 1..n
        BY <3>1
      <4>2. l[(k + 1) \div 2] \in Finding
        BY <2>1, <4>1
      <4>3. Talk!Listed(l)[k] = <<"finding", l[(k + 1) \div 2]>>
        BY <2>1, <3>1 DEF Talk!Listed
      <4> QED
        BY <1>0, <4>2, <4>3 DEF Given
    <3>2. CASE k % 2 # 1
      <4>1. k \div 2 \in 1..n
        BY <3>2
      <4>2. l[k \div 2] \in Finding
        BY <2>1, <4>1
      <4>3. Represents[l[k \div 2]] \in Alert
        BY <4>2, TalkConstants
      <4>4. Talk!Listed(l)[k] = <<"alert", Represents[l[k \div 2]]>>
        BY <2>1, <3>2 DEF Talk!Listed
      <4> QED
        BY <1>0, <4>3, <4>4 DEF Given
    <3> QED
      BY <3>1, <3>2
  <2>3. PICK m \in Nat : m = 2 * n
    BY <2>1
  <2>4. Talk!Listed(l) = [k \in 1..m |-> Talk!Listed(l)[k]]
    BY <2>1, <2>3 DEF Talk!Listed
  <2>5. Talk!Listed(l) \in Seq(Given) /\ Len(Talk!Listed(l)) = m
    BY <2>2, <2>3, <2>4
  <2> QED
    BY <2>2, <2>3, <2>5 DEF Leaving
<1>4. ASSUME NEW l \in Seq(Finding)
      PROVE  [k \in 1..Len(l) |-> <<"finding", l[k]>>] \in Leaving(None)
  <2>1. \A k \in 1..Len(l) : <<"finding", l[k]>> \in Given
    BY <1>0 DEF Given
  <2>2. Len(l) \in Nat
    OBVIOUS
  <2>3. PICK s : s = [k \in 1..Len(l) |-> <<"finding", l[k]>>]
    OBVIOUS
  <2>4. s \in Seq(Given) /\ Len(s) = Len(l)
    BY <2>1, <2>2, <2>3
  <2>5. \A k \in 1..Len(s) : s[k][1] # "investigation"
    BY <2>3, <2>4
  <2> QED
    BY <2>3, <2>4, <2>5 DEF Leaving
<1>5. ASSUME NEW i \in Investigation, NEW a \in Alert \cup {None}
      PROVE  /\ <<<<"alert", a>>, <<"investigation", i>>>> \in Leaving(i)
             /\ <<<<"investigation", i>>>> \in Leaving(i)
  <2>1. PICK x \in Given : x = <<"alert", a>>
    BY <1>0 DEF Given
  <2>2. PICK y \in Given : y = <<"investigation", i>>
    BY <1>0 DEF Given
  <2>3. x[1] # "investigation" /\ i # None
    BY <1>0, <2>1
  <2>4. <<x, y>> \in Seq(Given) /\ Len(<<x, y>>) = 2 /\ <<x, y>>[2] = y /\ <<x, y>>[1] = x
    OBVIOUS
  <2>5. <<x, y>> \in Leaving(i)
    BY <2>2, <2>3, <2>4 DEF Leaving
  <2>6. <<y>> \in Seq(Given) /\ Len(<<y>>) = 1 /\ <<y>>[1] = y
    OBVIOUS
  <2>7. <<y>> \in Leaving(i)
    BY <2>2, <2>3, <2>6 DEF Leaving
  <2> QED
    BY <2>1, <2>2, <2>5, <2>7
<1> QED
  BY <1>1, <1>2, <1>3, <1>4, <1>5

-----------------------------------------------------------------------------
(* What a turn is given of the conversation.                               *)
LEMMA LastOfIs ==
  ASSUME NEW S, NEW s \in Seq(S), NEW n \in Nat \ {0}
  PROVE  /\ Talk!LastOf(s, n) \in Seq(S)
         /\ \E o \in Nat : /\ Len(Talk!LastOf(s, n)) + o = Len(s)
                           /\ \A k \in 1..Len(Talk!LastOf(s, n)) : Talk!LastOf(s, n)[k] = s[k + o]
<1>1. Len(s) \in Nat
  OBVIOUS
<1>2. CASE Len(s) > n
  <2>1. PICK o \in Nat : o = Len(s) - n
    BY <1>1, <1>2
  <2>2. PICK b : b = Talk!LastOf(s, n) /\ b = SubSeq(s, o + 1, Len(s))
    BY <1>1, <1>2, <2>1 DEF Talk!LastOf
  <2>3. \A k \in 1..n : k + o \in 1..Len(s) /\ (o + 1) + k - 1 = k + o
    BY <1>1, <2>1
  <2>4. 1 <= o + 1 /\ o + 1 <= Len(s) /\ Len(s) - (o + 1) + 1 = n
    BY <1>1, <1>2, <2>1
  <2>5. b \in Seq(S) /\ Len(b) = n
    BY <1>1, <2>2, <2>4
  <2>6. \A k \in 1..Len(b) : b[k] = s[k + o]
    BY <1>1, <2>2, <2>3, <2>5
  <2>7. Len(b) + o = Len(s)
    BY <1>1, <2>1, <2>5
  <2>8. \A k \in 1..Len(b) : b[k] = s[k + o]
    BY <2>6
  <2> QED
    BY <2>1, <2>2, <2>5, <2>7, <2>8
<1>3. CASE ~(Len(s) > n)
  <2>1. Talk!LastOf(s, n) = SubSeq(s, 1, Len(s))
    BY <1>3 DEF Talk!LastOf
  <2>2. Talk!LastOf(s, n) = s
    BY <1>1, <2>1
  <2> QED
    BY <1>1, <2>2
<1> QED
  BY <1>2, <1>3

LEMMA RecitedTyped ==
  ASSUME NEW s \in Seq(Talk!Row)
  PROVE  Talk!Recited(s) \in Seq(Talk!Row)
<1>1. Len(s) \in Nat /\ ListLimit \in Nat /\ Recent \in Nat \ {0}
  BY TalkConstants
<1>2. PICK n \in 0..Len(s) : n = Talk!Least(Len(s), ListLimit)
  BY <1>1 DEF Talk!Least
<1>3. SubSeq(s, 1, n) \in Seq(Talk!Row)
  BY <1>1
<1> QED
  BY <1>1, <1>2, <1>3, LastOfIs DEF Talk!Recited

\* A set of numbers up to n that is not empty has a greatest one.
LEMMA Topmost ==
  ASSUME NEW n \in Nat, NEW S \in SUBSET (1..n), S # {}
  PROVE  \E k \in S : \A j \in S : k >= j
<1> DEFINE Less == {p \in Nat \X Nat : p[1] < p[2]}
           T == {n - k : k \in S}
<1>1. IsWellFoundedOn(Less, Nat)
  BY NatLessThanWellFounded DEF OpToRel
<1>2. T \in SUBSET Nat /\ T # {}
  <2>1. \A k \in S : n - k \in Nat
    OBVIOUS
  <2>2. PICK k \in S : n - k \in T
    OBVIOUS
  <2> QED
    BY <2>1, <2>2
<1>3. PICK m \in T : \A i \in T : ~(<<i, m>> \in Less)
  <2> HIDE DEF Less, T
  <2> QED
    BY <1>1, <1>2, WFMin
<1>4. PICK k \in S : m = n - k
  OBVIOUS
<1>5. ASSUME NEW j \in S
      PROVE  k >= j
  <2>1. n - j \in T /\ n - j \in Nat /\ m \in Nat
    BY <1>4
  <2>2. ~(n - j < m)
    <3>1. <<n - j, m>> \notin Less
      BY <1>3, <2>1
    <3> QED
      BY <2>1, <3>1
  <2> QED
    BY <1>4, <2>2
<1> QED
  BY <1>5

\* The context knows of a type what its last reference says, or nothing.
LastOfType(refs, y, v) ==
    \E k \in 1..Len(refs) : refs[k] = <<y, v>> /\ \A j \in k + 1..Len(refs) : refs[j][1] # y

LEMMA ContextIs ==
  ASSUME NEW refs \in Seq(Talk!Type \X Talk!Thing)
  PROVE  LET c == Talk!ContextOf(refs) IN
         /\ c \in [Talk!Type -> Talk!Thing \cup {None}]
         /\ \A y \in Talk!Type : c[y] # None => LastOfType(refs, y, c[y])
<1> DEFINE recent == Talk!LastOf(refs, RefLimit)
           of(y) == {k \in 1..Len(recent) : recent[k][1] = y}
           top(y) == CHOOSE k \in of(y) : \A j \in of(y) : k >= j
           c == Talk!ContextOf(refs)
<1>0. RefLimit \in Nat \ {0}
  BY TalkConstants
<1>1. recent \in Seq(Talk!Type \X Talk!Thing)
  BY <1>0, LastOfIs
<1>2. PICK o \in Nat : Len(recent) + o = Len(refs) /\ \A k \in 1..Len(recent) : recent[k] = refs[k + o]
  BY <1>0, LastOfIs
<1>3. c = [y \in Talk!Type |-> IF of(y) = {} THEN None ELSE recent[top(y)][2]]
  BY DEF Talk!ContextOf
<1>4. Len(recent) \in Nat
  BY <1>1
<1> HIDE DEF recent, c
<1>5. ASSUME NEW y \in Talk!Type, of(y) # {}
      PROVE  /\ recent[top(y)][2] \in Talk!Thing
             /\ LastOfType(refs, y, recent[top(y)][2])
  <2>1. \E k \in of(y) : \A j \in of(y) : k >= j
    <3>1. of(y) \in SUBSET (1..Len(recent))
      OBVIOUS
    <3> HIDE DEF of
    <3> QED
      BY <1>4, <1>5, <3>1, Topmost
  <2>2. top(y) \in of(y) /\ \A j \in of(y) : top(y) >= j
    <3> HIDE DEF of
    <3> QED
      BY <2>1
  <2>3. PICK k \in 1..Len(recent) : k = top(y) /\ recent[k][1] = y /\ \A j \in of(y) : k >= j
    <3> HIDE DEF top
    <3> QED
      BY <2>2
  <2>4. recent[k] \in Talk!Type \X Talk!Thing
    BY <1>1, <2>3
  <2>8. recent[k] = <<y, recent[k][2]>>
    <3>1. PICK a \in Talk!Type, b \in Talk!Thing : recent[k] = <<a, b>>
      BY <2>4
    <3>2. recent[k][1] = y
      BY <2>3
    <3> QED
      BY <3>1, <3>2
  <2>5. k + o \in 1..Len(refs) /\ refs[k + o] = <<y, recent[k][2]>>
    <3>1. Len(refs) \in Nat /\ k \in Nat /\ k <= Len(recent)
      BY <1>4, <2>3
    <3>4. Len(recent) + o = Len(refs) /\ 1 <= k
      BY <1>2
    <3>2. k + o \in 1..Len(refs)
      BY <1>4, <3>1, <3>4
    <3>3. refs[k + o] = recent[k]
      BY <1>2, <2>3
    <3> QED
      BY <2>8, <3>2, <3>3
  <2>6. ASSUME NEW j \in k + o + 1..Len(refs), refs[j][1] = y
        PROVE  FALSE
    <3>1. j - o \in 1..Len(recent) /\ j - o > k /\ (j - o) + o = j
      BY <1>2, <1>4
    <3>2. recent[j - o] = refs[j]
      BY <1>2, <3>1
    <3>3. j - o \in of(y)
      BY <2>6, <3>1, <3>2
    <3>4. k >= j - o
      <4> HIDE DEF of
      <4> QED
        BY <2>3, <3>3
    <3> QED
      BY <3>1, <3>4
  <2>7. LastOfType(refs, y, recent[k][2])
    BY <2>5, <2>6 DEF LastOfType
  <2> QED
    BY <2>3, <2>4, <2>7
<1> HIDE DEF of, top
<1>6. c \in [Talk!Type -> Talk!Thing \cup {None}]
  BY <1>3, <1>5
<1>7. \A y \in Talk!Type : c[y] # None => LastOfType(refs, y, c[y])
  BY <1>3, <1>5
<1> QED
  BY <1>6, <1>7 DEF c

-----------------------------------------------------------------------------
(* The steps of a turn by what they do to it and to what is stored.        *)
Still == UNCHANGED <<exists, messages, references>>
Walks(t, p, d) ==
    /\ at' = [at EXCEPT ![t] = p]
    /\ turn' = [turn EXCEPT ![t] = d]
\* d works with what t has said, been told and stored.
Keeps(t, d) ==
    /\ d.says = turn[t].says /\ d.context = turn[t].context
    /\ d.history = turn[t].history /\ d.heard = turn[t].heard

Recalls(t) ==
    \E d \in Turns :
      /\ at[t] = "new" /\ Still /\ Walks(t, "history", d)
      /\ d.says \in Message /\ d.given = turn[t].given
      /\ calm' \in BOOLEAN
      /\ calm' => calm /\ Talk!Alone /\ d.context = Talk!ContextOf(references)

Recitation == IF exists THEN Talk!Recited(messages) ELSE <<>>
Hears(t) ==
    \E d \in Turns :
      /\ at[t] = "history" /\ Still /\ Walks(t, "route", d)
      /\ d.says = turn[t].says /\ d.context = turn[t].context /\ d.given = turn[t].given
      /\ d.heard = Len(messages)
      /\ calm' \in BOOLEAN
      /\ calm' => calm /\ d.history = Recitation

Routes(t) ==
    \E d \in Turns :
      /\ at[t] = "route" /\ Still /\ calm' = calm /\ Walks(t, "execute", d)
      /\ Keeps(t, d) /\ d.given = turn[t].given
      /\ d.command = Talk!CommandOf(turn[t].says, turn[t].context)

Replies(t) ==
    \E d \in Turns :
      /\ at[t] = "execute" /\ Still /\ calm' = calm /\ Walks(t, "conversation", d)
      /\ Keeps(t, d) /\ d.given = turn[t].given
      /\ d.about \in Investigation \cup {None} /\ d.leaves \in Leaving(d.about)

Opens(t) ==
    \E p \in {"create", "question"} :
      /\ at[t] \in {"conversation", "create"} /\ at' = [at EXCEPT ![t] = p] /\ turn' = turn
      /\ UNCHANGED <<messages, references, calm>>
      /\ exists' \in BOOLEAN /\ (exists => exists') /\ (p = "question" => exists')

Says(t, role, i) == messages' = Append(messages, [turn |-> t, role |-> role, about |-> i])
Tells(t) ==
    \E role \in {"user", "assistant"} :
      /\ UNCHANGED <<turn, exists, references, calm>>
      /\ Says(t, role, IF role = "user" THEN None ELSE turn[t].about)
      /\ at[t] = IF role = "user" THEN "question" ELSE "answer"
      /\ at' = [at EXCEPT ![t] = IF role = "user" THEN "answer" ELSE "references"]

Refers(t) ==
    \E k \in Talk!Due(turn[t].leaves, turn[t].given), d \in Turns :
      /\ at[t] = "references" /\ UNCHANGED <<exists, messages, at, calm>>
      /\ \A j \in Talk!Due(turn[t].leaves, turn[t].given) : k <= j
      /\ references' = Append(references, turn[t].leaves[k])
      /\ turn' = [turn EXCEPT ![t] = d]
      /\ Keeps(t, d) /\ d.about = turn[t].about /\ d.leaves = turn[t].leaves /\ d.given = k

Forgotten(d) ==
    d.context["investigation"] = None /\ d.given = 0
Leaves(t) ==
    \E d \in Turns :
      /\ Still /\ Forgotten(d) /\ Walks(t, "over", d)
      /\ \/ /\ at[t] \in {"route", "execute", "create", "references"} /\ calm' = calm
            /\ at[t] = "references" => Talk!Due(turn[t].leaves, turn[t].given) = {}
         \/ d.failed /\ calm' = FALSE /\ at[t] \notin {"new", "over"}

Rests == UNCHANGED <<at, turn, calm>> /\ Still

Moved(t) ==
    \/ Recalls(t) \/ Hears(t) \/ Routes(t) \/ Replies(t) \/ Opens(t) \/ Tells(t) \/ Refers(t)
    \/ Leaves(t)

LEMMA NoTurnTyped ==
  ASSUME NEW f \in BOOLEAN
  PROVE  LET d == [Talk!NoTurn EXCEPT !.failed = f] IN
         d \in Turns /\ Forgotten(d) /\ d.failed = f
<1>1. Talk!NoContext \in [Talk!Type -> Talk!Thing \cup {None}]
  BY DEF Talk!NoContext
<1>2. Talk!NoContext["investigation"] = None
  BY DEF Talk!NoContext, Talk!Type
<1>3. /\ <<>> \in Seq(Talk!Row) /\ <<>> \in Seq(Given) /\ "chat" \in Talk!Command
  BY DEF Talk!Command
<1>4. PICK c : c = Talk!NoContext
  OBVIOUS
<1>5. PICK d : d = [says |-> None, context |-> c, history |-> <<>>, heard |-> 0, command |-> "chat",
                    about |-> None, leaves |-> <<>>, given |-> 0, failed |-> f]
  OBVIOUS
<1>6. d = [Talk!NoTurn EXCEPT !.failed = f]
  BY <1>4, <1>5 DEF Talk!NoTurn
<1>7. d \in Turns
  BY <1>1, <1>3, <1>4, <1>5 DEF Turns
<1>8. Forgotten(d) /\ d.failed = f
  BY <1>2, <1>4, <1>5 DEF Forgotten
<1> QED
  BY <1>6, <1>7, <1>8

LEMMA EndLeaves ==
  ASSUME TurnsTyped, NEW t \in Turn, NEW f \in BOOLEAN, Talk!End(t, f)
  PROVE  \E d \in Turns : Walks(t, "over", d) /\ Forgotten(d) /\ d.failed = f
BY NoTurnTyped DEF Talk!End, Talk!Goto, Walks

LEMMA ReplyReplies ==
  ASSUME TurnsTyped, NEW t \in Turn, NEW i \in Investigation \cup {None}, NEW rs \in Leaving(i),
         Talk!Reply(t, i, rs), at[t] = "execute", Still, calm' = calm
  PROVE  Replies(t)
<1>1. PICK c \in Turns : c = turn[t]
  BY DEF TurnsTyped
<1>2. i \in Talk!Thing \cup {None} /\ rs \in Seq(Given)
  BY DEF Talk!Thing, Leaving
<1>3. PICK d : d = [c EXCEPT !.about = i, !.leaves = rs]
  OBVIOUS
<1>4. d \in Turns
  BY <1>1, <1>2, <1>3 DEF Turns
<1>5. d.about = i /\ d.leaves = rs /\ d.given = c.given
  BY <1>1, <1>3 DEF Turns
<1>6. Keeps(t, d)
  BY <1>1, <1>3 DEF Turns, Keeps
<1>7. Walks(t, "conversation", d)
  BY <1>1, <1>3 DEF Talk!Reply, Talk!Goto, Walks
<1> QED
  BY <1>1, <1>4, <1>5, <1>6, <1>7 DEF Replies

LEMMA RaiseLeaves ==
  ASSUME TurnsTyped, NEW t \in Turn, Talk!Raise(t), at[t] \in {"route", "execute", "create"},
         Still, calm' = calm
  PROVE  Leaves(t)
BY EndLeaves DEF Talk!Raise, Leaves

LEMMA AboutReplies ==
  ASSUME TurnsTyped, WorldTyped, NEW t \in Turn, NEW i \in Investigation,
         Talk!AboutInvestigation(t, i), at[t] = "execute", Still, calm' = calm
  PROVE  Replies(t)
<1>1. PICK a \in Alert \cup {None} : a = tracks[i]
  BY DEF WorldTyped
<1>2. Talk!Reply(t, i, <<<<"alert", a>>, <<"investigation", i>>>>)
  BY <1>1 DEF Talk!AboutInvestigation
<1> QED
  BY <1>2, LeavesAre, ReplyReplies

LEMMA CommandSteps ==
  ASSUME TurnsTyped, WorldTyped, NEW t \in Turn,
         \/ Talk!Chat(t) \/ Talk!Enumerate(t) \/ Talk!Inform(t) \/ Talk!Unavailable(t)
         \/ Talk!Unresolved(t) \/ Talk!Tracked(t) \/ Talk!Investigate(t) \/ Talk!Look(t)
         \/ Talk!Resume(t)
  PROVE  Replies(t) \/ Leaves(t)
<1>0. at[t] = "execute" /\ Still /\ calm' = calm
  BY DEF Talk!Chat, Talk!Enumerate, Talk!Inform, Talk!Unavailable, Talk!Unresolved, Talk!Tracked,
         Talk!Investigate, Talk!Look, Talk!Resume, Talk!At, Talk!stored, Still
<1>1. ASSUME Talk!Reply(t, None, <<>>)
      PROVE  Replies(t)
  BY <1>0, <1>1, LeavesAre, ReplyReplies
<1>2. CASE Talk!Chat(t)
  <2>1. CASE Talk!Raise(t)
    BY <1>0, <2>1, RaiseLeaves
  <2>2. CASE \E a \in Alert \cup {None}, d \in {Address, None} :
               Talk!Reply(t, None, <<<<"alert", a>>, <<"address", d>>>>)
    <3>1. PICK a \in Alert \cup {None}, d \in {Address, None} :
               Talk!Reply(t, None, <<<<"alert", a>>, <<"address", d>>>>)
      BY <2>2
    <3>2. <<<<"alert", a>>, <<"address", d>>>> \in Leaving(None)
      BY LeavesAre
    <3> QED
      BY <1>0, <3>1, <3>2, ReplyReplies
  <2> QED
    BY <1>2, <2>1, <2>2 DEF Talk!Chat
<1>3. CASE Talk!Enumerate(t)
  <2>1. PICK l \in Listing : Talk!Reply(t, None,
          IF turn[t].command = "alerts" THEN Talk!Listed(l) ELSE [k \in 1..Len(l) |-> <<"finding", l[k]>>])
    BY <1>3 DEF Talk!Enumerate
  <2>2. l \in Seq(Finding)
    BY TalkConstants
  <2>3. CASE turn[t].command = "alerts"
    <3>1. Talk!Reply(t, None, Talk!Listed(l)) /\ Talk!Listed(l) \in Leaving(None)
      BY <2>1, <2>2, <2>3, LeavesAre
    <3> QED
      BY <1>0, <3>1, ReplyReplies
  <2>4. CASE turn[t].command # "alerts"
    <3>1. PICK rs : rs = [k \in 1..Len(l) |-> <<"finding", l[k]>>]
      OBVIOUS
    <3>2. Talk!Reply(t, None, rs) /\ rs \in Leaving(None)
      BY <2>1, <2>2, <2>4, <3>1, LeavesAre
    <3> QED
      BY <1>0, <3>2, ReplyReplies
  <2> QED
    BY <2>3, <2>4
<1>4. CASE Talk!Inform(t) \/ Talk!Unavailable(t) \/ Talk!Unresolved(t)
  BY <1>1, <1>4 DEF Talk!Inform, Talk!Unavailable, Talk!Unresolved
<1>5. CASE Talk!Tracked(t)
  BY <1>0, <1>5, AboutReplies DEF Talk!Tracked
<1>6. CASE Talk!Investigate(t)
  <2>1. PICK a \in Alert : a = Talk!AlertNamed(turn[t].about)
    BY <1>6, TalkConstants DEF Talk!Investigate, WorldTyped
  <2>2. CASE \E i \in Talk!Active(a) : Talk!AboutInvestigation(t, i)
    BY <1>0, <2>2, AboutReplies DEF Talk!Active
  <2>3. CASE \E i \in Investigation : Talk!Reply(t, i, <<<<"alert", a>>, <<"investigation", i>>>>)
    <3>1. PICK i \in Investigation : Talk!Reply(t, i, <<<<"alert", a>>, <<"investigation", i>>>>)
      BY <2>3
    <3>2. <<<<"alert", a>>, <<"investigation", i>>>> \in Leaving(i)
      BY LeavesAre
    <3> QED
      BY <1>0, <3>1, <3>2, ReplyReplies
  <2> QED
    BY <1>6, <2>1, <2>2, <2>3 DEF Talk!Investigate
<1>7. CASE Talk!Look(t)
  <2>1. CASE Talk!Reply(t, None, <<>>)
    BY <1>1, <2>1
  <2>2. CASE \E i \in Investigation : Talk!AboutInvestigation(t, i)
    BY <1>0, <2>2, AboutReplies
  <2>3. CASE Talk!Raise(t)
    BY <1>0, <2>3, RaiseLeaves
  <2> QED
    BY <1>7, <2>1, <2>2, <2>3 DEF Talk!Look
<1>8. CASE Talk!Resume(t)
  <2>1. CASE Talk!Reply(t, None, <<>>)
    BY <1>1, <2>1
  <2>2. CASE \E i \in Investigation : Talk!AboutInvestigation(t, i)
    BY <1>0, <2>2, AboutReplies
  <2>3. CASE \E i \in Investigation : Talk!Reply(t, i, <<<<"investigation", i>>>>)
    <3>1. PICK i \in Investigation : Talk!Reply(t, i, <<<<"investigation", i>>>>)
      BY <2>3
    <3>2. <<<<"investigation", i>>>> \in Leaving(i)
      BY LeavesAre
    <3> QED
      BY <1>0, <3>1, <3>2, ReplyReplies
  <2>4. CASE Talk!Raise(t)
    BY <1>0, <2>4, RaiseLeaves
  <2> QED
    BY <1>8, <2>1, <2>2, <2>3, <2>4 DEF Talk!Resume
<1> QED
  BY <1>2, <1>3, <1>4, <1>5, <1>6, <1>7, <1>8

LEMMA WorldStep ==
  ASSUME WorldTyped, [Talk!Next]_(Talk!vars)
  PROVE  WorldTyped'
<1>1. ASSUME NEW t \in Turn, Talk!Investigate(t)
      PROVE  WorldTyped'
  <2>1. PICK a : a = Talk!AlertNamed(turn[t].about)
    OBVIOUS
  <2>2. a \in Indexed /\ remembered' = remembered \cup {a}
    BY <1>1, <2>1 DEF Talk!Investigate, WorldTyped
  <2>3. a \in Alert
    BY <2>2, TalkConstants
  <2>4. \/ UNCHANGED <<stage, tracks>>
        \/ \E i \in Investigation :
             stage' = [stage EXCEPT ![i] = "active"] /\ tracks' = [tracks EXCEPT ![i] = a]
    BY <1>1, <2>1 DEF Talk!Investigate
  <2> QED
    BY <2>2, <2>3, <2>4 DEF WorldTyped
<1>2. ASSUME NEW t \in Turn, Talk!Resume(t)
      PROVE  WorldTyped'
  <2>1. UNCHANGED <<tracks, remembered>>
    BY <1>2 DEF Talk!Resume
  <2>2. \/ UNCHANGED stage
        \/ \E i \in Investigation, s \in {"active", "escalated", "closed"} :
             stage' = [stage EXCEPT ![i] = s]
    BY <1>2 DEF Talk!Resume
  <2> QED
    BY <2>1, <2>2 DEF WorldTyped
<1>3. ASSUME NEW i \in Investigation, Talk!Settle(i)
      PROVE  WorldTyped'
  BY <1>3 DEF Talk!Settle, WorldTyped
<1>4. ASSUME NEW t \in Turn, Talk!Respond(t), ~Talk!Investigate(t), ~Talk!Resume(t)
      PROVE  UNCHANGED <<stage, tracks, remembered>>
  BY <1>4 DEF Talk!Respond, Talk!Recall, Talk!ReadHistory, Talk!Route, Talk!Chat, Talk!Enumerate,
     Talk!Inform, Talk!Unavailable, Talk!Unresolved, Talk!Tracked, Talk!Look, Talk!LookUp, Talk!Create,
     Talk!AppendQuestion, Talk!AppendAnswer, Talk!AddReference, Talk!Return, Talk!Swallow, Talk!world
<1>5. CASE UNCHANGED Talk!vars
  BY <1>5 DEF Talk!vars, Talk!world, WorldTyped
<1>6. CASE Talk!Next
  BY <1>1, <1>2, <1>3, <1>4, <1>6 DEF Talk!Next, WorldTyped
<1> QED
  BY <1>5, <1>6

-----------------------------------------------------------------------------
(* Which command a message asks for: the first of the rules that apply.    *)
RuleIs(k) ==
    LET r == Talk!Rules[k] IN
    /\ r.command \in Talk!Command
    /\ r.command = "investigate" => r.word = "full mapek"
    /\ r.command \in {"collect", "continue"} =>
         r.word \in {"collect", "continue"} /\ r.needs = "investigation"

LEMMA RulesAre ==
  /\ DOMAIN Talk!Rules = 1..16 /\ Len(Talk!Rules) = 16
  /\ \A k \in 1..16 : RuleIs(k)
<1>1. DOMAIN Talk!Rules = 1..16 /\ Len(Talk!Rules) = 16
  BY DEF Talk!Rules
<1>2. ASSUME NEW k \in 1..16
      PROVE  RuleIs(k)
  <2>1. CASE k = 1
    BY <2>1 DEF RuleIs, Talk!Rules, Talk!Command
  <2>2. CASE k = 2
    BY <2>2 DEF RuleIs, Talk!Rules, Talk!Command
  <2>3. CASE k = 3
    BY <2>3 DEF RuleIs, Talk!Rules, Talk!Command
  <2>4. CASE k = 4
    BY <2>4 DEF RuleIs, Talk!Rules, Talk!Command
  <2>5. CASE k = 5
    BY <2>5 DEF RuleIs, Talk!Rules, Talk!Command
  <2>6. CASE k = 6
    BY <2>6 DEF RuleIs, Talk!Rules, Talk!Command
  <2>7. CASE k = 7
    BY <2>7 DEF RuleIs, Talk!Rules, Talk!Command
  <2>8. CASE k = 8
    BY <2>8 DEF RuleIs, Talk!Rules, Talk!Command
  <2>9. CASE k = 9
    BY <2>9 DEF RuleIs, Talk!Rules, Talk!Command
  <2>10. CASE k = 10
    BY <2>10 DEF RuleIs, Talk!Rules, Talk!Command
  <2>11. CASE k = 11
    BY <2>11 DEF RuleIs, Talk!Rules, Talk!Command
  <2>12. CASE k = 12
    BY <2>12 DEF RuleIs, Talk!Rules, Talk!Command
  <2>13. CASE k = 13
    BY <2>13 DEF RuleIs, Talk!Rules, Talk!Command
  <2>14. CASE k = 14
    BY <2>14 DEF RuleIs, Talk!Rules, Talk!Command
  <2>15. CASE k = 15
    BY <2>15 DEF RuleIs, Talk!Rules, Talk!Command
  <2>16. CASE k = 16
    BY <2>16 DEF RuleIs, Talk!Rules, Talk!Command
  <2> QED
    BY <2>1, <2>2, <2>3, <2>4, <2>5, <2>6, <2>7, <2>8, <2>9, <2>10, <2>11, <2>12, <2>13, <2>14, <2>15, <2>16
<1> QED
  BY <1>1, <1>2

LEMMA DeterministicIs ==
  ASSUME NEW m
  PROVE  \/ Talk!Deterministic(m) = "chat"
         \/ \E k \in 1..16 : /\ Talk!Applies(Talk!Rules[k], m)
                             /\ Talk!Deterministic(m) = Talk!Rules[k].command
<1> DEFINE firing == {k \in 1..16 : Talk!Applies(Talk!Rules[k], m)}
           first == CHOOSE k \in firing : \A j \in firing : k <= j
           Less == {p \in Nat \X Nat : p[1] < p[2]}
<1>1. Talk!Deterministic(m) = IF firing = {} THEN "chat" ELSE Talk!Rules[first].command
  BY RulesAre DEF Talk!Deterministic
<1>2. ASSUME firing # {}
      PROVE  first \in firing
  <2>1. IsWellFoundedOn(Less, Nat)
    BY NatLessThanWellFounded DEF OpToRel
  <2>2. firing \in SUBSET Nat
    OBVIOUS
  <2>3. \A i, j \in Nat : i < j => <<i, j>> \in Less
    OBVIOUS
  <2>4. PICK k \in firing : \A j \in firing : ~(<<j, k>> \in Less)
    <3> HIDE DEF Less, firing
    <3> QED
      BY <1>2, <2>1, <2>2, WFMin
  <2>5. \A j \in firing : k <= j
    <3> HIDE DEF Less
    <3>1. ASSUME NEW j \in firing, ~(k <= j)
          PROVE  FALSE
      <4>1. j < k /\ j \in Nat /\ k \in Nat
        BY <3>1
      <4> QED
        BY <2>3, <2>4, <4>1
    <3> QED
      BY <3>1
  <2> HIDE DEF firing
  <2> QED
    BY <2>4, <2>5
<1>3. CASE firing = {}
  <2> HIDE DEF firing
  <2> QED
    BY <1>1, <1>3
<1>4. CASE firing # {}
  <2>1. PICK k \in firing : k = first
    <3> HIDE DEF firing, first
    <3> QED
      BY <1>2, <1>4
  <2>2. Talk!Deterministic(m) = Talk!Rules[k].command
    <3> HIDE DEF firing, first
    <3> QED
      BY <1>1, <1>4, <2>1
  <2> QED
    BY <2>2
<1> QED
  BY <1>3, <1>4

\* A command that opens or resumes an investigation was asked for.
LEMMA CommandIs ==
  ASSUME NEW m \in Message, NEW context
  PROVE  /\ Talk!CommandOf(m, context) \in Talk!Command
         /\ Talk!CommandOf(m, context) \in {"investigate", "collect", "continue"} =>
              Talk!Asks(m)
<1>1. /\ m.slash \in Talk!Command \cup {None} /\ m.follow \in Talk!TakesInvestigation \cup {None}
      /\ m.follow # None => m.slash = None
      /\ Talk!TakesInvestigation \subseteq Talk!Command
  BY TalkConstants DEF Talk!TakesInvestigation, Talk!Command
<1>2. Talk!Deterministic(m) \in Talk!Command
  BY DeterministicIs, RulesAre DEF RuleIs, Talk!Command
<1>3. Talk!Deterministic(m) = "investigate" => "full mapek" \in m.words
  BY DeterministicIs, RulesAre DEF RuleIs, Talk!Applies
<1>4. Talk!Deterministic(m) \in {"collect", "continue"} =>
        m.words \cap {"collect", "continue"} # {} /\ m.names \in Investigation
  BY DeterministicIs, RulesAre DEF RuleIs, Talk!Applies
<1>5. Talk!Routed(m) \in Talk!Command
  BY <1>1, <1>2 DEF Talk!Routed
<1>6. Talk!CommandOf(m, context) \in Talk!Command
  BY <1>1, <1>5 DEF Talk!CommandOf, Talk!FollowsUp
<1>7. CASE m.slash # None
  BY <1>1, <1>7 DEF Talk!CommandOf, Talk!FollowsUp, Talk!Routed, Talk!Asks
<1>8. CASE m.slash = None
  BY <1>1, <1>3, <1>4, <1>6, <1>8
  DEF Talk!CommandOf, Talk!FollowsUp, Talk!Routed, Talk!Asks, Talk!TakesInvestigation
<1> QED
  BY <1>6, <1>7, <1>8

-----------------------------------------------------------------------------
\* What a turn routes and executes was said.
Spoken == \A t \in Turn : at[t] \in {"history", "route", "execute"} => turn[t].says \in Message

LEMMA RecallMoves ==
  ASSUME TurnsTyped, StoredTyped, NEW t \in Turn, Talk!Recall(t)
  PROVE  Recalls(t)
<1>0. PICK e \in Turns : e = turn[t]
  BY DEF TurnsTyped
<1>1. Talk!ContextOf(references) \in [Talk!Type -> Talk!Thing \cup {None}]
  BY ContextIs DEF StoredTyped
<1>2. Talk!NoContext \in [Talk!Type -> Talk!Thing \cup {None}]
  BY DEF Talk!NoContext
<1>3. PICK m \in Message, c \in {Talk!ContextOf(references), Talk!NoContext} :
        /\ turn' = [turn EXCEPT ![t] = [turn[t] EXCEPT !.says = m, !.context = c]]
        /\ calm' = (calm /\ Talk!Alone /\ c = Talk!ContextOf(references))
  BY DEF Talk!Recall
<1>4. PICK d : d = [e EXCEPT !.says = m, !.context = c]
  OBVIOUS
<1>5. d \in Turns
  BY <1>0, <1>1, <1>2, <1>4 DEF Turns
<1>6. d.says \in Message /\ d.given = e.given /\ d.context = c
  BY <1>0, <1>4 DEF Turns
<1>7. Walks(t, "history", d)
  BY <1>0, <1>3, <1>4 DEF Talk!Recall, Talk!Goto, Walks
<1>8. at[t] = "new" /\ Still
  BY DEF Talk!Recall, Talk!stored, Still
<1>9. calm' \in BOOLEAN /\ (calm' => calm /\ Talk!Alone /\ c = Talk!ContextOf(references))
  BY <1>3
<1> QED
  BY <1>0, <1>5, <1>6, <1>7, <1>8, <1>9 DEF Recalls

LEMMA HistoryMoves ==
  ASSUME TurnsTyped, StoredTyped, NEW t \in Turn, Talk!ReadHistory(t)
  PROVE  Hears(t)
<1>0. PICK e \in Turns : e = turn[t]
  BY DEF TurnsTyped
<1>1. Recitation \in Seq(Talk!Row) /\ <<>> \in Seq(Talk!Row) /\ Len(messages) \in Nat
  BY RecitedTyped DEF StoredTyped, Recitation
<1>2. PICK h \in {Recitation, <<>>} :
        /\ turn' = [turn EXCEPT ![t] = [turn[t] EXCEPT !.history = h, !.heard = Len(messages)]]
        /\ calm' = (calm /\ h = Recitation)
  BY DEF Talk!ReadHistory, Recitation
<1>3. PICK d : d = [e EXCEPT !.history = h, !.heard = Len(messages)]
  OBVIOUS
<1>4. d \in Turns
  BY <1>0, <1>1, <1>2, <1>3 DEF Turns
<1>5. /\ d.says = e.says /\ d.context = e.context /\ d.given = e.given
      /\ d.heard = Len(messages) /\ d.history = h
  BY <1>0, <1>3 DEF Turns
<1>6. Walks(t, "route", d)
  BY <1>0, <1>2, <1>3 DEF Talk!ReadHistory, Talk!Goto, Walks
<1>7. at[t] = "history" /\ Still
  BY DEF Talk!ReadHistory, Talk!stored, Still
<1>8. calm' \in BOOLEAN /\ (calm' => calm /\ h = Recitation)
  BY <1>2
<1> QED
  BY <1>0, <1>4, <1>5, <1>6, <1>7, <1>8 DEF Hears

LEMMA RouteMoves ==
  ASSUME TurnsTyped, Spoken, NEW t \in Turn, Talk!Route(t)
  PROVE  Routes(t) \/ Leaves(t)
<1>0. at[t] = "route" /\ Still /\ calm' = calm
  BY DEF Talk!Route, Talk!stored, Still
<1>1. PICK e \in Turns : e = turn[t]
  BY DEF TurnsTyped
<1>2. PICK m \in Message : m = e.says
  BY <1>0, <1>1 DEF Spoken
<1>3. CASE Talk!Unparsable(m)
  <2>1. Talk!End(t, FALSE)
    BY <1>1, <1>2, <1>3 DEF Talk!Route
  <2> QED
    BY <1>0, <2>1, EndLeaves DEF Leaves
<1>4. CASE ~Talk!Unparsable(m)
  <2>1. PICK c \in Talk!Command : c = Talk!CommandOf(m, e.context)
    BY CommandIs
  <2>2. PICK a \in Talk!Thing \cup {None} : a = Talk!TargetOf(m, e.context)
    <3>1. e.context \in [Talk!Type -> Talk!Thing \cup {None}] /\ m.names \in Talk!Thing \cup {None}
      BY <1>1, TalkConstants DEF Turns
    <3> QED
      BY <3>1 DEF Talk!TargetOf, Talk!Type
  <2>3. PICK d : d = [e EXCEPT !.command = c, !.about = a]
    OBVIOUS
  <2>4. d \in Turns
    BY <1>1, <2>3 DEF Turns
  <2>5. d.command = c /\ d.given = e.given
    BY <1>1, <2>3 DEF Turns
  <2>6. Keeps(t, d)
    BY <1>1, <2>3 DEF Turns, Keeps
  <2>7. Walks(t, "execute", d)
    BY <1>1, <1>2, <1>4, <2>1, <2>2, <2>3 DEF Talk!Route, Talk!Goto, Walks
  <2> QED
    BY <1>0, <1>1, <1>2, <2>1, <2>4, <2>5, <2>6, <2>7 DEF Routes
<1> QED
  BY <1>3, <1>4

LEMMA StoreMoves ==
  ASSUME TurnsTyped, StoredTyped, NEW t \in Turn
  PROVE  /\ Talk!LookUp(t) => Opens(t)
         /\ Talk!Create(t) => Opens(t) \/ Leaves(t)
         /\ Talk!AppendQuestion(t) \/ Talk!AppendAnswer(t) => Tells(t)
         /\ Talk!AddReference(t) => Refers(t)
         /\ Talk!Return(t) \/ Talk!Swallow(t) => Leaves(t)
<1>1. ASSUME Talk!LookUp(t)
      PROVE  Opens(t)
  <2>1. PICK p \in {"create", "question"} : p = IF exists THEN "question" ELSE "create"
    OBVIOUS
  <2>2. /\ at[t] = "conversation" /\ at' = [at EXCEPT ![t] = p]
        /\ turn' = turn /\ UNCHANGED <<exists, messages, references, calm>>
    BY <1>1, <2>1 DEF Talk!LookUp, Talk!Goto, Talk!stored
  <2> QED
    BY <2>1, <2>2 DEF Opens, StoredTyped
<1>2. ASSUME Talk!Create(t)
      PROVE  Opens(t) \/ Leaves(t)
  <2>1. at[t] = "create" /\ UNCHANGED <<messages, references, calm>>
    BY <1>2 DEF Talk!Create
  <2>2. CASE exists' = TRUE /\ Talk!Goto(t, "question") /\ UNCHANGED turn
    BY <2>1, <2>2 DEF Talk!Goto, Opens
  <2>3. CASE UNCHANGED exists /\ Talk!End(t, FALSE)
    BY <2>1, <2>3, EndLeaves DEF Leaves, Still
  <2> QED
    BY <1>2, <2>2, <2>3 DEF Talk!Create
<1>3. ASSUME Talk!AppendQuestion(t)
      PROVE  Tells(t)
  BY <1>3 DEF Talk!AppendQuestion, Talk!Says, Talk!Goto, Tells, Says
<1>4. ASSUME Talk!AppendAnswer(t)
      PROVE  Tells(t)
  BY <1>4 DEF Talk!AppendAnswer, Talk!Says, Talk!Goto, Tells, Says
<1>5. ASSUME Talk!AddReference(t)
      PROVE  Refers(t)
  <2>1. PICK e \in Turns : e = turn[t]
    BY DEF TurnsTyped
  <2>2. PICK k \in Talk!Due(e.leaves, e.given) :
          /\ \A j \in Talk!Due(e.leaves, e.given) : k <= j
          /\ references' = Append(references, e.leaves[k])
          /\ turn' = [turn EXCEPT ![t].given = k]
    BY <1>5, <2>1 DEF Talk!AddReference
  <2>3. k \in Nat
    <3>1. e.given \in Nat /\ Len(e.leaves) \in Nat
      BY <2>1 DEF Turns
    <3> QED
      BY <2>2, <3>1 DEF Talk!Due
  <2>4. PICK d : d = [e EXCEPT !.given = k]
    OBVIOUS
  <2>5. d \in Turns
    BY <2>1, <2>3, <2>4 DEF Turns
  <2>6. d.given = k /\ d.about = e.about /\ d.leaves = e.leaves
    BY <2>1, <2>4 DEF Turns
  <2>7. Keeps(t, d)
    BY <2>1, <2>4 DEF Turns, Keeps
  <2>8. turn' = [turn EXCEPT ![t] = d]
    BY <2>1, <2>2, <2>4 DEF TurnsTyped
  <2>9. at[t] = "references" /\ UNCHANGED <<exists, messages, at, calm>>
    BY <1>5 DEF Talk!AddReference
  <2> QED
    BY <2>1, <2>2, <2>5, <2>6, <2>7, <2>8, <2>9 DEF Refers
<1>6. ASSUME Talk!Return(t)
      PROVE  Leaves(t)
  BY <1>6, EndLeaves DEF Talk!Return, Talk!stored, Leaves, Still
<1>7. ASSUME Talk!Swallow(t)
      PROVE  Leaves(t)
  <2>1. PICK d \in Turns : Walks(t, "over", d) /\ Forgotten(d) /\ d.failed
    BY <1>7, EndLeaves DEF Talk!Swallow
  <2> QED
    BY <1>7, <2>1 DEF Talk!Swallow, Talk!stored, Leaves, Still
<1> QED
  BY <1>1, <1>2, <1>3, <1>4, <1>5, <1>6, <1>7

LEMMA RespondMoves ==
  ASSUME TurnsTyped, StoredTyped, WorldTyped, Spoken, NEW t \in Turn, Talk!Respond(t)
  PROVE  Moved(t)
BY RecallMoves, HistoryMoves, RouteMoves, CommandSteps, StoreMoves DEF Talk!Respond, Moved

LEMMA TalkNext ==
  ASSUME TurnsTyped, StoredTyped, WorldTyped, Spoken, [Talk!Next]_(Talk!vars)
  PROVE  (\E t \in Turn : Moved(t)) \/ Rests
<1>1. CASE UNCHANGED Talk!vars
  BY <1>1 DEF Talk!vars, Talk!stored, Rests, Still
<1>2. ASSUME NEW i \in Investigation, Talk!Settle(i)
      PROVE  Rests
  BY <1>2 DEF Talk!Settle, Talk!stored, Rests, Still
<1> QED
  BY <1>1, <1>2, RespondMoves DEF Talk!Next

-----------------------------------------------------------------------------
(* The invariant.                                                          *)
Storing == {"conversation", "create", "question", "answer", "references"}
Executing ==
    \A t \in Turn : at[t] = "execute" =>
       turn[t].command = Talk!CommandOf(turn[t].says, turn[t].context)
Answering ==
    \A t \in Turn :
       /\ at[t] \in Storing => /\ turn[t].about \in Investigation \cup {None}
                               /\ turn[t].leaves \in Leaving(turn[t].about)
       /\ at[t] # "references" => turn[t].given = 0
Existing ==
    /\ ~exists => messages = <<>>
    /\ \A t \in Turn : at[t] \in {"question", "answer", "references"} => exists

TalkTyped == WorldTyped /\ StoredTyped /\ TurnsTyped
Phased == Spoken /\ Executing /\ Answering /\ Existing

LEMMA WalksAre ==
  ASSUME TurnsTyped, NEW t \in Turn, NEW p \in Places, NEW d \in Turns, Walks(t, p, d)
  PROVE  /\ at' \in [Turn -> Places] /\ turn' \in [Turn -> Turns]
         /\ at'[t] = p /\ turn'[t] = d
         /\ \A u \in Turn \ {t} : at'[u] = at[u] /\ turn'[u] = turn[u]
BY DEF TurnsTyped, Walks

\* A step of t leaves the others where they are.
LEMMA Others ==
  ASSUME TurnsTyped, NEW t \in Turn, Moved(t)
  PROVE  /\ at' \in [Turn -> Places] /\ turn' \in [Turn -> Turns] /\ calm' \in BOOLEAN
         /\ \A u \in Turn \ {t} : at'[u] = at[u] /\ turn'[u] = turn[u]
<1>0. at \in [Turn -> Places] /\ turn \in [Turn -> Turns] /\ calm \in BOOLEAN
  BY DEF TurnsTyped
<1>1. CASE Recalls(t)
  BY <1>1, WalksAre DEF Recalls, Places
<1>2. CASE Hears(t)
  BY <1>2, WalksAre DEF Hears, Places
<1>3. CASE Routes(t)
  BY <1>0, <1>3, WalksAre DEF Routes, Places
<1>4. CASE Replies(t)
  BY <1>0, <1>4, WalksAre DEF Replies, Places
<1>5. CASE Opens(t)
  BY <1>0, <1>5 DEF Opens, Places
<1>6. CASE Tells(t)
  BY <1>0, <1>6 DEF Tells, Places
<1>7. CASE Refers(t)
  BY <1>0, <1>7 DEF Refers
<1>8. CASE Leaves(t)
  BY <1>0, <1>8, WalksAre DEF Leaves, Places
<1> QED
  BY <1>1, <1>2, <1>3, <1>4, <1>5, <1>6, <1>7, <1>8 DEF Moved

LEMMA StoredStep ==
  ASSUME TalkTyped, Phased, NEW t \in Turn, Moved(t)
  PROVE  StoredTyped'
<1>0. /\ exists \in BOOLEAN /\ messages \in Seq(Talk!Row)
      /\ references \in Seq(Talk!Type \X Talk!Thing)
  BY DEF TalkTyped, StoredTyped
<1>1. CASE Tells(t)
  <2>1. PICK role \in {"user", "assistant"} :
          /\ at[t] = IF role = "user" THEN "question" ELSE "answer"
          /\ Says(t, role, IF role = "user" THEN None ELSE turn[t].about)
    BY <1>1 DEF Tells
  <2>2. turn[t].about \in Investigation \cup {None}
    BY <2>1 DEF Phased, Answering, Storing
  <2>3. PICK r \in Talk!Row :
          r = [turn |-> t, role |-> role, about |-> IF role = "user" THEN None ELSE turn[t].about]
    BY <2>1, <2>2 DEF Talk!Row
  <2>4. messages' = Append(messages, r)
    BY <2>1, <2>3 DEF Says
  <2>5. messages' \in Seq(Talk!Row)
    BY <1>0, <2>4
  <2> QED
    BY <1>0, <1>1, <2>5 DEF Tells, StoredTyped
<1>2. CASE Refers(t)
  <2>1. PICK e \in Turns : e = turn[t]
    BY DEF TalkTyped, TurnsTyped
  <2>2. PICK k \in Talk!Due(e.leaves, e.given) : references' = Append(references, e.leaves[k])
    BY <1>2, <2>1 DEF Refers
  <2>3. e.given \in Nat /\ e.leaves \in Seq(Given)
    BY <2>1 DEF Turns
  <2>4. k \in 1..Len(e.leaves) /\ e.leaves[k][2] # None
    BY <2>2, <2>3 DEF Talk!Due
  <2>5. e.leaves[k] \in Given
    BY <2>3, <2>4
  <2>6. PICK r \in Talk!Type \X Talk!Thing : r = e.leaves[k]
    BY <2>4, <2>5 DEF Given
  <2>7. references' \in Seq(Talk!Type \X Talk!Thing)
    BY <1>0, <2>2, <2>6
  <2> QED
    BY <1>0, <1>2, <2>7 DEF Refers, StoredTyped
<1>3. CASE Opens(t)
  BY <1>0, <1>3 DEF Opens, StoredTyped
<1>4. CASE Still
  BY <1>0, <1>4 DEF Still, StoredTyped
<1> QED
  BY <1>1, <1>2, <1>3, <1>4 DEF Moved, Recalls, Hears, Routes, Replies, Leaves

LEMMA PhasedStep ==
  ASSUME TalkTyped, Phased, NEW t \in Turn, Moved(t)
  PROVE  Phased'
<1>0. TurnsTyped /\ StoredTyped
  BY DEF TalkTyped
<1>1. \A u \in Turn \ {t} : at'[u] = at[u] /\ turn'[u] = turn[u]
  BY <1>0, Others
<1>2. ASSUME at'[t] \in {"history", "route", "execute"} => turn'[t].says \in Message,
             at'[t] = "execute" => turn'[t].command = Talk!CommandOf(turn'[t].says, turn'[t].context),
             at'[t] \in Storing => /\ turn'[t].about \in Investigation \cup {None}
                                   /\ turn'[t].leaves \in Leaving(turn'[t].about),
             at'[t] # "references" => turn'[t].given = 0,
             at'[t] \in {"question", "answer", "references"} => exists',
             exists => exists', ~exists' => messages' = <<>>
      PROVE  Phased'
  <2>1. \A u \in Turn \ {t} :
          /\ at[u] \in {"history", "route", "execute"} => turn[u].says \in Message
          /\ at[u] = "execute" => turn[u].command = Talk!CommandOf(turn[u].says, turn[u].context)
          /\ at[u] \in Storing => turn[u].about \in Investigation \cup {None} /\ turn[u].leaves \in Leaving(turn[u].about)
          /\ at[u] # "references" => turn[u].given = 0
          /\ at[u] \in {"question", "answer", "references"} => exists
    BY DEF Phased, Spoken, Executing, Answering, Existing
  <2>2. Spoken'
    BY <1>1, <1>2, <2>1 DEF Spoken
  <2>3. Executing'
    BY <1>1, <1>2, <2>1 DEF Executing
  <2>4. Answering'
    <3>1. ASSUME NEW u \in Turn
          PROVE  /\ at'[u] \in Storing => /\ turn'[u].about \in Investigation \cup {None}
                                         /\ turn'[u].leaves \in Leaving(turn'[u].about)
                 /\ at'[u] # "references" => turn'[u].given = 0
      <4>1. CASE u = t
        BY <1>2, <4>1
      <4>2. CASE u # t
        BY <1>1, <2>1, <4>2
      <4> QED
        BY <4>1, <4>2
    <3> QED
      BY <3>1 DEF Answering
  <2>5. Existing'
    BY <1>1, <1>2, <2>1 DEF Existing
  <2> QED
    BY <2>2, <2>3, <2>4, <2>5 DEF Phased
<1>3. /\ at[t] \in {"history", "route", "execute"} => turn[t].says \in Message
      /\ at[t] \in Storing => turn[t].about \in Investigation \cup {None} /\ turn[t].leaves \in Leaving(turn[t].about)
      /\ at[t] # "references" => turn[t].given = 0
      /\ at[t] \in {"question", "answer", "references"} => exists
      /\ ~exists => messages = <<>>
  BY DEF Phased, Spoken, Answering, Existing
<1>4. CASE Recalls(t)
  BY <1>0, <1>2, <1>3, <1>4, WalksAre DEF Recalls, Still, Places, Storing
<1>5. CASE Hears(t)
  BY <1>0, <1>2, <1>3, <1>5, WalksAre DEF Hears, Still, Places, Storing
<1>6. CASE Routes(t)
  BY <1>0, <1>2, <1>3, <1>6, WalksAre DEF Routes, Keeps, Still, Places, Storing
<1>7. CASE Replies(t)
  BY <1>0, <1>2, <1>3, <1>7, WalksAre DEF Replies, Still, Places, Storing
<1>8. CASE Opens(t)
  <2>1. PICK p \in {"create", "question"} :
          at' = [at EXCEPT ![t] = p] /\ turn' = turn /\ at[t] \in {"conversation", "create"}
          /\ messages' = messages /\ (exists => exists') /\ (p = "question" => exists')
    BY <1>8 DEF Opens
  <2>2. at'[t] = p
    BY <1>0, <2>1 DEF TurnsTyped
  <2> QED
    BY <1>2, <1>3, <2>1, <2>2 DEF Storing
<1>9. CASE Tells(t)
  <2>1. PICK role \in {"user", "assistant"} :
          /\ at[t] = IF role = "user" THEN "question" ELSE "answer"
          /\ at' = [at EXCEPT ![t] = IF role = "user" THEN "answer" ELSE "references"]
          /\ turn' = turn /\ exists' = exists
    BY <1>9 DEF Tells
  <2>2. at'[t] = IF role = "user" THEN "answer" ELSE "references"
    BY <1>0, <2>1 DEF TurnsTyped
  <2> QED
    BY <1>2, <1>3, <2>1, <2>2 DEF Storing
<1>10. CASE Refers(t)
  <2>1. PICK d \in Turns :
          /\ at[t] = "references" /\ exists' = exists /\ messages' = messages /\ at' = at
          /\ turn' = [turn EXCEPT ![t] = d] /\ d.about = turn[t].about /\ d.leaves = turn[t].leaves
    BY <1>10 DEF Refers
  <2>2. turn'[t] = d
    BY <1>0, <2>1 DEF TurnsTyped
  <2> QED
    BY <1>2, <1>3, <2>1, <2>2 DEF Storing
<1>11. CASE Leaves(t)
  BY <1>0, <1>2, <1>3, <1>11, WalksAre DEF Leaves, Forgotten, Still, Places, Storing
<1> QED
  BY <1>4, <1>5, <1>6, <1>7, <1>8, <1>9, <1>10, <1>11 DEF Moved

\* What is stored of a turn, by where it is.
Untold(t) == Talk!Told(t, "user") = {} /\ Talk!Told(t, "assistant") = {}
Paired(t) ==
    \E q, a \in DOMAIN messages :
       q < a /\ Talk!Told(t, "user") = {q} /\ Talk!Told(t, "assistant") = {a}
ToldBy(t) ==
    /\ at[t] \in {"new", "history", "route", "execute", "conversation", "create", "question"} => Untold(t)
    /\ at[t] = "answer" =>
         \E q \in DOMAIN messages : Talk!Told(t, "user") = {q} /\ Talk!Told(t, "assistant") = {}
    /\ at[t] = "references" => Paired(t)
    /\ at[t] = "over" /\ ~turn[t].failed => Untold(t) \/ Paired(t)
Exchanged == \A t \in Turn : ToldBy(t)

LEMMA ToldAppends ==
  ASSUME StoredTyped, NEW r, messages' = Append(messages, r)
  PROVE  /\ DOMAIN messages = 1..Len(messages) /\ DOMAIN messages' = 1..(Len(messages) + 1)
         /\ Len(messages) \in Nat
         /\ \A u, x : Talk!Told(u, x)' =
              Talk!Told(u, x) \cup (IF r.turn = u /\ r.role = x THEN {Len(messages) + 1} ELSE {})
<1>1. messages \in Seq(Talk!Row) /\ Len(messages) \in Nat
  BY DEF StoredTyped
<1>2. PICK n \in Nat : n = Len(messages)
  BY <1>1
<1>3. /\ DOMAIN messages = 1..n /\ DOMAIN messages' = 1..(n + 1)
      /\ \A k \in 1..n : messages'[k] = messages[k]
      /\ messages'[n + 1] = r
  BY <1>1, <1>2
<1>4. 1..(n + 1) = 1..n \cup {n + 1} /\ n + 1 \notin 1..n
  BY <1>2
<1>5. ASSUME NEW u, NEW x
      PROVE  Talk!Told(u, x)' =
              Talk!Told(u, x) \cup (IF r.turn = u /\ r.role = x THEN {n + 1} ELSE {})
  BY <1>3, <1>4 DEF Talk!Told
<1> QED
  BY <1>2, <1>3, <1>5

LEMMA ExchangedStep ==
  ASSUME TalkTyped, Phased, Exchanged, NEW t \in Turn, Moved(t)
  PROVE  Exchanged'
<1>0. TurnsTyped /\ StoredTyped
  BY DEF TalkTyped
<1>1. \A u \in Turn \ {t} : at'[u] = at[u] /\ turn'[u] = turn[u]
  BY <1>0, Others
<1>2. ASSUME messages' = messages, ToldBy(t)'
      PROVE  Exchanged'
  <2>1. \A u \in Turn \ {t} : ToldBy(u)'
    BY <1>1, <1>2 DEF Exchanged, ToldBy, Untold, Paired, Talk!Told
  <2> QED
    BY <1>2, <2>1 DEF Exchanged
<1>3. CASE Tells(t)
  <2>1. PICK role \in {"user", "assistant"} :
          /\ at[t] = IF role = "user" THEN "question" ELSE "answer"
          /\ at' = [at EXCEPT ![t] = IF role = "user" THEN "answer" ELSE "references"]
          /\ turn' = turn /\ Says(t, role, IF role = "user" THEN None ELSE turn[t].about)
    BY <1>3 DEF Tells
  <2>2. PICK r : /\ r = [turn |-> t, role |-> role, about |-> IF role = "user" THEN None ELSE turn[t].about]
                 /\ messages' = Append(messages, r)
    BY <2>1 DEF Says
  <2>3. r.turn = t /\ r.role = role
    BY <2>2
  <2>4. PICK n \in Nat : n = Len(messages)
    BY <1>0 DEF StoredTyped
  <2>5. /\ DOMAIN messages = 1..n /\ DOMAIN messages' = 1..(n + 1)
        /\ \A u, x : Talk!Told(u, x)' = Talk!Told(u, x) \cup (IF t = u /\ role = x THEN {n + 1} ELSE {})
    BY <1>0, <2>2, <2>3, <2>4, ToldAppends
  <2>6. ASSUME NEW u \in Turn \ {t}
        PROVE  ToldBy(u)'
    <3>1. Talk!Told(u, "user")' = Talk!Told(u, "user") /\ Talk!Told(u, "assistant")' = Talk!Told(u, "assistant")
      BY <2>5, <2>6
    <3>2. DOMAIN messages \subseteq DOMAIN messages'
      BY <2>4, <2>5
    <3>3. ToldBy(u)
      BY <2>6 DEF Exchanged
    <3> QED
      BY <1>1, <2>6, <3>1, <3>2, <3>3 DEF ToldBy, Untold, Paired
  <2>7. at'[t] = IF role = "user" THEN "answer" ELSE "references"
    BY <1>0, <2>1 DEF TurnsTyped
  <2>8. CASE role = "user"
    <3>1. Untold(t) /\ at'[t] = "answer"
      BY <2>1, <2>7, <2>8 DEF Exchanged, ToldBy
    <3>2. Talk!Told(t, "user")' = {n + 1} /\ Talk!Told(t, "assistant")' = {}
      BY <2>5, <2>8, <3>1 DEF Untold
    <3>3. n + 1 \in DOMAIN messages'
      BY <2>4, <2>5
    <3> QED
      BY <2>6, <3>1, <3>2, <3>3 DEF Exchanged, ToldBy
  <2>9. CASE role = "assistant"
    <3>1. at[t] = "answer" /\ at'[t] = "references"
      BY <2>1, <2>7, <2>9
    <3>2. PICK q \in 1..n : Talk!Told(t, "user") = {q} /\ Talk!Told(t, "assistant") = {}
      BY <2>5, <3>1 DEF Exchanged, ToldBy
    <3>3. Talk!Told(t, "user")' = {q} /\ Talk!Told(t, "assistant")' = {n + 1}
      BY <2>5, <2>9, <3>2
    <3>4. q \in DOMAIN messages' /\ n + 1 \in DOMAIN messages' /\ q < n + 1
      BY <2>4, <2>5, <3>2
    <3>5. Paired(t)'
      BY <3>3, <3>4 DEF Paired
    <3> QED
      BY <2>6, <3>1, <3>5 DEF Exchanged, ToldBy
  <2> QED
    BY <2>8, <2>9
<1>4. CASE Recalls(t)
  <2>1. at[t] = "new" /\ at'[t] = "history" /\ messages' = messages
    BY <1>0, <1>4, WalksAre DEF Recalls, Still, Places
  <2> QED
    BY <1>2, <2>1 DEF Exchanged, ToldBy, Untold, Talk!Told
<1>5. CASE Hears(t)
  <2>1. at[t] = "history" /\ at'[t] = "route" /\ messages' = messages
    BY <1>0, <1>5, WalksAre DEF Hears, Still, Places
  <2> QED
    BY <1>2, <2>1 DEF Exchanged, ToldBy, Untold, Talk!Told
<1>6. CASE Routes(t)
  <2>1. at[t] = "route" /\ at'[t] = "execute" /\ messages' = messages
    BY <1>0, <1>6, WalksAre DEF Routes, Still, Places
  <2> QED
    BY <1>2, <2>1 DEF Exchanged, ToldBy, Untold, Talk!Told
<1>7. CASE Replies(t)
  <2>1. at[t] = "execute" /\ at'[t] = "conversation" /\ messages' = messages
    BY <1>0, <1>7, WalksAre DEF Replies, Still, Places
  <2> QED
    BY <1>2, <2>1 DEF Exchanged, ToldBy, Untold, Talk!Told
<1>8. CASE Opens(t)
  <2>1. at[t] \in {"conversation", "create"} /\ at'[t] \in {"create", "question"} /\ messages' = messages
    BY <1>0, <1>8 DEF Opens, TurnsTyped
  <2> QED
    BY <1>2, <2>1 DEF Exchanged, ToldBy, Untold, Talk!Told
<1>9. CASE Refers(t)
  <2>1. at[t] = "references" /\ at' = at /\ messages' = messages
    BY <1>9 DEF Refers
  <2> QED
    BY <1>2, <2>1 DEF Exchanged, ToldBy, Paired, Talk!Told
<1>10. CASE Leaves(t)
  <2>1. PICK d \in Turns :
          /\ Still /\ Walks(t, "over", d)
          /\ at[t] \in {"route", "execute", "create", "references"} \/ d.failed
    BY <1>10 DEF Leaves
  <2>2. at'[t] = "over" /\ turn'[t] = d /\ messages' = messages
    BY <1>0, <2>1, WalksAre DEF Still, Places
  <2>3. d.failed \/ Untold(t) \/ Paired(t)
    BY <2>1 DEF Exchanged, ToldBy
  <2> QED
    BY <1>2, <2>2, <2>3 DEF ToldBy, Untold, Paired, Talk!Told
<1> QED
  BY <1>3, <1>4, <1>5, <1>6, <1>7, <1>8, <1>9, <1>10 DEF Moved

\* What a turn heard is still the beginning of the conversation.
Listened ==
    \A t \in Turn : at[t] \notin {"new", "history", "over"} =>
       /\ turn[t].heard <= Len(messages)
       /\ calm /\ turn[t].heard <= ListLimit => Talk!HistoryIsOf(t)

LEMMA Beginnings ==
  ASSUME StoredTyped, NEW r, messages' = messages \/ messages' = Append(messages, r),
         NEW n \in Nat, n <= Len(messages)
  PROVE  /\ n <= Len(messages')
         /\ SubSeq(messages', 1, n) = SubSeq(messages, 1, n)
         /\ \A k \in 1..n : messages'[k] = messages[k]
<1>0. messages \in Seq(Talk!Row) /\ Len(messages) \in Nat
  BY DEF StoredTyped
<1>1. CASE messages' = messages
  BY <1>0, <1>1
<1>2. CASE messages' = Append(messages, r)
  <2>1. PICK m \in Nat : m = Len(messages)
    BY <1>0
  <2>2. Len(messages') = m + 1 /\ \A k \in 1..m : messages'[k] = messages[k]
    BY <1>0, <1>2, <2>1
  <2>3. \A k \in 1..n : k \in 1..m /\ messages'[k] = messages[k]
    BY <2>1, <2>2
  <2>4. /\ SubSeq(messages, 1, n) = [k \in 1..n |-> messages[k]]
        /\ SubSeq(messages', 1, n) = [k \in 1..n |-> messages'[k]]
    OBVIOUS
  <2>5. SubSeq(messages', 1, n) = SubSeq(messages, 1, n)
    BY <2>3, <2>4
  <2> QED
    BY <2>1, <2>2, <2>3, <2>5
<1> QED
  BY <1>1, <1>2

\* A step stores at most one message.
LEMMA OneMessage ==
  ASSUME NEW t \in Turn, Moved(t)
  PROVE  \E r : messages' = messages \/ messages' = Append(messages, r)
BY DEF Moved, Recalls, Hears, Routes, Replies, Opens, Tells, Refers, Leaves, Still, Says

LEMMA ListenedStep ==
  ASSUME TalkTyped, Phased, Listened, NEW t \in Turn, Moved(t)
  PROVE  Listened'
<1>0. TurnsTyped /\ StoredTyped
  BY DEF TalkTyped
<1>1. \A u \in Turn \ {t} : at'[u] = at[u] /\ turn'[u] = turn[u]
  BY <1>0, Others
<1>2. PICK r : messages' = messages \/ messages' = Append(messages, r)
  BY OneMessage
<1>3. ASSUME NEW u \in Turn, at[u] \notin {"new", "history", "over"},
             turn'[u].heard = turn[u].heard, turn'[u].history = turn[u].history, calm' => calm
      PROVE  /\ turn'[u].heard <= Len(messages')
             /\ calm' /\ turn'[u].heard <= ListLimit => Talk!HistoryIsOf(u)'
  <2>1. PICK n \in Nat : n = turn[u].heard
    BY <1>0 DEF TurnsTyped, Turns
  <2>2. n <= Len(messages)
    BY <1>3, <2>1 DEF Listened
  <2>3. n <= Len(messages') /\ SubSeq(messages', 1, n) = SubSeq(messages, 1, n)
    BY <1>0, <1>2, <2>1, <2>2, Beginnings
  <2>4. calm /\ n <= ListLimit => turn[u].history = Talk!LastOf(SubSeq(messages, 1, n), Recent)
    BY <1>3, <2>1 DEF Listened, Talk!HistoryIsOf
  <2> QED
    BY <1>3, <2>1, <2>3, <2>4 DEF Talk!HistoryIsOf
<1>4. calm' => calm
  BY DEF Moved, Recalls, Hears, Routes, Replies, Opens, Tells, Refers, Leaves
<1>5. CASE Hears(t)
  <2>1. PICK d \in Turns :
          /\ at[t] = "history" /\ Still /\ Walks(t, "route", d) /\ d.heard = Len(messages)
          /\ calm' => d.history = Recitation
    BY <1>5 DEF Hears
  <2>2. turn'[t] = d /\ at'[t] = "route" /\ messages' = messages
    BY <1>0, <2>1, WalksAre DEF Still, Places
  <2>3. PICK n \in Nat : n = Len(messages)
    BY <1>0 DEF StoredTyped
  <2>4. ASSUME calm', n <= ListLimit
        PROVE  turn'[t].history = Talk!LastOf(SubSeq(messages', 1, n), Recent)
    <3>1. d.history = Recitation
      BY <2>1, <2>4
    <3>2. CASE exists
      <4>1. Talk!Least(Len(messages), ListLimit) = n
        <5>1. ListLimit \in Nat
          BY TalkConstants
        <5> QED
          BY <2>3, <2>4, <5>1 DEF Talk!Least
      <4> QED
        BY <2>2, <3>1, <3>2, <4>1 DEF Recitation, Talk!Recited
    <3>3. CASE ~exists
      <4>1. messages = <<>> /\ n = 0
        BY <2>3, <3>3 DEF Phased, Existing
      <4>2. SubSeq(messages, 1, n) = <<>>
        BY <4>1
      <4>3. Talk!LastOf(<<>>, Recent) = <<>>
        <5>1. Recent \in Nat \ {0}
          BY TalkConstants
        <5> QED
          BY <5>1 DEF Talk!LastOf
      <4> QED
        BY <2>2, <3>1, <3>3, <4>2, <4>3 DEF Recitation
    <3> QED
      BY <3>2, <3>3
  <2>5. /\ turn'[t].heard <= Len(messages')
        /\ calm' /\ turn'[t].heard <= ListLimit => Talk!HistoryIsOf(t)'
    BY <2>1, <2>2, <2>3, <2>4 DEF Talk!HistoryIsOf
  <2> QED
    BY <1>1, <1>3, <1>4, <2>5 DEF Listened
<1>6. CASE ~Hears(t)
  <2>1. at'[t] \in {"new", "history", "over"} \/ /\ at[t] \notin {"new", "history", "over"}
                                                 /\ turn'[t].heard = turn[t].heard
                                                 /\ turn'[t].history = turn[t].history
    <3>1. CASE Recalls(t)
      BY <1>0, <3>1, WalksAre DEF Recalls, Places
    <3>2. CASE Routes(t)
      BY <1>0, <3>2, WalksAre DEF Routes, Keeps, Places
    <3>3. CASE Replies(t)
      BY <1>0, <3>3, WalksAre DEF Replies, Keeps, Places
    <3>4. CASE Opens(t)
      BY <3>4 DEF Opens
    <3>5. CASE Tells(t)
      BY <3>5 DEF Tells
    <3>6. CASE Refers(t)
      <4>1. PICK d \in Turns : at[t] = "references" /\ turn' = [turn EXCEPT ![t] = d] /\ Keeps(t, d)
        BY <3>6 DEF Refers
      <4>2. turn'[t] = d
        BY <1>0, <4>1 DEF TurnsTyped
      <4> QED
        BY <4>1, <4>2 DEF Keeps
    <3>7. CASE Leaves(t)
      BY <1>0, <3>7, WalksAre DEF Leaves, Places
    <3> QED
      BY <1>6, <3>1, <3>2, <3>3, <3>4, <3>5, <3>6, <3>7 DEF Moved
  <2>2. ASSUME NEW u \in Turn, at'[u] \notin {"new", "history", "over"}
        PROVE  /\ turn'[u].heard <= Len(messages')
               /\ calm' /\ turn'[u].heard <= ListLimit => Talk!HistoryIsOf(u)'
    BY <1>1, <1>3, <1>4, <2>1, <2>2
  <2> QED
    BY <2>2 DEF Listened
<1> QED
  BY <1>5, <1>6

-----------------------------------------------------------------------------
(* What a follow-up is about.                                              *)
Busy(t) == at[t] \notin {"new", "over"}
Solo == calm => \A t, u \in Turn : Busy(t) /\ Busy(u) => t = u

\* The investigation of the last answer that had one among the first n messages, and of
\* the last reference; None if there is none.
LastSaid(n, v) ==
    IF v = None THEN \A k \in 1..n : messages[k].about = None
    ELSE \E k \in 1..n : messages[k].about = v /\ \A j \in k + 1..n : messages[j].about = None
LastKept(v) ==
    IF v = None THEN \A k \in 1..Len(references) : references[k][1] # "investigation"
    ELSE LastOfType(references, "investigation", v)

\* A turn has still to store the reference to its investigation.
Pending(t) ==
    /\ at[t] = "references"
    /\ \E k \in Talk!Due(turn[t].leaves, turn[t].given) : turn[t].leaves[k][1] = "investigation"

Agrees(v) ==
    /\ LastSaid(Len(messages), v)
    /\ \A t \in Turn : at[t] = "references" /\ turn[t].about # None => turn[t].about = v
    /\ LastKept(v) \/ \E t \in Turn : Pending(t)
Agreeing == calm => \E v \in Investigation \cup {None} : Agrees(v)

Minds(t) ==
    LET c == turn[t].context["investigation"] IN
    c # None =>
      /\ at[t] = "history" => LastSaid(Len(messages), c)
      /\ at[t] \notin {"new", "history"} => turn[t].heard <= Len(messages) /\ LastSaid(turn[t].heard, c)
Minding == calm => \A t \in Turn : Minds(t)

LEMMA SaidStays ==
  ASSUME StoredTyped, NEW r, messages' = messages \/ messages' = Append(messages, r),
         NEW n \in Nat, n <= Len(messages), NEW v, LastSaid(n, v)
  PROVE  LastSaid(n, v)'
<1>1. \A k \in 1..n : messages'[k] = messages[k]
  BY Beginnings
<1>2. CASE v = None
  BY <1>1, <1>2 DEF LastSaid
<1>3. CASE v # None
  <2>1. PICK k \in 1..n : messages[k].about = v /\ \A j \in k + 1..n : messages[j].about = None
    BY <1>3 DEF LastSaid
  <2>2. \A j \in k + 1..n : j \in 1..n
    OBVIOUS
  <2>3. messages'[k].about = v /\ \A j \in k + 1..n : messages'[j].about = None
    BY <1>1, <2>1, <2>2
  <2> QED
    BY <1>3, <2>3 DEF LastSaid
<1> QED
  BY <1>2, <1>3

LEMMA SaidMore ==
  ASSUME StoredTyped, NEW r, messages' = Append(messages, r), NEW v, LastSaid(Len(messages), v)
  PROVE  /\ r.about = None => LastSaid(Len(messages), v)'
         /\ r.about # None => LastSaid(Len(messages), r.about)'
<1>1. PICK m \in Nat : m = Len(messages)
  BY DEF StoredTyped
<1>2. /\ Len(messages') = m + 1 /\ messages'[m + 1] = r
      /\ \A k \in 1..m : messages'[k] = messages[k]
  BY <1>1 DEF StoredTyped
<1>3. 1..(m + 1) = 1..m \cup {m + 1}
  BY <1>1
<1>4. ASSUME r.about = None, v = None
      PROVE  LastSaid(m + 1, v)'
  BY <1>1, <1>2, <1>3, <1>4 DEF LastSaid
<1>5. ASSUME r.about = None, v # None
      PROVE  LastSaid(m + 1, v)'
  <2>1. PICK k \in 1..m : messages[k].about = v /\ \A j \in k + 1..m : messages[j].about = None
    BY <1>1, <1>5 DEF LastSaid
  <2>2. ASSUME NEW j \in k + 1..(m + 1)
        PROVE  messages'[j].about = None
    <3>1. CASE j = m + 1
      BY <1>2, <1>5, <3>1
    <3>2. CASE j # m + 1
      <4>1. j \in k + 1..m /\ j \in 1..m
        BY <1>1, <3>2
      <4> QED
        BY <1>2, <2>1, <4>1
    <3> QED
      BY <3>1, <3>2
  <2>3. messages'[k].about = v /\ k \in 1..(m + 1)
    BY <1>1, <1>2, <2>1
  <2> QED
    BY <1>5, <2>2, <2>3 DEF LastSaid
<1>6. ASSUME r.about # None
      PROVE  LastSaid(m + 1, r.about)'
  <2>1. \A j \in (m + 1) + 1..(m + 1) : FALSE
    BY <1>1
  <2>2. m + 1 \in 1..(m + 1)
    BY <1>1
  <2> QED
    BY <1>2, <1>6, <2>1, <2>2 DEF LastSaid
<1> QED
  BY <1>2, <1>4, <1>5, <1>6 DEF LastSaid

LEMMA KeptMore ==
  ASSUME StoredTyped, NEW x, references' = Append(references, x)
  PROVE  /\ \A v : x[1] # "investigation" /\ LastKept(v) => LastKept(v)'
         /\ \A v : v # None /\ x = <<"investigation", v>> => LastKept(v)'
<1>1. PICK m \in Nat : m = Len(references)
  BY DEF StoredTyped
<1>2. /\ Len(references') = m + 1 /\ references'[m + 1] = x
      /\ \A k \in 1..m : references'[k] = references[k]
  BY <1>1 DEF StoredTyped
<1>3. 1..(m + 1) = 1..m \cup {m + 1}
  BY <1>1
<1>4. ASSUME NEW v, x[1] # "investigation", LastKept(v), v = None
      PROVE  LastKept(v)'
  BY <1>1, <1>2, <1>3, <1>4 DEF LastKept
<1>5. ASSUME NEW v, x[1] # "investigation", LastKept(v), v # None
      PROVE  LastKept(v)'
  <2>1. PICK k \in 1..m : /\ references[k] = <<"investigation", v>>
                          /\ \A j \in k + 1..m : references[j][1] # "investigation"
    BY <1>1, <1>5 DEF LastKept, LastOfType
  <2>2. ASSUME NEW j \in k + 1..(m + 1)
        PROVE  references'[j][1] # "investigation"
    <3>1. CASE j = m + 1
      BY <1>2, <1>5, <3>1
    <3>2. CASE j # m + 1
      <4>1. j \in k + 1..m /\ j \in 1..m
        BY <1>1, <3>2
      <4> QED
        BY <1>2, <2>1, <4>1
    <3> QED
      BY <3>1, <3>2
  <2>3. references'[k] = <<"investigation", v>> /\ k \in 1..(m + 1)
    BY <1>1, <1>2, <2>1
  <2> QED
    BY <1>2, <1>5, <2>2, <2>3 DEF LastKept, LastOfType
<1>6. ASSUME NEW v, v # None, x = <<"investigation", v>>
      PROVE  LastKept(v)'
  <2>1. m + 1 \in 1..(m + 1) /\ \A j \in (m + 1) + 1..(m + 1) : FALSE
    BY <1>1
  <2>2. references'[m + 1] = <<"investigation", v>>
    BY <1>2, <1>6
  <2>3. \E k \in 1..Len(references') :
          /\ references'[k] = <<"investigation", v>>
          /\ \A j \in k + 1..Len(references') : references'[j][1] # "investigation"
    BY <1>2, <2>1, <2>2
  <2> QED
    BY <1>6, <2>3 DEF LastKept, LastOfType
<1> QED
  BY <1>4, <1>5, <1>6

\* Two that are last are one.
LEMMA LastIsOne ==
  ASSUME StoredTyped, NEW v, NEW w, LastKept(v), w # None, LastOfType(references, "investigation", w)
  PROVE  v = w
<1>1. PICK m \in Nat : m = Len(references)
  BY DEF StoredTyped
<1>2. PICK k \in 1..m : /\ references[k] = <<"investigation", w>>
                        /\ \A j \in k + 1..m : references[j][1] # "investigation"
  BY <1>1 DEF LastOfType
<1>3. v # None
  BY <1>1, <1>2 DEF LastKept
<1>4. PICK i \in 1..m : /\ references[i] = <<"investigation", v>>
                        /\ \A j \in i + 1..m : references[j][1] # "investigation"
  BY <1>1, <1>3 DEF LastKept, LastOfType
<1>5. references[k][1] = "investigation" /\ references[i][1] = "investigation"
  BY <1>2, <1>4
<1>6. ~(k < i) /\ ~(i < k)
  BY <1>1, <1>2, <1>4, <1>5
<1>7. k = i
  BY <1>6
<1>8. <<"investigation", w>> = <<"investigation", v>>
  BY <1>2, <1>4, <1>7
<1>9. <<"investigation", w>>[2] = w /\ <<"investigation", v>>[2] = v
  OBVIOUS
<1> QED
  BY <1>8, <1>9

\* A conversation that is calm was calm, and only a turn that recalls was not busy.
LEMMA CalmWas ==
  ASSUME NEW t \in Turn, Moved(t)
  PROVE  (calm' => calm) /\ (Recalls(t) \/ Busy(t))
BY DEF Moved, Recalls, Hears, Routes, Replies, Opens, Tells, Refers, Leaves, Busy

LEMMA SoloStep ==
  ASSUME TalkTyped, Solo, NEW t \in Turn, Moved(t)
  PROVE  Solo'
<1>1. \A u \in Turn \ {t} : at'[u] = at[u]
  BY Others DEF TalkTyped
<1>2. ASSUME calm', NEW u \in Turn \ {t}, Busy(u)
      PROVE  FALSE
  <2>1. CASE Recalls(t)
    BY <1>2, <2>1 DEF Recalls, Talk!Alone, Busy
  <2>2. CASE Busy(t)
    BY <1>2, <2>2, CalmWas DEF Solo
  <2> QED
    BY <2>1, <2>2, CalmWas
<1> QED
  BY <1>1, <1>2 DEF Solo, Busy

LEMMA AgreesNext ==
  ASSUME NEW t \in Turn, \A u \in Turn \ {t} : at'[u] = at[u] /\ turn'[u] = turn[u],
         NEW v, LastSaid(Len(messages), v)',
         at'[t] = "references" /\ turn'[t].about # None => turn'[t].about = v,
         \A u \in Turn \ {t} : at[u] = "references" /\ turn[u].about # None => turn[u].about = v,
         LastKept(v)' \/ Pending(t)' \/ (\E u \in Turn \ {t} : Pending(u))
  PROVE  Agrees(v)'
<1>1. \A u \in Turn : at'[u] = "references" /\ turn'[u].about # None => turn'[u].about = v
  OBVIOUS
<1>2. ASSUME NEW u \in Turn \ {t}, Pending(u)
      PROVE  Pending(u)'
  BY <1>2 DEF Pending
<1>3. LastKept(v)' \/ \E u \in Turn : Pending(u)'
  BY <1>2
<1> QED
  BY <1>1, <1>3 DEF Agrees

\* What an answer about i leaves begins with everything still to be stored.
LEMMA LeavingIsDue ==
  ASSUME NEW i \in Investigation, NEW rs \in Leaving(i)
  PROVE  \E k \in Talk!Due(rs, 0) : rs[k][1] = "investigation"
<1>1. i # None
  BY TalkConstants DEF Talk!Thing
<1>2. PICK k \in 1..Len(rs) : /\ rs[k] = <<"investigation", i>>
                              /\ \A j \in 1..Len(rs) : j # k => rs[j][1] # "investigation"
  BY <1>1 DEF Leaving
<1>3. Len(rs) \in Nat
  BY DEF Leaving
<1>4. \A j \in 1..k - 1 : j \in 1..Len(rs) /\ j # k
  BY <1>3
<1>5. rs[k][1] = "investigation" /\ rs[k][2] = i
  BY <1>2
<1>6. \A j \in 1..k - 1 : rs[j] # rs[k]
  BY <1>2, <1>4, <1>5
<1>7. k \in 0 + 1..Len(rs)
  BY <1>3
<1> QED
  BY <1>1, <1>5, <1>6, <1>7 DEF Talk!Due

\* The references to investigations among what an answer about i leaves are to i.
LEMMA LeavingIsOf ==
  ASSUME NEW i \in Investigation \cup {None}, NEW rs \in Leaving(i), NEW k \in 1..Len(rs),
         rs[k][1] = "investigation"
  PROVE  i # None /\ rs[k] = <<"investigation", i>>
BY DEF Leaving

LEMMA AgreeingStep ==
  ASSUME TalkTyped, Phased, Solo, Agreeing, NEW t \in Turn, Moved(t)
  PROVE  Agreeing'
<1>0. TurnsTyped /\ StoredTyped
  BY DEF TalkTyped
<1> SUFFICES ASSUME calm'
             PROVE  \E v \in Investigation \cup {None} : Agrees(v)'
  BY DEF Agreeing
<1>1. \A u \in Turn \ {t} : at'[u] = at[u] /\ turn'[u] = turn[u]
  BY <1>0, Others
<1>2. PICK v \in Investigation \cup {None} : Agrees(v)
  BY CalmWas DEF Agreeing
<1>3. /\ LastSaid(Len(messages), v)
      /\ \A u \in Turn : at[u] = "references" /\ turn[u].about # None => turn[u].about = v
      /\ LastKept(v) \/ \E u \in Turn : Pending(u)
  BY <1>2 DEF Agrees
<1>4. ASSUME messages' = messages
      PROVE  LastSaid(Len(messages), v)'
  BY <1>3, <1>4 DEF LastSaid
<1>5. ASSUME references' = references, LastKept(v)
      PROVE  LastKept(v)'
  BY <1>5 DEF LastKept, LastOfType
<1>6. ASSUME messages' = messages, references' = references, at'[t] # "references",
             LastKept(v) \/ at[t] # "references"
      PROVE  Agrees(v)'
  <2>1. ~Pending(t) \/ LastKept(v)
    BY <1>6 DEF Pending
  <2>2. LastKept(v)' \/ \E u \in Turn \ {t} : Pending(u)
    BY <1>3, <1>5, <1>6, <2>1
  <2> QED
    BY <1>1, <1>3, <1>4, <1>6, <2>2, AgreesNext
<1>7. ASSUME Busy(t), NEW u \in Turn \ {t}
      PROVE  ~Busy(u) /\ at[u] # "references" /\ ~Pending(u)
  BY <1>7, CalmWas DEF Solo, Busy, Pending
<1>8. CASE Recalls(t)
  <2>1. messages' = messages /\ references' = references /\ at'[t] = "history" /\ at[t] = "new"
    BY <1>0, <1>8, WalksAre DEF Recalls, Still, Places
  <2> QED
    BY <1>6, <2>1
<1>9. CASE Hears(t)
  <2>1. messages' = messages /\ references' = references /\ at'[t] = "route" /\ at[t] = "history"
    BY <1>0, <1>9, WalksAre DEF Hears, Still, Places
  <2> QED
    BY <1>6, <2>1
<1>10. CASE Routes(t)
  <2>1. messages' = messages /\ references' = references /\ at'[t] = "execute" /\ at[t] = "route"
    BY <1>0, <1>10, WalksAre DEF Routes, Still, Places
  <2> QED
    BY <1>6, <2>1
<1>11. CASE Replies(t)
  <2>1. messages' = messages /\ references' = references /\ at'[t] = "conversation" /\ at[t] = "execute"
    BY <1>0, <1>11, WalksAre DEF Replies, Still, Places
  <2> QED
    BY <1>6, <2>1
<1>12. CASE Opens(t)
  <2>1. /\ messages' = messages /\ references' = references
        /\ at'[t] \in {"create", "question"} /\ at[t] \in {"conversation", "create"}
    BY <1>0, <1>12 DEF Opens, TurnsTyped
  <2> QED
    BY <1>6, <2>1
<1>13. CASE Tells(t)
  <2>1. PICK role \in {"user", "assistant"} :
          /\ at[t] = IF role = "user" THEN "question" ELSE "answer"
          /\ at' = [at EXCEPT ![t] = IF role = "user" THEN "answer" ELSE "references"]
          /\ turn' = turn /\ references' = references
          /\ Says(t, role, IF role = "user" THEN None ELSE turn[t].about)
    BY <1>13 DEF Tells
  <2>2. PICK r : /\ r = [turn |-> t, role |-> role, about |-> IF role = "user" THEN None ELSE turn[t].about]
                 /\ messages' = Append(messages, r)
    BY <2>1 DEF Says
  <2>3. Busy(t) /\ ~Pending(t)
    BY <2>1 DEF Busy, Pending
  <2>4. LastKept(v)'
    BY <1>3, <1>5, <1>7, <2>1, <2>3
  <2>5. at'[t] = IF role = "user" THEN "answer" ELSE "references"
    BY <1>0, <2>1 DEF TurnsTyped
  <2>6. CASE r.about = None
    <3>1. LastSaid(Len(messages), v)'
      BY <1>0, <1>3, <2>2, <2>6, SaidMore
    <3>2. at'[t] = "references" => turn'[t].about = None
      BY <2>1, <2>2, <2>5, <2>6
    <3> QED
      BY <1>1, <1>3, <2>4, <3>1, <3>2, AgreesNext
  <2>7. CASE r.about # None
    <3>1. PICK a : a = turn[t].about
      OBVIOUS
    <3>2. a # None /\ r.about = a /\ at[t] = "answer" /\ at'[t] = "references" /\ turn'[t].about = a
      BY <2>1, <2>2, <2>5, <2>7, <3>1
    <3>3. a \in Investigation /\ turn[t].leaves \in Leaving(a) /\ turn[t].given = 0
      BY <3>1, <3>2 DEF Phased, Answering, Storing
    <3>4. LastSaid(Len(messages), a)'
      BY <1>0, <1>3, <2>2, <3>2, SaidMore
    <3>5. Pending(t)'
      BY <2>1, <3>2, <3>3, LeavingIsDue DEF Pending
    <3>6. \A u \in Turn \ {t} : at[u] # "references"
      BY <1>7, <2>3
    <3>7. Agrees(a)'
      BY <1>1, <3>2, <3>4, <3>5, <3>6, AgreesNext
    <3> QED
      BY <3>3, <3>7
  <2> QED
    BY <2>6, <2>7
<1>14. CASE Refers(t)
  <2>1. PICK e \in Turns : e = turn[t]
    BY <1>0 DEF TurnsTyped
  <2>2. PICK k \in Talk!Due(e.leaves, e.given), d \in Turns :
          /\ at[t] = "references" /\ messages' = messages /\ at' = at
          /\ \A j \in Talk!Due(e.leaves, e.given) : k <= j
          /\ references' = Append(references, e.leaves[k])
          /\ turn' = [turn EXCEPT ![t] = d]
          /\ d.about = e.about /\ d.leaves = e.leaves /\ d.given = k
    BY <1>14, <2>1 DEF Refers
  <2>3. turn'[t] = d /\ at'[t] = "references"
    BY <1>0, <2>2 DEF TurnsTyped
  <2>4. e.about \in Investigation \cup {None} /\ e.leaves \in Leaving(e.about)
    BY <2>1, <2>2 DEF Phased, Answering, Storing
  <2>5. e.given \in Nat /\ Len(e.leaves) \in Nat
    BY <2>1 DEF Turns
  <2>6. k \in 1..Len(e.leaves) /\ k > e.given
    BY <2>2, <2>5 DEF Talk!Due
  <2>7. e.about # None => e.about = v
    BY <1>3, <2>1, <2>2
  <2>8. PICK x : x = e.leaves[k]
    OBVIOUS
  <2>9. CASE x[1] = "investigation"
    <3>1. e.about # None /\ x = <<"investigation", e.about>>
      BY <2>4, <2>6, <2>8, <2>9, LeavingIsOf
    <3>2. v # None /\ x = <<"investigation", v>>
      BY <2>7, <3>1
    <3>3. LastKept(v)'
      BY <1>0, <2>2, <2>8, <3>2, KeptMore
    <3> QED
      BY <1>1, <1>3, <1>4, <2>2, <2>3, <2>7, <3>3, AgreesNext
  <2>10. CASE x[1] # "investigation"
    <3>1. CASE LastKept(v)
      <4>1. LastKept(v)'
        BY <1>0, <2>2, <2>8, <2>10, <3>1, KeptMore
      <4> QED
        BY <1>1, <1>3, <1>4, <2>2, <2>3, <2>7, <4>1, AgreesNext
    <3>2. CASE \E u \in Turn : Pending(u)
      <4>1. Pending(t)
        BY <1>7, <2>2, <3>2 DEF Busy
      <4>2. PICK i \in Talk!Due(e.leaves, e.given) : e.leaves[i][1] = "investigation"
        BY <2>1, <4>1 DEF Pending
      <4>3. k <= i /\ k # i
        BY <2>2, <2>8, <2>10, <4>2
      <4>4. /\ i \in e.given + 1..Len(e.leaves) /\ e.leaves[i][2] # None
            /\ \A j \in 1..i - 1 : e.leaves[j] # e.leaves[i]
        BY <4>2 DEF Talk!Due
      <4>5. i \in k + 1..Len(e.leaves)
        BY <2>5, <2>6, <4>3, <4>4
      <4>6. i \in Talk!Due(e.leaves, k)
        BY <4>4, <4>5 DEF Talk!Due
      <4>7. Pending(t)'
        BY <2>2, <2>3, <4>2, <4>6 DEF Pending
      <4> QED
        BY <1>1, <1>3, <1>4, <2>2, <2>3, <2>7, <4>7, AgreesNext
    <3> QED
      BY <1>3, <3>1, <3>2
  <2> QED
    BY <2>9, <2>10
<1>15. CASE Leaves(t)
  <2>1. PICK d \in Turns :
          /\ Still /\ Walks(t, "over", d)
          /\ at[t] \in {"route", "execute", "create", "references"}
          /\ at[t] = "references" => Talk!Due(turn[t].leaves, turn[t].given) = {}
    BY <1>15 DEF Leaves
  <2>2. at'[t] = "over" /\ messages' = messages /\ references' = references
    BY <1>0, <2>1, WalksAre DEF Still, Places
  <2>3. ~Pending(t) /\ Busy(t)
    BY <2>1 DEF Pending, Busy
  <2>4. LastKept(v)
    BY <1>3, <1>7, <2>3
  <2> QED
    BY <1>6, <2>2, <2>4
<1> QED
  BY <1>8, <1>9, <1>10, <1>11, <1>12, <1>13, <1>14, <1>15 DEF Moved

LEMMA MindingStep ==
  ASSUME TalkTyped, Phased, Solo, Agreeing, Minding, NEW t \in Turn, Moved(t)
  PROVE  Minding'
<1>0. TurnsTyped /\ StoredTyped
  BY DEF TalkTyped
<1> SUFFICES ASSUME calm', NEW u \in Turn
             PROVE  Minds(u)'
  BY DEF Minding
<1>1. \A w \in Turn \ {t} : at'[w] = at[w] /\ turn'[w] = turn[w]
  BY <1>0, Others
<1>2. calm /\ (Recalls(t) \/ Busy(t)) /\ Minds(u)
  BY CalmWas DEF Minding
<1>3. PICK r : messages' = messages \/ messages' = Append(messages, r)
  BY OneMessage
<1>4. ASSUME NEW n \in Nat, n <= Len(messages), NEW v, LastSaid(n, v)
      PROVE  n <= Len(messages') /\ LastSaid(n, v)'
  <2>1. n <= Len(messages')
    BY <1>0, <1>3, <1>4, Beginnings
  <2>2. LastSaid(n, v)'
    BY <1>0, <1>3, <1>4, SaidStays
  <2> QED
    BY <2>1, <2>2
\* What a turn has heard stays what it was.
<1>5. ASSUME at'[u] \notin {"new", "history"}, at[u] \notin {"new", "history"},
             turn'[u].context = turn[u].context, turn'[u].heard = turn[u].heard
      PROVE  Minds(u)'
  <2>1. PICK n \in Nat : n = turn[u].heard
    BY <1>0 DEF TurnsTyped, Turns
  <2>2. PICK c : c = turn[u].context["investigation"]
    OBVIOUS
  <2>3. c # None => n <= Len(messages) /\ LastSaid(n, c)
    BY <1>2, <1>5, <2>1, <2>2 DEF Minds
  <2>4. c # None => n <= Len(messages') /\ LastSaid(n, c)'
    BY <1>4, <2>3
  <2>5. turn'[u].heard = n /\ turn'[u].context["investigation"] = c
    BY <1>5, <2>1, <2>2
  <2> QED
    BY <1>5, <2>4, <2>5 DEF Minds, LastSaid
<1>6. CASE u # t
  <2>1. at'[u] = at[u] /\ turn'[u] = turn[u]
    BY <1>1, <1>6
  <2>2. CASE at[u] = "history"
    <3>1. Busy(u)
      BY <2>2 DEF Busy
    <3>2. Recalls(t) \/ t = u
      BY <1>2, <3>1 DEF Solo
    <3> QED
      BY <1>6, <3>1, <3>2 DEF Recalls, Talk!Alone, Busy
  <2>3. CASE at[u] = "new"
    BY <2>1, <2>3 DEF Minds
  <2>4. CASE at[u] \notin {"new", "history"}
    BY <1>5, <2>1, <2>4
  <2> QED
    BY <2>2, <2>3, <2>4
<1>7. CASE u = t /\ Recalls(t)
  <2>1. PICK d \in Turns :
          /\ at[t] = "new" /\ Still /\ Walks(t, "history", d) /\ Talk!Alone
          /\ d.context = Talk!ContextOf(references)
    BY <1>7 DEF Recalls
  <2>2. at'[t] = "history" /\ turn'[t] = d /\ messages' = messages
    BY <1>0, <2>1, WalksAre DEF Still, Places
  <2>3. PICK v \in Investigation \cup {None} : Agrees(v)
    BY <1>2 DEF Agreeing
  <2>4. \A w \in Turn : ~Pending(w)
    BY <2>1 DEF Talk!Alone, Pending
  <2>5. LastKept(v) /\ LastSaid(Len(messages), v)
    BY <2>3, <2>4 DEF Agrees
  <2>6. PICK c : c = d.context["investigation"]
    OBVIOUS
  <2>7. c # None => LastOfType(references, "investigation", c)
    <3>1. references \in Seq(Talk!Type \X Talk!Thing) /\ "investigation" \in Talk!Type
      BY <1>0 DEF StoredTyped, Talk!Type
    <3> QED
      BY <2>1, <2>6, <3>1, ContextIs
  <2>8. c # None => c = v
    BY <1>0, <2>5, <2>7, LastIsOne
  <2>9. c # None => LastSaid(Len(messages), c)'
    BY <2>2, <2>5, <2>8 DEF LastSaid
  <2> QED
    BY <1>7, <2>2, <2>6, <2>9 DEF Minds
<1>8. CASE u = t /\ Hears(t)
  <2>1. PICK d \in Turns :
          /\ at[t] = "history" /\ Still /\ Walks(t, "route", d)
          /\ d.context = turn[t].context /\ d.heard = Len(messages)
    BY <1>8 DEF Hears
  <2>2. at'[t] = "route" /\ turn'[t] = d /\ messages' = messages
    BY <1>0, <2>1, WalksAre DEF Still, Places
  <2>3. PICK n \in Nat : n = Len(messages)
    BY <1>0 DEF StoredTyped
  <2>4. PICK c : c = d.context["investigation"]
    OBVIOUS
  <2>5. c # None => LastSaid(n, c)
    BY <1>2, <1>8, <2>1, <2>3, <2>4 DEF Minds
  <2>6. c # None => LastSaid(n, c)'
    BY <2>2, <2>5 DEF LastSaid
  <2> QED
    BY <1>8, <2>1, <2>2, <2>3, <2>4, <2>6 DEF Minds, LastSaid
<1>9. CASE u = t /\ Routes(t)
  <2>1. PICK d \in Turns : at[t] = "route" /\ Walks(t, "execute", d) /\ Keeps(t, d)
    BY <1>9 DEF Routes
  <2>2. at'[t] = "execute" /\ turn'[t] = d
    BY <1>0, <2>1, WalksAre DEF Places
  <2> QED
    BY <1>5, <1>9, <2>1, <2>2 DEF Keeps
<1>10. CASE u = t /\ Replies(t)
  <2>1. PICK d \in Turns : at[t] = "execute" /\ Walks(t, "conversation", d) /\ Keeps(t, d)
    BY <1>10 DEF Replies
  <2>2. at'[t] = "conversation" /\ turn'[t] = d
    BY <1>0, <2>1, WalksAre DEF Places
  <2> QED
    BY <1>5, <1>10, <2>1, <2>2 DEF Keeps
<1>11. CASE u = t /\ Opens(t)
  <2>1. at[t] \in {"conversation", "create"} /\ at'[t] \in {"create", "question"} /\ turn' = turn
    BY <1>0, <1>11 DEF Opens, TurnsTyped
  <2> QED
    BY <1>5, <1>11, <2>1
<1>12. CASE u = t /\ Tells(t)
  <2>1. at[t] \in {"question", "answer"} /\ at'[t] \in {"answer", "references"} /\ turn' = turn
    BY <1>0, <1>12 DEF Tells, TurnsTyped
  <2> QED
    BY <1>5, <1>12, <2>1
<1>13. CASE u = t /\ Refers(t)
  <2>1. PICK d \in Turns :
          at[t] = "references" /\ at' = at /\ turn' = [turn EXCEPT ![t] = d] /\ Keeps(t, d)
    BY <1>13 DEF Refers
  <2>2. turn'[t] = d
    BY <1>0, <2>1 DEF TurnsTyped
  <2> QED
    BY <1>5, <1>13, <2>1, <2>2 DEF Keeps
<1>14. CASE u = t /\ Leaves(t)
  <2>1. PICK d \in Turns : Walks(t, "over", d) /\ Forgotten(d)
    BY <1>14 DEF Leaves
  <2>2. turn'[t] = d
    BY <1>0, <2>1, WalksAre DEF Places
  <2> QED
    BY <1>14, <2>1, <2>2 DEF Minds, Forgotten
<1> QED
  BY <1>6, <1>7, <1>8, <1>9, <1>10, <1>11, <1>12, <1>13, <1>14 DEF Moved

TalkInv == TalkTyped /\ Phased /\ Exchanged /\ Listened /\ Solo /\ Agreeing /\ Minding

LEMMA RestsStep ==
  ASSUME TalkInv, WorldTyped', Rests
  PROVE  TalkInv'
<1>0. /\ at' = at /\ turn' = turn /\ calm' = calm /\ exists' = exists
      /\ messages' = messages /\ references' = references
  BY DEF Rests, Still
<1>1. TalkTyped' /\ Phased'
  BY <1>0 DEF TalkInv, TalkTyped, StoredTyped, TurnsTyped, Phased, Spoken, Executing, Answering, Existing
<1>2. Exchanged' /\ Listened' /\ Solo'
  BY <1>0 DEF TalkInv, Exchanged, ToldBy, Untold, Paired, Talk!Told, Listened, Talk!HistoryIsOf,
     Solo, Busy
<1>3. Minding'
  BY <1>0 DEF TalkInv, Minding, Minds, LastSaid
<1>4. Agreeing'
  <2>1. ASSUME NEW v, Agrees(v)
        PROVE  Agrees(v)'
    BY <1>0, <2>1 DEF Agrees, LastSaid, LastKept, LastOfType, Pending
  <2> QED
    BY <1>0, <2>1 DEF TalkInv, Agreeing
<1> QED
  BY <1>1, <1>2, <1>3, <1>4 DEF TalkInv

LEMMA InitTalkInv == Talk!Init => TalkInv
<1> SUFFICES ASSUME Talk!Init
             PROVE  TalkInv
  OBVIOUS
<1>1. PICK d \in Turns : d = Talk!NoTurn /\ Forgotten(d)
  <2>1. PICK d \in Turns : d = [Talk!NoTurn EXCEPT !.failed = FALSE] /\ Forgotten(d)
    BY NoTurnTyped
  <2>2. d = Talk!NoTurn
    BY <2>1 DEF Talk!NoTurn
  <2> QED
    BY <2>1, <2>2
<1>2. /\ stage = [i \in Investigation |-> "none"] /\ tracks = [i \in Investigation |-> None]
      /\ remembered = {} /\ exists = FALSE /\ messages = <<>> /\ references = <<>>
      /\ at = [t \in Turn |-> "new"] /\ turn = [t \in Turn |-> d] /\ calm = TRUE
  BY <1>1 DEF Talk!Init
<1>3. messages \in Seq(Talk!Row) /\ references \in Seq(Talk!Type \X Talk!Thing)
  BY <1>2
<1>4. TalkTyped
  BY <1>2, <1>3 DEF TalkTyped, WorldTyped, StoredTyped, TurnsTyped, Places
<1>5. Len(messages) = 0 /\ Len(references) = 0 /\ DOMAIN messages = {} /\ 1..0 = {}
  BY <1>2
<1>6. Phased /\ Listened /\ Solo
  BY <1>1, <1>2 DEF Phased, Spoken, Executing, Answering, Existing, Storing, Listened, Solo, Busy, Forgotten
<1>7. Exchanged
  BY <1>2, <1>5 DEF Exchanged, ToldBy, Untold, Talk!Told
<1>8. Agrees(None)
  BY <1>2, <1>5 DEF Agrees, LastSaid, LastKept
<1>9. Minding
  BY <1>2 DEF Minding, Minds
<1> QED
  BY <1>4, <1>6, <1>7, <1>8, <1>9 DEF TalkInv, Agreeing

LEMMA TalkInvariance == RecordsSpec => []TalkInv
<1>1. RecordsInit => TalkInv
  BY InitTalkInv DEF RecordsInit
<1>2. TalkInv /\ [RecordsNext]_records => TalkInv'
  <2> SUFFICES ASSUME TalkInv, [RecordsNext]_records
               PROVE  TalkInv'
    OBVIOUS
  <2>1. [Talk!Next]_(Talk!vars)
    BY DEF RecordsNext, records, talkVars, Talk!vars, Talk!world, Talk!stored
  <2>2. WorldTyped'
    BY <2>1, WorldStep DEF TalkInv, TalkTyped
  <2>3. (\E t \in Turn : Moved(t)) \/ Rests
    BY <2>1, TalkNext DEF TalkInv, TalkTyped, Phased
  <2>4. ASSUME NEW t \in Turn, Moved(t)
        PROVE  TalkInv'
    <3>1. TalkTyped'
      BY <2>2, <2>4, StoredStep, Others DEF TalkInv, TalkTyped, TurnsTyped
    <3>2. Phased' /\ Exchanged' /\ Listened'
      BY <2>4, PhasedStep, ExchangedStep, ListenedStep DEF TalkInv
    <3>3. Solo' /\ Agreeing' /\ Minding'
      BY <2>4, SoloStep, AgreeingStep, MindingStep DEF TalkInv
    <3> QED
      BY <3>1, <3>2, <3>3 DEF TalkInv
  <2> QED
    BY <2>2, <2>3, <2>4, RestsStep
<1> QED
  BY <1>1, <1>2, PTL DEF RecordsSpec

\* LastAbout is the one of which LastSaid speaks.
LEMMA LastAboutIs ==
  ASSUME NEW n \in Nat, NEW v, v # None, LastSaid(n, v)
  PROVE  Talk!LastAbout(n) = v
<1> DEFINE of == {k \in 1..n : messages[k].about # None}
<1>1. PICK k \in 1..n : messages[k].about = v /\ \A j \in k + 1..n : messages[j].about = None
  BY DEF LastSaid
<1>2. k \in of
  BY <1>1
<1>3. \A i \in of : i <= k
  BY <1>1
<1>4. \A i \in of : i >= k => i = k
  BY <1>3
<1>5. (CHOOSE i \in of : \A j \in of : i >= j) = k
  <2>1. \A j \in of : k >= j
    BY <1>3
  <2>2. \A i \in of : (\A j \in of : i >= j) => i = k
    <3> HIDE DEF of
    <3> QED
      BY <1>2, <1>4
  <2> HIDE DEF of
  <2> QED
    BY <1>2, <2>1, <2>2
<1>6. Talk!LastAbout(n) = IF of = {} THEN None ELSE messages[CHOOSE i \in of : \A j \in of : i >= j].about
  BY DEF Talk!LastAbout
<1> HIDE DEF of
<1> QED
  BY <1>1, <1>2, <1>5, <1>6

\* A turn whose storing did not fail stored its question and its answer or neither, also
\* beside others.  In a calm conversation the analyst is given the last messages as long as
\* they fit into a page, and what is treated as a follow-up is about the investigation of
\* the last answer that had one.
THEOREM ConversationsAreWhole == RecordsSpec => []ConversationIsWhole
<1>1. TalkInv => ConversationIsWhole
  <2> SUFFICES ASSUME TalkInv
               PROVE  ConversationIsWhole
    OBVIOUS
  <2>1. /\ messages \in Seq(Talk!Row) /\ references \in Seq(Talk!Type \X Talk!Thing)
        /\ DOMAIN messages = 1..Len(messages) /\ DOMAIN references = 1..Len(references)
        /\ Len(messages) \in Nat
    BY DEF TalkInv, TalkTyped, StoredTyped
  <2>2. \A t \in Turn : turn[t] \in Turns
    BY DEF TalkInv, TalkTyped, TurnsTyped
  <2>3. Talk!TypeOK
    <3>1. ASSUME NEW t \in Turn
          PROVE  /\ turn[t].says \in Message \cup {None}
                 /\ turn[t].context \in [Talk!Type -> Talk!Thing \cup {None}]
                 /\ turn[t].command \in Talk!Command /\ turn[t].about \in Talk!Thing \cup {None}
                 /\ \A k \in DOMAIN turn[t].history : turn[t].history[k] \in Talk!Row
                 /\ \A k \in DOMAIN turn[t].leaves : turn[t].leaves[k] \in Talk!Type \X (Talk!Thing \cup {None})
      <4>1. PICK e \in Turns : e = turn[t]
        BY <2>2
      <4>2. e.history \in Seq(Talk!Row) /\ e.leaves \in Seq(Given)
        BY DEF Turns
      <4>3. /\ \A k \in DOMAIN e.history : e.history[k] \in Talk!Row
            /\ \A k \in DOMAIN e.leaves : e.leaves[k] \in Given
        BY <4>2
      <4> QED
        BY <4>1, <4>3 DEF Turns, Given
    <3>2. \A k \in DOMAIN messages : messages[k] \in Talk!Row
      BY <2>1
    <3>3. \A k \in DOMAIN references : references[k] \in Talk!Type \X Talk!Thing
      BY <2>1
    <3> QED
      BY <3>1, <3>2, <3>3 DEF Talk!TypeOK, TalkInv, TalkTyped, WorldTyped, StoredTyped, TurnsTyped, Places
  <2>4. Talk!ExchangesAreWhole
    BY DEF TalkInv, Exchanged, ToldBy, Untold, Paired, Talk!ExchangesAreWhole
  <2>5. calm => Talk!EarlyHistoryIsRecent
    BY DEF TalkInv, Listened, Talk!EarlyHistoryIsRecent
  <2>6. calm => Talk!FollowUpIsAboutTheLastAnswer
    <3> SUFFICES ASSUME calm, NEW t \in Turn, turn[t].context["investigation"] # None,
                        at[t] \notin {"new", "history"}
                 PROVE  turn[t].context["investigation"] = Talk!LastAbout(turn[t].heard)
      BY DEF Talk!FollowUpIsAboutTheLastAnswer
    <3>1. Minds(t)
      BY DEF TalkInv, Minding
    <3>2. LastSaid(turn[t].heard, turn[t].context["investigation"])
      BY <3>1 DEF Minds
    <3>3. turn[t].heard \in Nat
      BY <2>2 DEF Turns
    <3> QED
      BY <3>2, <3>3, LastAboutIs
  <2> QED
    BY <2>3, <2>4, <2>5, <2>6 DEF ConversationIsWhole
<1> QED
  BY <1>1, TalkInvariance, PTL

-----------------------------------------------------------------------------
(* What moves are for and saves keep.                                      *)
LEMMA MovesWereAsked ==
  ASSUME TalkInv, [Talk!Next]_(Talk!vars), NEW t \in Turn, turn'[t] # turn[t], stage' # stage
  PROVE  Talk!Asks(turn[t].says)
<1>0. turn \in [Turn -> Turns]
  BY DEF TalkInv, TalkTyped, TurnsTyped
<1>1. ASSUME NEW u \in Turn, Talk!Investigate(u) \/ Talk!Resume(u)
      PROVE  Talk!Asks(turn[t].says)
  <2>1. /\ at[u] = "execute" /\ turn[u].command \in {"investigate", "collect", "continue"}
        /\ \E i, rs : Talk!Reply(u, i, rs)
    <3>1. CASE Talk!Investigate(u)
      BY <3>1 DEF Talk!Investigate, Talk!At, Talk!AboutInvestigation
    <3>2. CASE Talk!Resume(u)
      BY <1>1, <3>2 DEF Talk!Resume, Talk!At, Talk!AboutInvestigation
    <3> QED
      BY <1>1, <3>1, <3>2
  <2>2. u = t
    BY <1>0, <2>1 DEF Talk!Reply
  <2>3. /\ turn[u].says \in Message
        /\ turn[u].command = Talk!CommandOf(turn[u].says, turn[u].context)
    BY <2>1 DEF TalkInv, Phased, Spoken, Executing
  <2> QED
    BY <2>1, <2>2, <2>3, CommandIs
<1>2. CASE \E u \in Turn : Talk!Investigate(u) \/ Talk!Resume(u)
  BY <1>1, <1>2
<1>3. ASSUME NEW u \in Turn, Talk!Respond(u), ~Talk!Investigate(u), ~Talk!Resume(u)
      PROVE  stage' = stage
  BY <1>3 DEF Talk!Respond, Talk!Recall, Talk!ReadHistory, Talk!Route, Talk!Chat, Talk!Enumerate,
     Talk!Inform, Talk!Unavailable, Talk!Unresolved, Talk!Tracked, Talk!Look, Talk!LookUp, Talk!Create,
     Talk!AppendQuestion, Talk!AppendAnswer, Talk!AddReference, Talk!Return, Talk!Swallow, Talk!world
<1>4. ASSUME NEW i \in Investigation, Talk!Settle(i)
      PROVE  turn' = turn
  BY <1>4 DEF Talk!Settle
<1> QED
  BY <1>2, <1>3, <1>4 DEF Talk!Next, Talk!vars, Talk!world

\* The row of the investigation is locked for a save: one save at a time.
OneSave == \A p, q \in Drivers : driver[p].pc = "save" /\ driver[q].pc = "save" => p = q

LEMMA OneSaveStep ==
  ASSUME TrailTyped, OneSave, [Trail!Next]_(Trail!vars)
  PROVE  OneSave'
<1>1. ASSUME NEW p \in Drivers, TrailStep(p)
      PROVE  OneSave'
  <2>1. CASE Trail!BeginSave(p)
    <3>1. \A q \in Drivers : driver[q].pc # "save"
      BY <2>1 DEF Trail!BeginSave, Trail!Locked, Trail!At
    <3>2. \A q \in Drivers \ {p} : driver'[q] = driver[q]
      BY <2>1, TrailMoves DEF Moves
    <3> QED
      BY <3>1, <3>2 DEF OneSave
  <2>2. CASE ~Trail!BeginSave(p)
    <3>1. /\ \A q \in Drivers \ {p} : driver'[q] = driver[q]
          /\ driver'[p].pc # "save"
      <4>1. CASE Trail!Take(p) \/ Trail!View(p) \/ Trail!ReadVersion(p) \/ Trail!BeginAppend(p)
                 \/ Trail!CommitAppend(p) \/ Trail!CommitSave(p) \/ Trail!Conflict(p) \/ Trail!Crash(p)
        BY <4>1, TrailMoves DEF Moves
      <4>2. CASE Trail!Request(p) \/ Trail!Emit(p) \/ Trail!Checkpoint(p)
        BY <4>2, EventSteps DEF Moves
      <4> QED
        BY <1>1, <2>2, <4>1, <4>2 DEF TrailStep
    <3> QED
      BY <3>1 DEF OneSave
  <2> QED
    BY <2>1, <2>2
<1>2. CASE UNCHANGED driver
  BY <1>2 DEF OneSave
<1> QED
  BY <1>1, <1>2 DEF Trail!Next, Trail!vars, TrailStep, Trail!Lapse

LEMMA OneSaveInvariance == RecordsSpec => []OneSave
<1>1. RecordsInit => OneSave
  BY DEF RecordsInit, Trail!Init, Trail!Idle, OneSave
<1>2. TrailInv /\ OneSave /\ [RecordsNext]_records => OneSave'
  <2> SUFFICES ASSUME TrailInv, OneSave, [RecordsNext]_records
               PROVE  OneSave'
    OBVIOUS
  <2>1. [Trail!Next]_(Trail!vars)
    BY DEF RecordsNext, records, trailVars, Trail!vars
  <2> QED
    BY <2>1, OneSaveStep DEF TrailInv
<1> QED
  BY <1>1, <1>2, TrailInvariance, PTL DEF RecordsSpec

LEMMA SavesKeep ==
  ASSUME TrailInv, OneSave, [Trail!Next]_(Trail!vars), NEW p \in Drivers,
         driver[p].pc = "save", saved' # saved, NEW k \in 1..Len(driver[p].view)
  PROVE  \/ driver[p].view[k].label = Requested /\ k > Page
         \/ \E i \in 1..Len(table') : table'[i].event = driver[p].view[k]
<1>0. TrailTyped /\ Holding /\ Reading /\ Remembered
  BY DEF TrailInv
<1>1. Trail!CommitSave(p)
  <2>1. PICK q \in Drivers : Trail!CommitSave(q)
    BY DEF Trail!Next, Trail!vars, Trail!Take, Trail!Request, Trail!Emit, Trail!BeginAppend,
       Trail!CommitAppend, Trail!Checkpoint, Trail!View, Trail!ReadVersion, Trail!BeginSave,
       Trail!Conflict, Trail!Crash, Trail!Lapse
  <2> QED
    BY <2>1 DEF OneSave, Trail!CommitSave, Trail!At
<1>2. Saves(p)
  <2>1. Moves(p, "idle", <<>>, <<>>, 0, 0)
    BY <1>0, <1>1, TrailMoves
  <2> QED
    BY <1>1, <2>1 DEF Trail!CommitSave, Trail!At, Saves, Paged
<1>3. Extends
  BY <1>0, TableExtends
<1>4. CASE driver[p].view[k].label # Requested
  <2>1. IsStored(driver[p].view[k])
    BY <1>0, <1>4 DEF Remembered, Kept
  <2>2. PICK e : e = driver[p].view[k]
    OBVIOUS
  <2>3. PICK i \in 1..Len(table) : table[i].event = e
    BY <2>1, <2>2 DEF IsStored
  <2>4. i \in 1..Len(table') /\ table'[i].event = e
    BY <1>3, <2>3 DEF Extends
  <2> QED
    BY <2>2, <2>4
<1>5. CASE k <= Page
  <2>1. PICK found \in Seq(Finds), new \in Seq(Entries) :
          /\ Adds(found, driver[p].base, driver[p].latest, new) /\ Grows(new)
          /\ k \in 1..Len(found) /\ found[k].event = driver[p].view[k]
    BY <1>0, <1>2, <1>5, RowsAdded
  <2>2. PICK e : e = driver[p].view[k] /\ found[k].event = e
    BY <2>1
  <2>3. CASE Trail!Missing(found[k], driver[p].base)
    <3>1. PICK i \in 1..Len(new) : new[i].event = e
      BY <2>1, <2>2, <2>3 DEF Adds, AddsUpto
    <3>2. table'[Len(table) + i].event = e /\ Len(table) + i \in 1..Len(table')
      BY <1>3, <2>1, <3>1 DEF Grows, Extends
    <3> QED
      BY <2>2, <3>2
  <2>4. CASE ~Trail!Missing(found[k], driver[p].base)
    <3>1. PICK n \in Nat : n = driver[p].base
      BY <1>0 DEF TrailTyped, TrailDrivers
    <3>2. PICK i \in 1..n : table[i].event = e
      BY <2>2, <2>4, <3>1 DEF Trail!Missing
    <3>3. i \in 1..Len(table)
      BY <1>0, <1>3, <3>1, <3>2 DEF Reading, Extends
    <3>4. i \in 1..Len(table') /\ table'[i].event = e
      BY <1>3, <3>2, <3>3 DEF Extends
    <3> QED
      BY <2>2, <3>4
  <2> QED
    BY <2>3, <2>4
<1> QED
  <2>1. k \in Nat /\ Page \in Nat
    BY TrailConstants
  <2> QED
    BY <1>4, <1>5, <2>1

\* An investigation changes its stage in a turn only if the message of that turn asks for
\* it, whatever the context holds; and a save loses no event but one that no wrapper stored
\* and that lies beyond its page, also with two drivers.
THEOREM MovesHaveReasons == RecordsSpec => MovesAreAccountedFor
<1>1. TalkInv /\ [RecordsNext]_records =>
        [\A t \in Turn : turn'[t] # turn[t] /\ stage' # stage => Talk!Asks(turn[t].says)]_(Talk!vars)
  <2> SUFFICES ASSUME TalkInv, [RecordsNext]_records, NEW t \in Turn, turn'[t] # turn[t], stage' # stage
               PROVE  Talk!Asks(turn[t].says)
    OBVIOUS
  <2>1. [Talk!Next]_(Talk!vars)
    BY DEF RecordsNext, records, talkVars, Talk!vars, Talk!world, Talk!stored
  <2> QED
    BY <2>1, MovesWereAsked
<1>2. TrailInv /\ OneSave /\ [RecordsNext]_records =>
        [\A p \in Drivers :
           Trail!At(p, "save") /\ saved' # saved =>
             \A k \in DOMAIN driver[p].view :
                \/ driver[p].view[k].label = Requested /\ k > Page
                \/ \E i \in DOMAIN table' : table'[i].event = driver[p].view[k]]_(Trail!vars)
  <2> SUFFICES ASSUME TrailInv, OneSave, [RecordsNext]_records, NEW p \in Drivers,
                      driver[p].pc = "save", saved' # saved, NEW k \in DOMAIN driver[p].view
               PROVE  \/ driver[p].view[k].label = Requested /\ k > Page
                      \/ \E i \in DOMAIN table' : table'[i].event = driver[p].view[k]
    BY DEF Trail!At
  <2>1. [Trail!Next]_(Trail!vars)
    BY DEF RecordsNext, records, trailVars, Trail!vars
  <2>2. k \in 1..Len(driver[p].view)
    <3>1. PICK d \in TrailDrivers : d = driver[p]
      BY DEF TrailInv, TrailTyped
    <3>2. d.view \in Seq(Trail!Event)
      BY DEF TrailDrivers
    <3>3. DOMAIN d.view = 1..Len(d.view)
      BY <3>2
    <3> QED
      BY <3>1, <3>3
  <2>3. table' \in Seq(Entries)
    BY <2>1, TableExtends DEF TrailInv, Extends
  <2>4. PICK e : e = driver[p].view[k]
    OBVIOUS
  <2>5. \/ e.label = Requested /\ k > Page
        \/ \E i \in 1..Len(table') : table'[i].event = e
    BY <2>1, <2>2, <2>4, SavesKeep
  <2> QED
    BY <2>3, <2>4, <2>5
<1>3. RecordsSpec => Talk!ActsOnlyWhenAsked
  BY <1>1, TalkInvariance, PTL DEF RecordsSpec, Talk!ActsOnlyWhenAsked
<1>4. RecordsSpec => Trail!SavedIsKnown
  BY <1>2, TrailInvariance, OneSaveInvariance, PTL DEF RecordsSpec, Trail!SavedIsKnown
<1> QED
  BY <1>3, <1>4 DEF MovesAreAccountedFor
=============================================================================
