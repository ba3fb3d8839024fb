------------------------- MODULE ChangeReport_proofs -------------------------
(***************************************************************************)
(* What the cursor of "What is new?" has passed is of the time before a    *)
(* baseline or was reported, but for what no query could see: for any      *)
(* number of checks and records, any filters and however long they take.   *)
(***************************************************************************)
EXTENDS ChangeReport, TLAPS

CheckPc == {"new", "asked", "findings", "updates", "analyses", "alerts", "advance", "report",
            "over"}
Work == [at : Times, since : Times, scope : Scope \cup {{}}, comparing : BOOLEAN,
         first : BOOLEAN, available : BOOLEAN, mark : Times]

\* The stages before a record is counted or missed: it depends on its table, and for a
\* finding on whether the previous check has seen it.
StagesTo(c, i) ==
    IF i \in Finding THEN IF i \in Old(c) THEN {"findings", "updates"} ELSE {"findings"}
    ELSE IF i \in Analysis THEN {"findings", "updates", "analyses"}
    ELSE {"findings", "updates", "analyses", "alerts"}

\* The stamps of a record: of its committed write and of the one to come.
Stamps(i) == {updated[i], writing[i]} \ {0}

\* A write that may lie behind the cursor.
Settled(i, t) == t <= baseline \/ <<i, t>> \in passed \/ \E c \in Check : <<<<i, t>>, c>> \in shown

\* A write that a check is going to report or to miss.
Due(c, i, t) ==
    t > check[c].since /\ (<<i, t>> \in counted[c] \cup missed[c] \/ pc[c] \in StagesTo(c, i))

\* A comparison that may still advance the cursor.
Underway(c) ==
    /\ pc[c] \notin {"new", "asked", "over"}
    /\ check[c].comparing /\ ~check[c].first /\ check[c].available

\* A record that is not a finding is written once.
WrittenOnce ==
    \A i \in Item : /\ updated[i] > 0 => created[i] > 0
                    /\ i \notin Finding => /\ created[i] = updated[i]
                                           /\ writing[i] > 0 => created[i] = 0

\* The clock is ahead of every sample, and only comparisons that counted everything advance.
OfThePast ==
    /\ cursor <= clock
    /\ \A c \in Check : /\ check[c].at <= clock
                        /\ pc[c] \in {"advance", "report"} => Advances(c)

\* What the cursor has passed is settled, committed or not, ...
PassedIsSettled == \A i \in Item : \A t \in Stamps(i) : t <= cursor => Settled(i, t)

\* ... and what a check may move the cursor past is settled, or the check knows it, or its
\* query is still to come.
IntervalIsKnown ==
    \A c \in Check, i \in Item : Underway(c) =>
        \A t \in Stamps(i) : t <= check[c].at => Settled(i, t) \/ Due(c, i, t)

CInv == TypeOK /\ WrittenOnce /\ OfThePast /\ PassedIsSettled /\ IntervalIsKnown

-----------------------------------------------------------------------------
(* Types.                                                                  *)

LEMMA WriteTyped ==
  ASSUME TypeOK, NEW i \in Item
  PROVE  Write(i) \in Writes /\ <<i, writing[i]>> \in Writes
BY DEF TypeOK, Write, Writes

LEMMA CountsTyped ==
  ASSUME TypeOK, NEW c \in Check
  PROVE  /\ NewFindings(c) \in SUBSET Writes /\ UpdatedFindings(c) \in SUBSET Writes
         /\ CompletedAnalyses(c) \in SUBSET Writes /\ NewAlerts(c) \in SUBSET Writes
BY WriteTyped DEF NewFindings, UpdatedFindings, CompletedAnalyses, NewAlerts, Old, Item

LEMMA UnseenTyped ==
  ASSUME TypeOK, NEW c, NEW K, K \subseteq Item
  PROVE  Unseen(c, K) \in SUBSET Writes
BY WriteTyped DEF Unseen

LEMMA InitTyped ==
  ASSUME TimeAssumption, Init
  PROVE  TypeOK
BY DEF TimeAssumption, Init, TypeOK, Times, NoCheck, Writes

\* The parts of the state, which the actions change apart from each other.
FrameTyped ==
    /\ clock \in Times /\ cursor \in Times
    /\ writing \in [Item -> Times] /\ created \in [Item -> Times] /\ updated \in [Item -> Times]
    /\ pc \in [Check -> CheckPc]
CountsAreWrites == counted \in [Check -> SUBSET Writes] /\ missed \in [Check -> SUBSET Writes]
HistoryTyped == shown \subseteq Writes \X Check /\ passed \subseteq Writes /\ baseline \in Times

LEMMA TypeParts ==
  TypeOK <=> FrameTyped /\ check \in [Check -> Work] /\ CountsAreWrites /\ HistoryTyped
BY DEF TypeOK, FrameTyped, CheckPc, Work, CountsAreWrites, HistoryTyped

LEMMA PartsAreTyped ==
  ASSUME FrameTyped', check' \in [Check -> Work], CountsAreWrites', HistoryTyped'
  PROVE  TypeOK'
BY DEF TypeOK, FrameTyped, CheckPc, Work, CountsAreWrites, HistoryTyped

LEMMA Naturals ==
  ASSUME TimeAssumption, TypeOK
  PROVE  /\ clock \in Nat /\ cursor \in Nat /\ baseline \in Nat
         /\ \A i \in Item : writing[i] \in Nat /\ created[i] \in Nat /\ updated[i] \in Nat
         /\ \A c \in Check : /\ check[c].at \in Nat /\ check[c].since \in Nat
                             /\ check[c].mark \in Nat
BY DEF TimeAssumption, TypeOK, Times

\* What a check refers to is a tick.
LEMMA ReferenceTyped ==
  ASSUME TimeAssumption, TypeOK, NEW c \in Check, NEW comparing \in BOOLEAN, NEW h \in Hours
  PROVE  Reference(c, comparing, h) \in Times
<1>1. cursor \in Times /\ check[c].at \in 0..MaxTime /\ MaxTime \in Nat /\ h \in Nat
  BY DEF TypeOK, Times, TimeAssumption
<1>2. h < check[c].at => check[c].at - h \in 0..MaxTime
  BY <1>1
<1>3. 0 \in 0..MaxTime
  BY <1>1
<1> QED
  BY <1>1, <1>2, <1>3 DEF Reference, Ago, Times

\* What each step leaves of a check.
LEMMA ReferFrame ==
  ASSUME TimeAssumption, TypeOK, NEW c \in Check, Refer(c)
  PROVE  /\ UNCHANGED <<clock, writing, created, updated, cursor, counted, missed, shown, passed,
                        baseline>>
         /\ pc[c] = "asked" /\ pc' = [pc EXCEPT ![c] = "findings"]
         /\ check' \in [Check -> Work]
         /\ \A d \in Check \ {c} : check'[d] = check[d]
         /\ check'[c].at = check[c].at
         /\ check'[c].comparing /\ ~check'[c].first => check'[c].since = cursor
<1>1. PICK S \in Scope, comparing \in BOOLEAN, h \in Hours :
          check' = [check EXCEPT ![c] =
              [at |-> check[c].at, since |-> Reference(c, comparing, h), scope |-> S,
               comparing |-> comparing, first |-> comparing /\ cursor = 0,
               available |-> TRUE, mark |-> 0]]
  BY DEF Refer
<1>2. PICK r : r = Reference(c, comparing, h)
  OBVIOUS
<1>3. PICK a : a = check[c].at
  OBVIOUS
<1>4. PICK f \in BOOLEAN : f <=> (comparing /\ cursor = 0)
  OBVIOUS
<1>5. check' = [check EXCEPT ![c] = [at |-> a, since |-> r, scope |-> S, comparing |-> comparing,
                                     first |-> f, available |-> TRUE, mark |-> 0]]
  <2>1. (comparing /\ cursor = 0) = f
    BY <1>4
  <2> QED
    BY <1>1, <1>2, <1>3, <2>1
<1>6. r \in Times /\ a \in Times /\ 0 \in Times
  BY <1>2, <1>3, ReferenceTyped DEF TypeOK, Times, TimeAssumption
<1>7. check \in [Check -> Work]
  BY TypeParts
<1>8. [at |-> a, since |-> r, scope |-> S, comparing |-> comparing,
       first |-> f, available |-> TRUE, mark |-> 0] \in Work
  BY <1>6 DEF Work
<1>9. check' \in [Check -> Work]
  BY <1>5, <1>7, <1>8
<1>10. /\ check'[c].at = a /\ check'[c].comparing = comparing /\ check'[c].first = f
       /\ check'[c].since = r /\ \A d \in Check \ {c} : check'[d] = check[d]
  BY <1>5, <1>7
<1>11. comparing /\ ~f => r = cursor
  BY <1>2, <1>4 DEF Reference
<1> QED
  BY <1>3, <1>9, <1>10, <1>11 DEF Refer, Goto, records, counts, history

\* The records a query is over, and what it counts.
LEMMA FinishFrame ==
  ASSUME TimeAssumption, TypeOK, NEW c \in Check, Finish(c)
  PROVE  /\ check' \in [Check -> Work] /\ CountsAreWrites' /\ pc' \in [Check -> CheckPc]
         /\ pc'[c] = "over" /\ check'[c].at = 0
         /\ \A d \in Check \ {c} : /\ pc'[d] = pc[d] /\ check'[d] = check[d]
                                  /\ counted'[d] = counted[d] /\ missed'[d] = missed[d]
<1>1. check \in [Check -> Work] /\ CountsAreWrites /\ pc \in [Check -> CheckPc]
  BY TypeParts DEF FrameTyped
<1>2. NoCheck \in Work /\ NoCheck.at = 0
  BY DEF NoCheck, Work, Times, TimeAssumption
<1>3. check' = [check EXCEPT ![c] = NoCheck] /\ pc' = [pc EXCEPT ![c] = "over"]
      /\ counted' = [counted EXCEPT ![c] = {}] /\ missed' = [missed EXCEPT ![c] = {}]
  BY DEF Finish, Goto
<1>4. CountsAreWrites' /\ \A d \in Check \ {c} : counted'[d] = counted[d] /\ missed'[d] = missed[d]
  BY <1>1, <1>3 DEF CountsAreWrites
<1> HIDE DEF NoCheck
<1>5. check' \in [Check -> Work] /\ check'[c] = NoCheck /\ \A d \in Check \ {c} : check'[d] = check[d]
  BY <1>1, <1>2, <1>3
<1>6. pc' \in [Check -> CheckPc] /\ pc'[c] = "over" /\ \A d \in Check \ {c} : pc'[d] = pc[d]
  BY <1>1, <1>3 DEF CheckPc
<1> QED
  BY <1>2, <1>4, <1>5, <1>6

LEMMA CountFrame ==
  ASSUME TypeOK, NEW c \in Check,
         CountNew(c) \/ CountUpdated(c) \/ CountAnalyses(c) \/ CountAlerts(c), ~Finish(c)
  PROVE  /\ UNCHANGED <<clock, writing, created, updated, cursor, shown, passed, baseline>>
         /\ check' = check \/ check' = [check EXCEPT ![c].available = FALSE]
         /\ check' \in [Check -> Work]
         /\ \A d \in Check : /\ check'[d].at = check[d].at /\ check'[d].since = check[d].since
                             /\ check'[d].scope = check[d].scope
                             /\ check'[d].comparing = check[d].comparing
                             /\ check'[d].first = check[d].first
                             /\ check'[d].available => check[d].available
         /\ \A d \in Check \ {c} : pc'[d] = pc[d] /\ counted'[d] = counted[d]
                                   /\ missed'[d] = missed[d] /\ check'[d] = check[d]
         /\ counted[c] \subseteq counted'[c] /\ missed[c] \subseteq missed'[c]
         /\ CountsAreWrites' /\ pc' \in [Check -> CheckPc]
         /\ pc[c] \in {"findings", "updates", "analyses", "alerts"} /\ pc'[c] # "asked"
<1> USE DEF CountNew, CountUpdated, CountAnalyses, CountAlerts
<1>1. check \in [Check -> Work] /\ CountsAreWrites /\ pc \in [Check -> CheckPc]
  BY TypeParts DEF FrameTyped
<1>2. check' = check \/ check' = [check EXCEPT ![c].available = FALSE]
  OBVIOUS
<1>3. check' \in [Check -> Work]
  <2>1. [check[c] EXCEPT !.available = FALSE] \in Work
    BY <1>1 DEF Work
  <2>2. check' = check \/ check' = [check EXCEPT ![c] = [check[c] EXCEPT !.available = FALSE]]
    BY <1>2
  <2> HIDE DEF CountNew, CountUpdated, CountAnalyses, CountAlerts
  <2> QED
    BY <1>1, <2>1, <2>2
<1>4. \A d \in Check : /\ check'[d].at = check[d].at /\ check'[d].since = check[d].since
                       /\ check'[d].scope = check[d].scope
                       /\ check'[d].comparing = check[d].comparing
                       /\ check'[d].first = check[d].first
                       /\ check'[d].available => check[d].available
                       /\ d # c => check'[d] = check[d]
  BY <1>1, <1>2 DEF Work
<1>5. UNCHANGED <<clock, writing, created, updated, cursor, shown, passed, baseline>>
  BY DEF records, history
<1>6. PICK W \in SUBSET Writes, M \in SUBSET Writes :
        /\ counted' = [counted EXCEPT ![c] = @ \cup W]
        /\ missed' = [missed EXCEPT ![c] = @ \cup M]
  <2>1. \A K \in SUBSET Item : Unseen(c, K) \in SUBSET Writes
    BY UnseenTyped
  <2>2. /\ Finding \ Old(c) \in SUBSET Item /\ Old(c) \in SUBSET Item
        /\ Analysis \in SUBSET Item /\ AlertRow \in SUBSET Item
    BY DEF Old, Item
  <2>3. ASSUME UNCHANGED counts
        PROVE  \E W \in SUBSET Writes, M \in SUBSET Writes :
                  /\ counted' = [counted EXCEPT ![c] = @ \cup W]
                  /\ missed' = [missed EXCEPT ![c] = @ \cup M]
    <3>1. counted' = [counted EXCEPT ![c] = @ \cup {}] /\ missed' = [missed EXCEPT ![c] = @ \cup {}]
      BY <1>1, <2>3 DEF counts, CountsAreWrites
    <3> QED
      BY <3>1
  <2>4. CASE CountNew(c)
    BY <2>1, <2>2, <2>3, <2>4, CountsTyped DEF Counts
  <2>5. CASE CountUpdated(c)
    BY <2>1, <2>2, <2>3, <2>5, CountsTyped DEF Counts
  <2>6. CASE CountAlerts(c)
    BY <2>1, <2>2, <2>3, <2>6, CountsTyped DEF Counts
  <2>7. CASE CountAnalyses(c)
    BY <2>1, <2>2, <2>3, <2>7, CountsTyped DEF Counts
  <2> QED
    BY <2>4, <2>5, <2>6, <2>7
<1>7. /\ CountsAreWrites'
      /\ counted[c] \subseteq counted'[c] /\ missed[c] \subseteq missed'[c]
      /\ \A d \in Check \ {c} : counted'[d] = counted[d] /\ missed'[d] = missed[d]
  BY <1>1, <1>6 DEF CountsAreWrites
<1>8. PICK p \in CheckPc \ {"asked"} : pc' = [pc EXCEPT ![c] = p]
  BY DEF Goto, CheckPc
<1>9. pc' \in [Check -> CheckPc] /\ pc'[c] # "asked" /\ \A d \in Check \ {c} : pc'[d] = pc[d]
  BY <1>1, <1>8
<1>10. pc[c] \in {"findings", "updates", "analyses", "alerts"}
  OBVIOUS
<1> HIDE DEF CountNew, CountUpdated, CountAnalyses, CountAlerts
<1> QED
  BY <1>2, <1>3, <1>4, <1>5, <1>7, <1>9, <1>10

\* A new clock, cursor or counter is a tick, and a set of writes only grows by writes.
LEMMA TypeStep ==
  ASSUME TimeAssumption, TypeOK, [Next]_vars
  PROVE  TypeOK'
<1>0. FrameTyped /\ check \in [Check -> Work] /\ CountsAreWrites /\ HistoryTyped
  BY TypeParts
<1>1. ASSUME NEW i \in Item, Stamp(i)
      PROVE  TypeOK'
  <2>1. clock + 1 \in Times
    BY <1>0, <1>1 DEF Stamp, Times, TimeAssumption, FrameTyped
  <2>2. FrameTyped'
    BY <1>0, <1>1, <2>1 DEF Stamp, FrameTyped
  <2> QED
    BY <1>0, <1>1, <2>2, PartsAreTyped DEF Stamp, CountsAreWrites, HistoryTyped, counts, history
<1>2. ASSUME NEW i \in Item, Commit(i)
      PROVE  TypeOK'
  <2>1. 0 \in Times
    BY DEF Times, TimeAssumption
  <2>2. FrameTyped'
    BY <1>0, <1>2, <2>1 DEF Commit, FrameTyped
  <2> QED
    BY <1>0, <1>2, <2>2, PartsAreTyped DEF Commit, CountsAreWrites, HistoryTyped, counts, history
<1>3. ASSUME NEW c \in Check, Ask(c)
      PROVE  TypeOK'
  <2>1. clock + 1 \in Times
    BY <1>0, <1>3 DEF Ask, Times, TimeAssumption, FrameTyped
  <2>2. [check[c] EXCEPT !.at = clock + 1] \in Work
    BY <1>0, <2>1 DEF Work
  <2>3. check' = [check EXCEPT ![c] = [check[c] EXCEPT !.at = clock + 1]]
    BY <1>3 DEF Ask
  <2>4. check' \in [Check -> Work]
    BY <1>0, <2>2, <2>3
  <2>5. FrameTyped'
    BY <1>0, <1>3, <2>1 DEF Ask, Goto, FrameTyped, CheckPc, records
  <2> QED
    BY <1>0, <1>3, <2>4, <2>5, PartsAreTyped DEF Ask, CountsAreWrites, HistoryTyped, counts, history
<1>4. ASSUME NEW c \in Check, Refer(c)
      PROVE  TypeOK'
  <2>1. FrameTyped'
    BY <1>0, <1>4, ReferFrame DEF FrameTyped, CheckPc
  <2> QED
    BY <1>0, <1>4, <2>1, ReferFrame, PartsAreTyped DEF CountsAreWrites, HistoryTyped
<1>5. ASSUME NEW c \in Check, CountNew(c) \/ CountUpdated(c) \/ CountAnalyses(c) \/ CountAlerts(c)
      PROVE  TypeOK'
  <2>1. UNCHANGED <<clock, writing, created, updated, cursor, shown, passed, baseline>>
    BY <1>5 DEF CountNew, CountUpdated, CountAnalyses, CountAlerts, records, history
  <2>2. check' \in [Check -> Work] /\ CountsAreWrites' /\ pc' \in [Check -> CheckPc]
    BY <1>5, CountFrame, FinishFrame
  <2>3. FrameTyped' /\ HistoryTyped'
    BY <1>0, <2>1, <2>2 DEF FrameTyped, HistoryTyped
  <2> QED
    BY <2>2, <2>3, PartsAreTyped
<1>6. ASSUME NEW c \in Check, ReadCursor(c)
      PROVE  TypeOK'
  <2>1. check' \in [Check -> Work]
    <3>1. [check[c] EXCEPT !.mark = cursor] \in Work
      BY <1>0 DEF Work, FrameTyped
    <3>2. check' = [check EXCEPT ![c] = [check[c] EXCEPT !.mark = cursor]]
      BY <1>6 DEF ReadCursor
    <3> QED
      BY <1>0, <3>1, <3>2
  <2>2. FrameTyped'
    BY <1>0, <1>6 DEF ReadCursor, Goto, FrameTyped, CheckPc, records
  <2> QED
    BY <1>0, <1>6, <2>1, <2>2, PartsAreTyped
    DEF ReadCursor, CountsAreWrites, HistoryTyped, counts, history
<1>7. ASSUME NEW c \in Check, WriteCursor(c) \/ Fail(c)
      PROVE  TypeOK'
  <2>1. check[c].at \in Times
    BY <1>0 DEF Work
  <2>2. cursor' \in Times
    BY <1>0, <1>7, <2>1 DEF WriteCursor, Fail, Marked, FrameTyped
  <2>3. HistoryTyped'
    <3>1. counted[c] \subseteq Writes /\ missed[c] \subseteq Writes
      BY <1>0 DEF CountsAreWrites
    <3>2. UNCHANGED history \/ Reports(c)
      BY <1>7 DEF WriteCursor, Fail
    <3>3. CASE UNCHANGED history
      BY <1>0, <3>3 DEF HistoryTyped, history
    <3>4. CASE Reports(c)
      BY <1>0, <2>1, <3>1, <3>4 DEF HistoryTyped, Reports
    <3> QED
      BY <3>2, <3>3, <3>4
  <2>4. UNCHANGED <<clock, writing, created, updated>> /\ Finish(c)
    BY <1>7 DEF WriteCursor, Fail, records
  <2>5. check' \in [Check -> Work] /\ CountsAreWrites' /\ pc' \in [Check -> CheckPc]
    BY <2>4, FinishFrame
  <2>6. FrameTyped'
    BY <1>0, <2>2, <2>4, <2>5 DEF FrameTyped
  <2> QED
    BY <2>3, <2>5, <2>6, PartsAreTyped
<1>8. CASE UNCHANGED vars
  BY <1>0, <1>8, PartsAreTyped
  DEF vars, records, counts, history, FrameTyped, CountsAreWrites, HistoryTyped
<1> QED
  BY <1>1, <1>2, <1>3, <1>4, <1>5, <1>6, <1>7, <1>8 DEF Next, Report

-----------------------------------------------------------------------------
(* What the writers leave to the checks.                                   *)

Kept == WrittenOnce /\ OfThePast /\ PassedIsSettled /\ IntervalIsKnown

LEMMA InitCInv ==
  ASSUME TimeAssumption, Init
  PROVE  CInv
<1>1. /\ \A i \in Item : writing[i] = 0 /\ created[i] = 0 /\ updated[i] = 0
      /\ \A c \in Check : pc[c] = "new" /\ check[c] = NoCheck
      /\ clock = 0 /\ cursor = 0
  BY DEF Init
<1>2. WrittenOnce /\ OfThePast
  BY <1>1 DEF WrittenOnce, OfThePast, NoCheck
<1>3. PassedIsSettled /\ IntervalIsKnown
  BY <1>1 DEF PassedIsSettled, IntervalIsKnown, Stamps
<1> QED
  BY <1>2, <1>3, InitTyped DEF CInv

\* A stamp is later than the cursor and than every check that has sampled the clock.
LEMMA StampKeeps ==
  ASSUME TimeAssumption, CInv, NEW j \in Item, Stamp(j)
  PROVE  Kept'
<1>1. /\ UNCHANGED <<created, updated, cursor, pc, check, counted, missed, shown, passed, baseline>>
      /\ clock' = clock + 1 /\ writing' = [writing EXCEPT ![j] = clock + 1]
  BY DEF Stamp, counts, history
<1>2. TypeOK /\ WrittenOnce /\ OfThePast /\ PassedIsSettled /\ IntervalIsKnown
  BY DEF CInv
<1>3. \A i \in Item : writing'[i] = IF i = j THEN clock + 1 ELSE writing[i]
  BY <1>1, <1>2 DEF TypeOK
<1>4. \A i \in Item : \A t \in Stamps(i)' : t \in Stamps(i) \/ t = clock + 1
  BY <1>1, <1>3 DEF Stamps
<1>5. WrittenOnce'
  BY <1>1, <1>2, <1>3 DEF WrittenOnce, Stamp, Writable
<1>6. OfThePast'
  BY <1>1, <1>2, Naturals DEF OfThePast, Advances
<1>7. PassedIsSettled'
  <2>1. cursor < clock + 1
    BY <1>2, Naturals DEF OfThePast
  <2> SUFFICES ASSUME NEW i \in Item, NEW t \in Stamps(i)', t <= cursor'
               PROVE  Settled(i, t)'
    BY DEF PassedIsSettled
  <2>2. t <= cursor /\ t \in Stamps(i)
    BY <1>1, <1>2, <1>4, <2>1, Naturals
  <2>3. Settled(i, t)
    BY <1>2, <2>2 DEF PassedIsSettled
  <2> QED
    BY <1>1, <2>3 DEF Settled
<1>8. IntervalIsKnown'
  <2> SUFFICES ASSUME NEW c \in Check, NEW i \in Item, Underway(c), NEW t \in Stamps(i)',
                      t <= check[c].at
               PROVE  Settled(i, t) \/ Due(c, i, t)
    BY <1>1 DEF IntervalIsKnown, Underway, Settled, Due, StagesTo, Old
  <2>1. check[c].at < clock + 1
    BY <1>2, Naturals DEF OfThePast
  <2>2. t \in Stamps(i)
    BY <1>2, <1>4, <2>1, Naturals
  <2> QED
    BY <1>2, <2>2 DEF IntervalIsKnown
<1> QED
  BY <1>5, <1>6, <1>7, <1>8 DEF Kept

\* A commit brings no stamp that the checks have not been reckoning with.
LEMMA CommitKeeps ==
  ASSUME TimeAssumption, CInv, NEW j \in Item, Commit(j)
  PROVE  Kept'
<1>1. /\ UNCHANGED <<clock, cursor, pc, check, counted, missed, shown, passed, baseline>>
      /\ created' = [created EXCEPT ![j] = IF @ = 0 THEN writing[j] ELSE @]
      /\ updated' = [updated EXCEPT ![j] = writing[j]]
      /\ writing' = [writing EXCEPT ![j] = 0]
      /\ writing[j] > 0
  BY DEF Commit, counts, history
<1>2. TypeOK /\ WrittenOnce /\ OfThePast /\ PassedIsSettled /\ IntervalIsKnown
  BY DEF CInv
<1>3. /\ \A i \in Item \ {j} : /\ writing'[i] = writing[i] /\ created'[i] = created[i]
                               /\ updated'[i] = updated[i]
      /\ writing'[j] = 0 /\ updated'[j] = writing[j]
      /\ created'[j] = IF created[j] = 0 THEN writing[j] ELSE created[j]
  BY <1>1, <1>2 DEF TypeOK
<1>4. \A i \in Item : \A t \in Stamps(i)' : t \in Stamps(i) /\ (i = j => t = writing[j])
  BY <1>3 DEF Stamps
<1>5. WrittenOnce'
  BY <1>1, <1>2, <1>3, Naturals DEF WrittenOnce
<1>6. OfThePast'
  BY <1>1, <1>2 DEF OfThePast, Advances
<1>7. PassedIsSettled'
  BY <1>1, <1>2, <1>4 DEF PassedIsSettled, Settled
<1>8. IntervalIsKnown'
  <2> SUFFICES ASSUME NEW c \in Check, NEW i \in Item, Underway(c), NEW t \in Stamps(i)',
                      t <= check[c].at, Due(c, i, t)
               PROVE  Due(c, i, t)'
    BY <1>1, <1>2, <1>4 DEF IntervalIsKnown, Underway, Settled
  <2>1. t > check[c].since
    BY DEF Due
  <2>2. i \in Old(c) <=> i \in Old(c)'
    <3>1. CASE i # j
      BY <1>1, <1>3, <3>1 DEF Old
    <3>2. CASE i = j
      <4>1. t = writing[j] /\ check'[c].since = check[c].since
        BY <1>1, <1>4, <3>2
      <4>2. created'[j] = created[j] \/ (created[j] = 0 /\ created'[j] = t)
        BY <1>3, <4>1
      <4>3. t \in Nat /\ check[c].since \in Nat
        BY <1>2, <4>1, Naturals
      <4> QED
        BY <2>1, <3>2, <4>1, <4>2, <4>3 DEF Old
    <3> QED
      BY <3>1, <3>2
  <2>3. StagesTo(c, i)' = StagesTo(c, i)
    BY <2>2 DEF StagesTo
  <2> QED
    BY <1>1, <2>3 DEF Due
<1> QED
  BY <1>5, <1>6, <1>7, <1>8 DEF Kept

-----------------------------------------------------------------------------
(* A check.                                                                *)

LEMMA AskKeeps ==
  ASSUME TimeAssumption, CInv, NEW c \in Check, Ask(c)
  PROVE  Kept'
<1>1. /\ UNCHANGED <<writing, created, updated, cursor, counted, missed, shown, passed, baseline>>
      /\ clock' = clock + 1 /\ pc' = [pc EXCEPT ![c] = "asked"]
      /\ check' = [check EXCEPT ![c].at = clock + 1]
  BY DEF Ask, Goto, records, counts, history
<1>2. TypeOK /\ WrittenOnce /\ OfThePast /\ PassedIsSettled /\ IntervalIsKnown
  BY DEF CInv
<1>3. /\ \A d \in Check \ {c} : check'[d] = check[d] /\ pc'[d] = pc[d]
      /\ pc'[c] = "asked" /\ check'[c].at = clock + 1
  BY <1>1, <1>2 DEF TypeOK
<1>4. WrittenOnce'
  BY <1>1, <1>2 DEF WrittenOnce
<1>5. OfThePast'
  BY <1>1, <1>2, <1>3, Naturals DEF OfThePast, Advances
<1>6. PassedIsSettled'
  BY <1>1, <1>2 DEF PassedIsSettled, Stamps, Settled
<1>7. IntervalIsKnown'
  <2> SUFFICES ASSUME NEW d \in Check \ {c}, NEW i \in Item, Underway(d), NEW t \in Stamps(i),
                      t <= check[d].at
               PROVE  (Settled(i, t) \/ Due(d, i, t))'
    BY <1>1, <1>3 DEF IntervalIsKnown, Underway, Stamps
  <2>1. Settled(i, t) \/ Due(d, i, t)
    BY <1>2 DEF IntervalIsKnown
  <2>2. StagesTo(d, i)' = StagesTo(d, i)
    BY <1>1, <1>3 DEF StagesTo, Old
  <2> QED
    BY <1>1, <1>3, <2>1, <2>2 DEF Settled, Due
<1> QED
  BY <1>4, <1>5, <1>6, <1>7 DEF Kept

\* The interval of a comparison begins at the cursor, behind which everything is settled.
LEMMA ReferKeeps ==
  ASSUME TimeAssumption, CInv, NEW c \in Check, Refer(c)
  PROVE  Kept'
<1>1. TypeOK /\ WrittenOnce /\ OfThePast /\ PassedIsSettled /\ IntervalIsKnown
  BY DEF CInv
<1>2. /\ UNCHANGED <<clock, writing, created, updated, cursor, counted, missed, shown, passed,
                     baseline>>
      /\ pc[c] = "asked" /\ pc' = [pc EXCEPT ![c] = "findings"]
      /\ \A d \in Check \ {c} : check'[d] = check[d]
      /\ check'[c].at = check[c].at
      /\ check'[c].comparing /\ ~check'[c].first => check'[c].since = cursor
  BY <1>1, ReferFrame
<1>3. pc'[c] = "findings" /\ \A d \in Check \ {c} : pc'[d] = pc[d]
  BY <1>1, <1>2 DEF TypeOK
<1>4. WrittenOnce'
  BY <1>1, <1>2 DEF WrittenOnce
<1>5. OfThePast'
  <2>1. \A d \in Check : check'[d].at = check[d].at
    BY <1>2
  <2>2. \A d \in Check : pc'[d] \in {"advance", "report"} => Advances(d)'
    BY <1>1, <1>2, <1>3 DEF OfThePast, Advances
  <2> QED
    BY <1>1, <1>2, <2>1, <2>2 DEF OfThePast
<1>6. PassedIsSettled'
  BY <1>1, <1>2 DEF PassedIsSettled, Stamps, Settled
<1>7. IntervalIsKnown'
  <2> SUFFICES ASSUME NEW d \in Check, NEW i \in Item, Underway(d)', NEW t \in Stamps(i),
                      t <= check'[d].at
               PROVE  (Settled(i, t) \/ Due(d, i, t))'
    BY <1>2 DEF IntervalIsKnown, Stamps
  <2>1. Settled(i, t) => Settled(i, t)'
    BY <1>2 DEF Settled
  <2>2. CASE d # c
    <3>1. Settled(i, t) \/ Due(d, i, t)
      BY <1>1, <1>2, <1>3, <2>2 DEF IntervalIsKnown, Underway
    <3>2. StagesTo(d, i)' = StagesTo(d, i)
      BY <1>2, <2>2 DEF StagesTo, Old
    <3> QED
      BY <1>2, <1>3, <2>1, <2>2, <3>1, <3>2 DEF Due
  <2>3. CASE d = c
    <3>1. check'[c].since = cursor
      BY <1>2, <2>3 DEF Underway
    <3>2. t <= cursor => Settled(i, t)
      BY <1>1 DEF PassedIsSettled
    <3>3. t \in Nat /\ cursor \in Nat
      BY <1>1, Naturals DEF Stamps
    <3>4. pc'[c] \in StagesTo(c, i)'
      BY <1>3 DEF StagesTo
    <3> QED
      BY <2>1, <2>3, <3>1, <3>2, <3>3, <3>4 DEF Due
  <2> QED
    BY <2>2, <2>3
<1> QED
  BY <1>4, <1>5, <1>6, <1>7 DEF Kept

\* What a query over K does not count, it misses.
LEMMA QueryTakes ==
  ASSUME TimeAssumption, TypeOK, NEW c \in Check, NEW K, NEW W, Counts(c, K, W), Comparable(c),
         NEW i \in Item, i \in K, NEW t \in Stamps(i), t <= check[c].at, t > check[c].since,
         t = updated[i] /\ i \in check[c].scope \cup Analysis => Write(i) \in W
  PROVE  <<i, t>> \in counted'[c] \cup missed'[c]
<1>1. counted'[c] = counted[c] \cup W /\ missed'[c] = missed[c] \cup Unseen(c, K)
  BY DEF Counts, TypeOK
<1>2. t \in Nat /\ t > 0 /\ check[c].at \in Nat
  BY Naturals DEF Stamps
<1>3. CASE t = writing[i]
  <2>1. <<i, t>> \in Unseen(c, K)
    BY <1>2, <1>3 DEF Unseen
  <2> QED
    BY <1>1, <2>1
<1>4. CASE t = updated[i] /\ i \notin check[c].scope \cup Analysis
  <2>1. <<i, t>> \in Unseen(c, K)
    BY <1>2, <1>4 DEF Unseen, Write
  <2> QED
    BY <1>1, <2>1
<1>5. CASE t = updated[i] /\ i \in check[c].scope \cup Analysis
  BY <1>1, <1>5 DEF Write
<1> QED
  BY <1>3, <1>4, <1>5 DEF Stamps

\* A query counts or misses what is due in it, and the rest is due later.
LEMMA QueryPassesOn ==
  ASSUME TimeAssumption, CInv, ItemAssumption, NEW c \in Check,
         CountNew(c) \/ CountUpdated(c) \/ CountAnalyses(c) \/ CountAlerts(c), check'[c].available,
         Comparable(c), ~Finish(c),
         NEW i \in Item, NEW t \in Stamps(i), t <= check[c].at, t > check[c].since,
         pc[c] \in StagesTo(c, i)
  PROVE  <<i, t>> \in counted'[c] \cup missed'[c] \/ pc'[c] \in StagesTo(c, i)
<1>1. TypeOK /\ WrittenOnce
  BY DEF CInv
<1>2. created[i] \in Nat /\ updated[i] \in Nat /\ check[c].since \in Nat /\ check[c].at \in Nat
      /\ t \in Nat
  BY <1>1, Naturals DEF Stamps
<1>3. updated[i] > 0 => created[i] > 0
  BY <1>1 DEF WrittenOnce
<1>4. i \notin Finding => created[i] = updated[i]
  BY <1>1 DEF WrittenOnce
<1>5. i \in Finding => i \notin Analysis
  BY DEF ItemAssumption
<1>6. CASE CountNew(c)
  <2>1. pc'[c] = "updates" /\ Counts(c, Finding \ Old(c), NewFindings(c))
    BY <1>1, <1>6 DEF CountNew, Goto, TypeOK
  <2>2. CASE i \in Finding \ Old(c)
    <3>1. t = updated[i] /\ i \in check[c].scope \cup Analysis => Write(i) \in NewFindings(c)
      BY <1>2, <1>3, <1>5, <2>2 DEF NewFindings, Old
    <3> QED
      BY <1>1, <2>1, <2>2, <3>1, QueryTakes
  <2>3. CASE i \notin Finding \ Old(c)
    BY <2>1, <2>3 DEF StagesTo
  <2> QED
    BY <2>2, <2>3
<1>7. CASE CountUpdated(c)
  <2>1. pc[c] = "updates" /\ pc'[c] = "analyses" /\ Counts(c, Old(c), UpdatedFindings(c))
    BY <1>1, <1>7 DEF CountUpdated, Goto, TypeOK
  <2>2. CASE i \in Old(c)
    <3>1. t = updated[i] /\ i \in check[c].scope \cup Analysis => Write(i) \in UpdatedFindings(c)
      BY <1>5, <2>2 DEF UpdatedFindings, Old
    <3> QED
      BY <1>1, <2>1, <2>2, <3>1, QueryTakes
  <2>3. CASE i \notin Old(c)
    BY <2>1, <2>3 DEF StagesTo
  <2> QED
    BY <2>2, <2>3
<1>8. CASE CountAnalyses(c)
  <2>1. pc[c] = "analyses" /\ pc'[c] = "alerts" /\ Counts(c, Analysis, CompletedAnalyses(c))
    BY <1>1, <1>8 DEF CountAnalyses, Goto, TypeOK
  <2>2. CASE i \in Analysis
    <3>1. t = updated[i] => Write(i) \in CompletedAnalyses(c)
      BY <1>4, <1>5, <2>2 DEF CompletedAnalyses
    <3> QED
      BY <1>1, <2>1, <2>2, <3>1, QueryTakes
  <2>3. CASE i \notin Analysis
    BY <2>1, <2>3 DEF StagesTo
  <2> QED
    BY <2>2, <2>3
<1>9. CASE CountAlerts(c)
  <2>1. pc[c] = "alerts" /\ Counts(c, AlertRow, NewAlerts(c))
    BY <1>9 DEF CountAlerts
  <2>2. i \notin Finding /\ i \notin Analysis
    BY <2>1 DEF StagesTo
  <2>3. i \in AlertRow
    BY <2>2 DEF Item
  <2>4. t = updated[i] /\ i \in check[c].scope \cup Analysis => Write(i) \in NewAlerts(c)
    BY <1>4, <2>2, <2>3 DEF NewAlerts
  <2> QED
    BY <1>1, <2>1, <2>3, <2>4, QueryTakes
<1> QED
  BY <1>6, <1>7, <1>8, <1>9

LEMMA CountKeeps ==
  ASSUME TimeAssumption, ItemAssumption, CInv, NEW c \in Check,
         CountNew(c) \/ CountUpdated(c) \/ CountAnalyses(c) \/ CountAlerts(c), ~Finish(c)
  PROVE  Kept'
<1>1. TypeOK /\ WrittenOnce /\ OfThePast /\ PassedIsSettled /\ IntervalIsKnown
  BY DEF CInv
<1>2. UNCHANGED <<clock, writing, created, updated, cursor, shown, passed, baseline>>
  BY <1>1, CountFrame
<1>3. \A d \in Check : /\ check'[d].at = check[d].at /\ check'[d].since = check[d].since
                       /\ check'[d].comparing = check[d].comparing
                       /\ check'[d].first = check[d].first
                       /\ check'[d].available => check[d].available
                       /\ d # c => check'[d] = check[d]
  BY <1>1, CountFrame
<1>4. \A d \in Check \ {c} : pc'[d] = pc[d] /\ counted'[d] = counted[d] /\ missed'[d] = missed[d]
  BY <1>1, CountFrame
<1>5. counted[c] \subseteq counted'[c] /\ missed[c] \subseteq missed'[c]
      /\ pc[c] \in {"findings", "updates", "analyses", "alerts"}
  BY <1>1, CountFrame
<1>6. WrittenOnce'
  BY <1>1, <1>2 DEF WrittenOnce
<1>7. OfThePast'
  <2>1. pc'[c] \in {"advance", "report"} => Advances(c)'
    BY <1>1 DEF CountNew, CountUpdated, CountAnalyses, CountAlerts, Goto, TypeOK, Advances
  <2>2. \A d \in Check \ {c} : pc'[d] \in {"advance", "report"} => Advances(d)'
    BY <1>1, <1>3, <1>4 DEF OfThePast, Advances
  <2> QED
    BY <1>1, <1>2, <1>3, <2>1, <2>2 DEF OfThePast
<1>8. PassedIsSettled'
  BY <1>1, <1>2 DEF PassedIsSettled, Stamps, Settled
<1>9. IntervalIsKnown'
  <2> SUFFICES ASSUME NEW d \in Check, NEW i \in Item, Underway(d)', NEW t \in Stamps(i),
                      t <= check[d].at, ~Settled(i, t)
               PROVE  Due(d, i, t)'
    BY <1>2, <1>3 DEF IntervalIsKnown, Stamps, Settled
  <2>1. Underway(d)
    BY <1>3, <1>4, <1>5 DEF Underway
  <2>2. Due(d, i, t)
    BY <1>1, <2>1 DEF IntervalIsKnown
  <2>3. StagesTo(d, i)' = StagesTo(d, i)
    BY <1>2, <1>3 DEF StagesTo, Old
  <2>4. CASE d # c
    BY <1>3, <1>4, <2>2, <2>3, <2>4 DEF Due
  <2>5. CASE d = c
    <3>1. t > check[c].since
      BY <2>2, <2>5 DEF Due
    <3>2. CASE <<i, t>> \in counted[c] \cup missed[c]
      BY <1>3, <1>5, <2>5, <3>1, <3>2 DEF Due
    <3>3. CASE pc[c] \in StagesTo(c, i)
      <4>1. check'[c].available
        BY <2>5 DEF Underway
      <4>3. Comparable(c)
        BY <2>1, <2>5 DEF Underway, Comparable
      <4>2. <<i, t>> \in counted'[c] \cup missed'[c] \/ pc'[c] \in StagesTo(c, i)
        BY <2>5, <4>3, <3>1, <3>3, <4>1, QueryPassesOn
      <4> QED
        BY <1>3, <2>3, <2>5, <3>1, <4>2 DEF Due
    <3> QED
      BY <2>2, <2>5, <3>2, <3>3 DEF Due
  <2> QED
    BY <2>4, <2>5
<1> QED
  BY <1>6, <1>7, <1>8, <1>9 DEF Kept

\* Reading the cursor moves nothing that was counted.
LEMMA ReadKeeps ==
  ASSUME TimeAssumption, CInv, NEW c \in Check, ReadCursor(c)
  PROVE  Kept'
<1>1. TypeOK /\ WrittenOnce /\ OfThePast /\ PassedIsSettled /\ IntervalIsKnown
  BY DEF CInv
<1>2. UNCHANGED <<clock, writing, created, updated, cursor, counted, missed, shown, passed, baseline>>
  BY DEF ReadCursor, records, counts, history
<1>3. \A d \in Check : /\ check'[d].at = check[d].at /\ check'[d].since = check[d].since
                       /\ check'[d].scope = check[d].scope
                       /\ check'[d].comparing = check[d].comparing
                       /\ check'[d].first = check[d].first
                       /\ check'[d].available = check[d].available
  BY <1>1 DEF ReadCursor, TypeOK
<1>4. /\ \A d \in Check \ {c} : pc'[d] = pc[d]
      /\ pc[c] = "advance" /\ pc'[c] = "report"
  BY <1>1 DEF ReadCursor, Goto, TypeOK
<1>5. WrittenOnce'
  BY <1>1, <1>2 DEF WrittenOnce
<1>6. OfThePast'
  BY <1>1, <1>2, <1>3, <1>4 DEF OfThePast, Advances
<1>7. PassedIsSettled'
  BY <1>1, <1>2 DEF PassedIsSettled, Stamps, Settled
<1>8. IntervalIsKnown'
  <2> SUFFICES ASSUME NEW d \in Check, NEW i \in Item, Underway(d)', NEW t \in Stamps(i),
                      t <= check[d].at, ~Settled(i, t)
               PROVE  Due(d, i, t)'
    BY <1>2, <1>3 DEF IntervalIsKnown, Stamps, Settled
  <2>1. Underway(d) /\ (pc'[d] = pc[d] \/ pc[d] = "advance")
    BY <1>3, <1>4 DEF Underway
  <2>2. Due(d, i, t)
    BY <1>1, <2>1 DEF IntervalIsKnown
  <2>3. StagesTo(d, i)' = StagesTo(d, i) /\ "advance" \notin StagesTo(d, i)
    BY <1>2, <1>3 DEF StagesTo, Old
  <2> QED
    BY <1>2, <1>3, <2>1, <2>2, <2>3 DEF Due
<1> QED
  BY <1>5, <1>6, <1>7, <1>8 DEF Kept

\* A check that ends without moving the cursor, whatever it counted, and one that moves it
\* to the end of an interval that was counted whole, or of the baseline.
LEMMA FinishKeeps ==
  ASSUME TimeAssumption, CInv, NEW c \in Check, Finish(c),
         UNCHANGED <<clock, writing, created, updated>>,
         \/ UNCHANGED <<cursor, shown, passed, baseline>>
         \/ /\ pc[c] = "report" /\ Reports(c)
            /\ cursor' = cursor \/ cursor' = check[c].at
  PROVE  Kept'
<1>1. TypeOK /\ WrittenOnce /\ OfThePast /\ PassedIsSettled /\ IntervalIsKnown
  BY DEF CInv
<1>2. /\ \A d \in Check \ {c} : /\ pc'[d] = pc[d] /\ check'[d] = check[d]
                                /\ counted'[d] = counted[d] /\ missed'[d] = missed[d]
      /\ pc'[c] = "over" /\ check'[c].at = 0
  BY <1>1, FinishFrame
<1>3. UNCHANGED <<shown, passed, baseline>> \/ Reports(c)
  OBVIOUS
<1>4. \A i \in Item : \A t \in Stamps(i) : Settled(i, t) => Settled(i, t)'
  <2>1. shown \subseteq shown' /\ passed \subseteq passed' /\ baseline <= baseline'
        /\ baseline \in Nat /\ baseline' \in Nat
    BY <1>1, <1>3, Naturals DEF Reports
  <2>2. \A i \in Item : \A t \in Stamps(i) : t \in Nat
    BY <1>1, Naturals DEF Stamps
  <2> QED
    BY <2>1, <2>2 DEF Settled
<1>5. WrittenOnce'
  BY <1>1 DEF WrittenOnce
<1>6. OfThePast'
  <2>1. \A d \in Check : check'[d].at <= clock
    BY <1>1, <1>2, Naturals DEF OfThePast
  <2>2. \A d \in Check : pc'[d] \in {"advance", "report"} => Advances(d)'
    BY <1>1, <1>2 DEF OfThePast, Advances
  <2>3. cursor' <= clock
    BY <1>1 DEF OfThePast
  <2> QED
    BY <2>1, <2>2, <2>3 DEF OfThePast
<1>7. IntervalIsKnown'
  <2> SUFFICES ASSUME NEW d \in Check \ {c}, NEW i \in Item, Underway(d)', NEW t \in Stamps(i),
                      t <= check[d].at, ~Settled(i, t)'
               PROVE  Due(d, i, t)'
    BY <1>2 DEF IntervalIsKnown, Stamps, Underway
  <2>1. Underway(d) /\ pc'[d] = pc[d]
    BY <1>2 DEF Underway
  <2>2. Due(d, i, t)
    BY <1>1, <1>2, <1>4, <2>1 DEF IntervalIsKnown
  <2>3. StagesTo(d, i)' = StagesTo(d, i)
    BY <1>2 DEF StagesTo, Old
  <2> QED
    BY <1>2, <2>1, <2>2, <2>3 DEF Due
<1>8. PassedIsSettled'
  <2> SUFFICES ASSUME NEW i \in Item, NEW t \in Stamps(i), t <= cursor'
               PROVE  Settled(i, t)'
    BY DEF PassedIsSettled, Stamps
  <2>1. CASE cursor' = cursor
    BY <1>1, <1>4, <2>1 DEF PassedIsSettled
  <2>2. CASE cursor' = check[c].at /\ Reports(c) /\ ~Comparable(c)
    <3>1. t <= baseline'
      BY <1>1, <2>2, Naturals DEF Reports, Stamps
    <3> QED
      BY <3>1 DEF Settled
  <2>3. CASE cursor' = check[c].at /\ Reports(c) /\ Comparable(c) /\ pc[c] = "report"
    <3>1. Underway(c)
      BY <1>1, <2>3 DEF Underway, OfThePast, Advances, Comparable
    <3>2. Settled(i, t) \/ Due(c, i, t)
      BY <1>1, <2>3, <3>1 DEF IntervalIsKnown
    <3>3. ASSUME Due(c, i, t)
          PROVE  Settled(i, t)'
      <4>1. <<i, t>> \in counted[c] \cup missed[c]
        BY <2>3, <3>3 DEF Due, StagesTo
      <4>2. shown' = shown \cup {<<w, c>> : w \in counted[c]} /\ passed' = passed \cup missed[c]
        BY <2>3 DEF Reports
      <4> QED
        BY <4>1, <4>2 DEF Settled
    <3> QED
      BY <1>4, <3>2, <3>3
  <2> QED
    BY <2>1, <2>2, <2>3
<1> QED
  BY <1>5, <1>6, <1>7, <1>8 DEF Kept

LEMMA EndKeeps ==
  ASSUME TimeAssumption, CInv, NEW c \in Check,
         WriteCursor(c) \/ Fail(c) \/ (CountAlerts(c) /\ Finish(c))
  PROVE  Kept'
<1>1. CASE WriteCursor(c)
  BY <1>1, FinishKeeps DEF WriteCursor, Marked, records, history
<1>2. CASE Fail(c)
  BY <1>2, FinishKeeps DEF Fail, records, history
<1>3. CASE CountAlerts(c) /\ Finish(c)
  BY <1>3, FinishKeeps DEF CountAlerts, records, history
<1> QED
  BY <1>1, <1>2, <1>3

-----------------------------------------------------------------------------

LEMMA CInvStep ==
  ASSUME TimeAssumption, ItemAssumption, CInv, [Next]_vars
  PROVE  CInv'
<1>1. TypeOK'
  BY TypeStep DEF CInv
<1>2. Kept'
  <2>1. CASE UNCHANGED vars
    <3>1. UNCHANGED <<clock, writing, created, updated, cursor, pc, check, counted, missed, shown,
                      passed, baseline>>
      BY <2>1 DEF vars, records, counts, history
    <3> QED
      BY <3>1 DEF CInv, Kept, WrittenOnce, OfThePast, Advances, PassedIsSettled, IntervalIsKnown,
                  Underway, Stamps, Settled, Due, StagesTo, Old
  <2>2. CASE \E i \in Item : Stamp(i) \/ Commit(i)
    BY <2>2, StampKeeps, CommitKeeps
  <2>3. CASE \E c \in Check : Report(c)
    <3>1. \A c \in Check : Finish(c) /\ (CountNew(c) \/ CountUpdated(c) \/ CountAnalyses(c)) => FALSE
      BY DEF CInv, CountNew, CountUpdated, CountAnalyses, Finish, Goto, TypeOK
    <3> QED
      BY <2>3, <3>1, AskKeeps, ReferKeeps, CountKeeps, ReadKeeps, EndKeeps DEF Report
  <2> QED
    BY <2>1, <2>2, <2>3 DEF Next
<1> QED
  BY <1>1, <1>2 DEF CInv, Kept

\* Every write behind an analyst's cursor is of the time before a baseline, or was reported
\* by a check that moved the cursor, or that check's query of its kind ran before it was
\* committed or filtered it out.
THEOREM NothingSlipsBehindTheCursor ==
  ASSUME TimeAssumption, ItemAssumption
  PROVE  Spec => []NothingSlips
<1>1. Init => CInv
  BY InitCInv
<1>2. CInv /\ [Next]_vars => CInv'
  BY CInvStep
<1>3. CInv => NothingSlips
  BY Naturals DEF CInv, PassedIsSettled, Stamps, Settled, NothingSlips, Behind, Shown, Write
<1> QED
  BY <1>1, <1>2, <1>3, PTL DEF Spec

\* The type invariant of ChangeReport.
THEOREM TypeCorrect ==
  ASSUME TimeAssumption
  PROVE  Spec => []TypeOK
<1>1. Init => TypeOK
  BY InitTyped
<1>2. TypeOK /\ [Next]_vars => TypeOK'
  BY TypeStep
<1> QED
  BY <1>1, <1>2, PTL DEF Spec

-----------------------------------------------------------------------------
(* Checks that do not overlap.                                             *)

Busy(c) == pc[c] \notin {"new", "over"}

\* One check at a time, which sampled the clock after the one that wrote the cursor.
OneAtATime ==
    /\ \A c, d \in Check : Busy(c) /\ Busy(d) => c = d
    /\ \A c \in Check : Busy(c) => cursor < check[c].at

LEMMA SerialStep ==
  ASSUME TimeAssumption, ~Overlapping, CInv, OneAtATime, [Next]_vars
  PROVE  OneAtATime' /\ cursor' >= cursor
<1>1. TypeOK /\ OfThePast
  BY DEF CInv
<1>2. \A c \in Check : /\ check[c].at \in Nat /\ check[c].mark \in Nat
                       /\ cursor \in Nat /\ clock \in Nat
  BY <1>1, Naturals
<1>3. CASE UNCHANGED <<cursor, pc, check>>
  <2>1. cursor \in Nat
    BY <1>1, Naturals
  <2> QED
    BY <1>3, <2>1 DEF OneAtATime, Busy
<1>4. ASSUME NEW c \in Check, Ask(c)
      PROVE  OneAtATime' /\ cursor' >= cursor
  <2>1. \A d \in Check : ~Busy(d)
    BY <1>4 DEF Ask, Busy
  <2>2. cursor' = cursor /\ check'[c].at = clock + 1
    BY <1>1, <1>4 DEF Ask, TypeOK
  <2>3. \A d \in Check \ {c} : ~Busy(d)'
    BY <1>1, <1>4, <2>1 DEF Ask, Goto, Busy, TypeOK
  <2> QED
    BY <1>1, <1>2, <2>2, <2>3 DEF OneAtATime, OfThePast
<1>5. ASSUME NEW c \in Check, Refer(c) \/ ReadCursor(c) \/ CountNew(c) \/ CountUpdated(c)
                              \/ CountAnalyses(c) \/ CountAlerts(c), ~Finish(c)
      PROVE  OneAtATime' /\ cursor' >= cursor
  <2>1. cursor' = cursor /\ Busy(c)
    BY <1>5 DEF Refer, CountNew, CountUpdated, CountAnalyses, CountAlerts, ReadCursor, Busy
  <2>2. \A d \in Check : check'[d].at = check[d].at
    <3>1. CASE Refer(c)
      BY <1>1, <3>1, ReferFrame
    <3>2. CASE ReadCursor(c)
      BY <1>1, <3>2 DEF ReadCursor, TypeOK
    <3> QED
      BY <1>1, <1>5, <3>1, <3>2, CountFrame
  <2>3. \A d \in Check \ {c} : pc'[d] = pc[d]
    BY <1>1, <1>5 DEF Refer, CountNew, CountUpdated, CountAnalyses, CountAlerts, ReadCursor, Goto,
                      TypeOK
  <2> QED
    BY <1>2, <2>1, <2>2, <2>3 DEF OneAtATime, Busy
<1>6. ASSUME NEW c \in Check, Finish(c), Busy(c), cursor' = cursor \/ cursor' = check[c].at
      PROVE  OneAtATime' /\ cursor' >= cursor
  <2>1. \A d \in Check : ~Busy(d)'
    BY <1>1, <1>6, FinishFrame DEF Busy, OneAtATime
  <2> QED
    BY <1>2, <1>6, <2>1 DEF OneAtATime
<1>7. CASE \E i \in Item : Stamp(i) \/ Commit(i)
  BY <1>3, <1>7 DEF Stamp, Commit
<1>8. ASSUME NEW c \in Check, WriteCursor(c) \/ Fail(c) \/ (CountAlerts(c) /\ Finish(c))
      PROVE  OneAtATime' /\ cursor' >= cursor
  <2>1. Finish(c) /\ Busy(c) /\ (cursor' = cursor \/ cursor' = check[c].at)
    BY <1>8 DEF WriteCursor, Fail, CountAlerts, Marked, Busy
  <2> QED
    BY <1>6, <2>1
<1>9. \A c \in Check : Finish(c) /\ (Refer(c) \/ ReadCursor(c) \/ CountNew(c) \/ CountUpdated(c)
                                     \/ CountAnalyses(c)) => FALSE
  BY <1>1 DEF Refer, ReadCursor, CountNew, CountUpdated, CountAnalyses, Finish, Goto, TypeOK
<1> QED
  BY <1>3, <1>4, <1>5, <1>7, <1>8, <1>9 DEF Next, Report, vars

\* Where the checks of an analyst do not overlap, none of them rewinds the mark: that they
\* may overlap is the only reason why the code's comparison does not ensure it.
THEOREM SerialChecksKeepTheMark ==
  ASSUME TimeAssumption, ItemAssumption, ~Overlapping
  PROVE  Spec => MarkIsMonotonic
<1>1. Init => CInv /\ OneAtATime
  BY InitCInv DEF Init, OneAtATime, Busy
<1>2. CInv /\ OneAtATime /\ [Next]_vars => (CInv /\ OneAtATime)'
  BY CInvStep, SerialStep
<1>3. CInv /\ OneAtATime /\ [Next]_vars => [cursor' >= cursor]_vars
  BY SerialStep
<1> QED
  BY <1>1, <1>2, <1>3, PTL DEF Spec, MarkIsMonotonic
=============================================================================
