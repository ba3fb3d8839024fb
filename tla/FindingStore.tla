----------------------------- MODULE FindingStore -----------------------------
(***************************************************************************)
(* One row of soc_findings under concurrent writers.  A writer is a triage *)
(* (the ingestion cycle, or an analyst's request): it looks whether the    *)
(* finding is known, upserts it under the lock of its row, and announces   *)
(* it when it was not.  A reviewer files feedback, which may change the    *)
(* status of the row without having locked it.  An alert is its timestamp, *)
(* a group of alerts the finding they were correlated into.                *)
(***************************************************************************)
EXTENDS Integers, FiniteSets, FiniteSetsExt

CONSTANTS Writer,     \* bound: triage runs that meet this finding
          Reviewer,   \* bound: feedback requests
          Alert,      \* timestamps of alerts of the finding
          RefLimit,   \* MAX_EVIDENCE_REFS_PER_FINDING
          Org,        \* organizations
          Verdict,    \* what the analyzer can say
          None

AlertAssumption == IsFiniteSet(Alert) /\ Alert \subseteq Nat /\ 1 \in Alert
LimitAssumption == RefLimit \in Nat \ {0}
NoneAssumption == None \notin Org \cup Verdict \cup Writer

VARIABLES
    row,       \* the record, or NoRow
    lock,      \* the writer whose transaction holds the row
    pc,        \* of a writer: "new", "known", "held", "upserted" or "over"
    work,      \* what a writer brings, and what it has read
    review,    \* of a reviewer: its progress, what it read and what it found
    feedback,  \* reviewers whose feedback is stored
    covered,   \* alerts the committed upserts were about
    changes,   \* committed changes of the row
    touches,   \* how often its updated_at was set
    notices    \* announcements of a new finding

vars == <<row, lock, pc, work, review, feedback, covered, changes, touches, notices>>

Status == {"open", "false_positive", "investigating", "resolved"}
Disposition == {"confirmed_benign", "confirmed_malicious", "duplicate_incident", "needs_more_evidence"}

NoRow == [exists |-> FALSE, org |-> None, refs |-> {}, count |-> 0, last |-> 0,
          verdict |-> None, status |-> "open", version |-> 0, form |-> "dumped"]
NoWork == [org |-> None, group |-> {}, verdict |-> None, known |-> FALSE, saw |-> NoRow]
NoReview == [pc |-> "new", found |-> "needs_more_evidence", saw |-> NoRow]

Init ==
    /\ row = NoRow /\ lock = None
    /\ pc = [w \in Writer |-> "new"] /\ work = [w \in Writer |-> NoWork]
    /\ review = [r \in Reviewer |-> NoReview]
    /\ feedback = {} /\ covered = {} /\ changes = 0 /\ touches = 0 /\ notices = 0

-----------------------------------------------------------------------------
(* Triage.                                                                 *)

\* The oldest alerts of a group are cited, up to the limit.
Cited(G) == {a \in G : Cardinality({b \in G : b < a}) < RefLimit}
Newest(G) == Max(G)

\* A search finds some alerts of the group; its first alert gives the finding its name.
Look(w) ==
    /\ pc[w] = "new" /\ pc' = [pc EXCEPT ![w] = "known"]
    /\ \E o \in Org, G \in SUBSET (Alert \ {1}), v \in Verdict :
          work' = [work EXCEPT ![w] =
                     [org |-> o, group |-> G \cup {1}, verdict |-> v,
                      known |-> row.exists /\ row.org = o, saw |-> NoRow]]
    /\ UNCHANGED <<row, lock, review, feedback, covered, changes, touches, notices>>

Unlocked_Plain == TRUE \* a plain SELECT
Unlocked == lock = None

\* SELECT ... FOR UPDATE waits for the row; where there is no row it locks nothing.
Lock(w) ==
    /\ pc[w] = "known" /\ Unlocked
    /\ work' = [work EXCEPT ![w].saw = row]
    /\ lock' = IF row.exists THEN w ELSE None
    /\ pc' = [pc EXCEPT ![w] = "held"]
    /\ UNCHANGED <<row, review, feedback, covered, changes, touches, notices>>

Created(k) ==
    [exists |-> TRUE, org |-> k.org, refs |-> Cited(k.group), count |-> Cardinality(k.group),
     last |-> Newest(k.group), verdict |-> k.verdict, status |-> "open", version |-> 1,
     form |-> "dumped"]

Changed(k, r) ==
    \/ Cited(k.group) \ r.refs # {}
    \/ Newest(k.group) > r.last
    \/ k.verdict # r.verdict

Merged_CountsAgain(k, r) ==
    [r EXCEPT !.refs = @ \cup Cited(k.group), !.count = @ + Cardinality(k.group),
              !.version = @ + 1]

Merged(k, r) ==
    [r EXCEPT !.refs = @ \cup Cited(k.group),
              !.count = @ + Cardinality(Cited(k.group) \ r.refs),
              !.last = Max({@, Newest(k.group)}),
              !.verdict = k.verdict,
              !.version = IF Changed(k, r) THEN @ + 1 ELSE @,
              !.form = "merged"]

\* The times in the finding's document are written as pydantic dumps them on insert and
\* with isoformat on a merge; a row that differs is updated, and its updated_at with it.
Touched(k, r) == Changed(k, r) \/ r.form = "dumped"

Finishes(w, p) == pc' = [pc EXCEPT ![w] = p] /\ lock' = IF lock = w THEN None ELSE lock

\* The first insert wins; the key of the table refuses the second.
Insert(w) ==
    /\ pc[w] = "held" /\ ~work[w].saw.exists
    /\ IF row.exists
       THEN Finishes(w, "over") /\ UNCHANGED <<row, covered, changes, touches>>
       ELSE /\ row' = Created(work[w]) /\ Finishes(w, "upserted")
            /\ covered' = covered \cup work[w].group /\ changes' = changes + 1
            /\ touches' = touches + 1
    /\ UNCHANGED <<work, review, feedback, notices>>

Update(w) ==
    /\ pc[w] = "held" /\ work[w].saw.exists /\ work[w].saw.org = work[w].org
    /\ row' = Merged(work[w], work[w].saw) /\ Finishes(w, "upserted")
    /\ covered' = covered \cup work[w].group
    /\ changes' = IF Changed(work[w], work[w].saw) THEN changes + 1 ELSE changes
    /\ touches' = IF Touched(work[w], work[w].saw) THEN touches + 1 ELSE touches
    /\ UNCHANGED <<work, review, feedback, notices>>

\* FindingOwnershipError
Refuse(w) ==
    /\ pc[w] = "held" /\ work[w].saw.exists /\ work[w].saw.org # work[w].org
    /\ Finishes(w, "over")
    /\ UNCHANGED <<row, work, review, feedback, covered, changes, touches, notices>>

IsNew(w) == ~work[w].known

\* What was not there when the triage looked is announced.
Announce(w) ==
    /\ pc[w] = "upserted" /\ pc' = [pc EXCEPT ![w] = "over"]
    /\ notices' = IF IsNew(w) THEN notices + 1 ELSE notices
    /\ UNCHANGED <<row, lock, work, review, feedback, covered, changes, touches>>

-----------------------------------------------------------------------------
(* Feedback.                                                               *)

StatusFor_Disposition(d, s) == d

StatusFor(d, s) ==
    CASE d = "confirmed_benign"    -> "false_positive"
      [] d = "confirmed_malicious" -> "investigating"
      [] d = "duplicate_incident"  -> "resolved"
      [] OTHER                     -> s

\* A plain read, which waits for nobody.
ReadRow(r) ==
    /\ review[r].pc = "new" /\ row.exists
    /\ \E d \in Disposition :
          review' = [review EXCEPT ![r] = [pc |-> "read", found |-> d, saw |-> row]]
    /\ UNCHANGED <<row, lock, pc, work, feedback, covered, changes, touches, notices>>

Reviewed(d, s, r) ==
    IF StatusFor(d, s.status) = s.status THEN r
    ELSE [r EXCEPT !.status = StatusFor(d, s.status), !.version = s.version + 1]

\* The columns that changed are written over the row as it is by now.
File(r) ==
    /\ review[r].pc = "read"
    /\ review' = [review EXCEPT ![r].pc = "filed"]
    /\ feedback' = feedback \cup {r}
    /\ LET d == review[r].found  s == review[r].saw IN
          /\ StatusFor(d, s.status) # s.status => Unlocked
          /\ row' = Reviewed(d, s, row)
          /\ IF StatusFor(d, s.status) = s.status THEN UNCHANGED <<changes, touches>>
             ELSE changes' = changes + 1 /\ touches' = touches + 1
    /\ UNCHANGED <<lock, pc, work, covered, notices>>

-----------------------------------------------------------------------------

Triage(w) == Look(w) \/ Lock(w) \/ Insert(w) \/ Update(w) \/ Refuse(w) \/ Announce(w)
Review(r) == ReadRow(r) \/ File(r)

Next == (\E w \in Writer : Triage(w)) \/ (\E r \in Reviewer : Review(r))

Spec == Init /\ [][Next]_vars

-----------------------------------------------------------------------------
(* Properties.                                                             *)

Rows ==
    [exists : BOOLEAN, org : Org \cup {None}, refs : SUBSET Alert, count : Nat,
     last : Alert \cup {0}, verdict : Verdict \cup {None}, status : Status, version : Nat,
     form : {"dumped", "merged"}]

\* Every variable has its type.
TypeOK ==
    /\ row \in Rows /\ lock \in Writer \cup {None}
    /\ pc \in [Writer -> {"new", "known", "held", "upserted", "over"}]
    /\ work \in [Writer -> [org : Org \cup {None}, group : SUBSET Alert,
                            verdict : Verdict \cup {None}, known : BOOLEAN, saw : Rows]]
    /\ review \in [Reviewer -> [pc : {"new", "read", "filed"}, found : Disposition, saw : Rows]]
    /\ feedback \subseteq Reviewer /\ covered \subseteq Alert
    /\ changes \in Nat /\ touches \in Nat /\ notices \in Nat

\* Whatever the order of the transactions, evidence a committed upsert cited stays
\* cited, and none of it comes from a triage that was refused.
EvidenceIsKept == Cited(covered) \subseteq row.refs /\ row.refs \subseteq covered

\* alert_count is the number of alerts the finding was built from, however their
\* groups overlap and whoever counts them first.
CountIsOfAlerts == row.count = Cardinality(covered)

\* The row of a finding says what its alerts say, after any overlap of triages and reviews.
FindingIsOfItsAlerts == EvidenceIsKept /\ CountIsOfAlerts

\* The version moves once with every change of the row.
VersionCountsChanges == row.version = changes

\* updated_at moves only with a change of the row: a repeated upsert leaves it alone.
StampMovesWithChanges == touches = changes

\* A finding is announced once.
NoticeIsSentOnce == notices <= 1
=============================================================================
