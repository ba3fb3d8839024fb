------------------------- MODULE FindingStore_proofs -------------------------
(***************************************************************************)
(* What holds of the row of a finding for any number of triages and        *)
(* reviews, in any order of their transactions.                            *)
(***************************************************************************)
EXTENDS FindingStore, FiniteSetTheorems, WellFoundedInduction, TLAPS

-----------------------------------------------------------------------------
(* Groups of alerts.                                                       *)

\* A finite set of numbers that is not empty has a greatest element.
LEMMA MaxIsGreatest ==
  ASSUME NEW S \in SUBSET Int, IsFiniteSet(S), S # {}
  PROVE  Max(S) \in S /\ \A y \in S : Max(S) >= y
<1> DEFINE Above(x) == {y \in S : y >= x}
           F == {Above(x) : x \in S}
<1>1. F \subseteq FiniteSubsetsOf(S) /\ F # {}
  <2>1. \A x \in S : Above(x) \in SUBSET S /\ IsFiniteSet(Above(x))
    BY FS_Subset
  <2> QED
    BY <2>1 DEF FiniteSubsetsOf
<1>2. \E T \in F : \A U \in F : ~(<<U, T>> \in StrictSubsetOrdering(S))
  <2> HIDE DEF F
  <2> QED
    BY <1>1, FS_StrictSubsetOrderingWellFounded, WFMin
<1>3. PICK x \in S : \A z \in S : ~(<<Above(z), Above(x)>> \in StrictSubsetOrdering(S))
  BY <1>2
<1>4. \A z \in S : x >= z
  <2> SUFFICES ASSUME NEW z \in S, ~(x >= z)
               PROVE  FALSE
    OBVIOUS
  <2>1. x \in Int /\ z \in Int /\ z > x
    OBVIOUS
  <2>1a. \A y \in S : y \in Int
    OBVIOUS
  <2>1b. Above(z) \subseteq Above(x) /\ x \in Above(x) /\ x \notin Above(z)
    <3>1. \A y \in S : y >= z => y >= x
      BY <2>1, <2>1a
    <3>2. x >= x /\ ~(x >= z)
      BY <2>1
    <3> QED
      BY <3>1, <3>2
  <2>1c. Above(z) \in SUBSET S /\ Above(x) \in SUBSET S
    OBVIOUS
  <2>2. <<Above(z), Above(x)>> \in StrictSubsetOrdering(S)
    <3> HIDE DEF Above
    <3> QED
      BY <2>1b, <2>1c DEF StrictSubsetOrdering
  <2> QED
    BY <1>3, <2>2
<1> QED
  BY <1>4 DEF Max

LEMMA AlertsAreFinite ==
  ASSUME AlertAssumption, NEW G \in SUBSET Alert
  PROVE  IsFiniteSet(G) /\ Cardinality(G) \in Nat
  BY FS_Subset, FS_CardinalityType DEF AlertAssumption

\* What a group cites of a part of it, the part cites as well.
LEMMA PartCites ==
  ASSUME AlertAssumption, LimitAssumption,
         NEW H \in SUBSET Alert, NEW G \in SUBSET H, NEW a \in G, a \in Cited(H)
  PROVE  a \in Cited(G)
<1>1. {b \in G : b < a} \in SUBSET {b \in H : b < a}
  OBVIOUS
<1>2. IsFiniteSet({b \in H : b < a}) /\ {b \in H : b < a} \in SUBSET Alert
      /\ {b \in G : b < a} \in SUBSET Alert
  BY AlertsAreFinite
<1>3. Cardinality({b \in G : b < a}) <= Cardinality({b \in H : b < a})
  BY <1>1, <1>2, FS_Subset
<1>4. Cardinality({b \in G : b < a}) \in Nat /\ Cardinality({b \in H : b < a}) \in Nat
  BY <1>2, AlertsAreFinite
<1>5. Cardinality({b \in H : b < a}) < RefLimit
  BY DEF Cited
<1> QED
  BY <1>3, <1>4, <1>5 DEF Cited, LimitAssumption

\* Where as many references fit as there are alerts, a group cites all of its alerts.
LimitCoversAlerts == Cardinality(Alert) <= RefLimit

LEMMA AllAreCited ==
  ASSUME AlertAssumption, LimitAssumption, LimitCoversAlerts, NEW G \in SUBSET Alert
  PROVE  Cited(G) = G
<1> SUFFICES ASSUME NEW a \in G
             PROVE  Cardinality({b \in G : b < a}) < RefLimit
  BY DEF Cited
<1> DEFINE B == {b \in G : b < a}
<1>0. a \in Nat
  BY DEF AlertAssumption
<1>1. B \in SUBSET Alert /\ a \in Alert /\ a \notin B
  <2>1. ~(a < a)
    BY <1>0
  <2> QED
    BY <2>1
<1>2. Cardinality(B) \in Nat /\ Cardinality(Alert) \in Nat
  <2> HIDE DEF B
  <2> QED
    BY <1>1, AlertsAreFinite
<1>3. Cardinality(B) <= Cardinality(Alert) /\ Cardinality(Alert) # Cardinality(B)
  <2>1. IsFiniteSet(Alert)
    BY DEF AlertAssumption
  <2> HIDE DEF B
  <2> QED
    BY <1>1, <2>1, FS_Subset
<1> QED
  BY <1>2, <1>3 DEF LimitCoversAlerts, LimitAssumption

-----------------------------------------------------------------------------
(* Types.                                                                  *)

Work == [org : Org \cup {None}, group : SUBSET Alert, verdict : Verdict \cup {None},
         known : BOOLEAN, saw : Rows]
Feedback == [pc : {"new", "read", "filed"}, found : Disposition, saw : Rows]

\* A triage that has looked knows its organization and its group.
Looked(w) == work[w].group # {} /\ work[w].org \in Org /\ work[w].verdict \in Verdict

StoreTyped ==
    /\ TypeOK
    /\ \A w \in Writer : pc[w] # "new" => Looked(w)

LEMMA NoRowTyped ==
  NoRow \in Rows /\ NoRow.exists = FALSE /\ NoRow.refs = {} /\ NoRow.count = 0
  BY DEF NoRow, Rows, Status

LEMMA NewestTyped ==
  ASSUME AlertAssumption, NEW G \in SUBSET Alert, G # {}
  PROVE  Newest(G) \in Alert
<1>1. G \in SUBSET Int /\ IsFiniteSet(G)
  BY AlertsAreFinite DEF AlertAssumption
<1> QED
  BY <1>1, MaxIsGreatest DEF Newest

LEMMA CountTyped ==
  ASSUME AlertAssumption, NEW G \in SUBSET Alert, NEW R
  PROVE  Cardinality(G) \in Nat /\ Cardinality(Cited(G) \ R) \in Nat /\ Cited(G) \in SUBSET G
<1>1. Cited(G) \in SUBSET G /\ Cited(G) \ R \in SUBSET Alert
  BY DEF Cited
<1> QED
  BY <1>1, AlertsAreFinite

LEMMA CreatedTyped ==
  ASSUME AlertAssumption, NEW k \in Work, k.group # {}
  PROVE  /\ Created(k) \in Rows /\ Created(k).exists
         /\ Created(k).refs = Cited(k.group) /\ Created(k).count = Cardinality(k.group)
<1>1. Newest(k.group) \in Alert /\ Cardinality(k.group) \in Nat /\ Cited(k.group) \in SUBSET Alert
  BY NewestTyped, CountTyped DEF Work
<1> QED
  BY <1>1 DEF Created, Rows, Work, Status

LEMMA LaterOfTwo ==
  ASSUME AlertAssumption, NEW a \in Alert \cup {0}, NEW b \in Alert \cup {0}
  PROVE  Max({a, b}) \in Alert \cup {0}
<1>1. a \in Int /\ b \in Int
  BY DEF AlertAssumption
<1>2. IsFiniteSet({a, b})
  <2>1. {a, b} = {a} \cup {b}
    OBVIOUS
  <2>2. IsFiniteSet({a}) /\ IsFiniteSet({b})
    BY FS_Singleton
  <2>3. IsFiniteSet({a} \cup {b})
    BY <2>2, FS_Union
  <2> QED
    BY <2>1, <2>3
<1>3. PICK S : S = {a, b}
  OBVIOUS
<1>4. Max(S) \in S
  <2>1. S \in SUBSET Int /\ S # {} /\ IsFiniteSet(S)
    BY <1>1, <1>2, <1>3
  <2> QED
    BY <2>1, MaxIsGreatest
<1> QED
  BY <1>3, <1>4

LEMMA MergedTyped ==
  ASSUME AlertAssumption, NEW k \in Work, k.group # {}, NEW r \in Rows
  PROVE  /\ Merged(k, r) \in Rows /\ Merged(k, r).exists = r.exists
         /\ Merged(k, r).refs = r.refs \cup Cited(k.group)
         /\ Merged(k, r).count = r.count + Cardinality(Cited(k.group) \ r.refs)
<1>1. /\ Newest(k.group) \in Alert /\ Cited(k.group) \in SUBSET Alert
      /\ Cardinality(Cited(k.group) \ r.refs) \in Nat
  BY NewestTyped, CountTyped DEF Work
<1>2. r.last \in Alert \cup {0} /\ r.count \in Nat /\ r.version \in Nat /\ r.refs \in SUBSET Alert
  BY DEF Rows
<1>2a. Max({r.last, Newest(k.group)}) \in Alert \cup {0}
  BY <1>1, <1>2, LaterOfTwo
<1>3. PICK m \in Alert \cup {0} : m = Max({r.last, Newest(k.group)})
  BY <1>2a
<1>3a. PICK f \in SUBSET Alert : f = r.refs \cup Cited(k.group)
  BY <1>1, <1>2
<1>3b. PICK c \in Nat : c = r.count + Cardinality(Cited(k.group) \ r.refs)
  BY <1>1, <1>2
<1>3c. PICK v \in Nat : v = IF Changed(k, r) THEN r.version + 1 ELSE r.version
  BY <1>2
<1>4. Merged(k, r) = [r EXCEPT !.refs = f, !.count = c, !.last = m, !.verdict = k.verdict,
                               !.version = v, !.form = "merged"]
  BY <1>3, <1>3a, <1>3b, <1>3c DEF Merged, Rows
<1>5. k.verdict \in Verdict \cup {None}
  BY DEF Work
<1> QED
  BY <1>3a, <1>3b, <1>4, <1>5 DEF Rows

LEMMA ReviewedTyped ==
  ASSUME NEW d \in Disposition, NEW s \in Rows, NEW r \in Rows
  PROVE  /\ Reviewed(d, s, r) \in Rows /\ Reviewed(d, s, r).exists = r.exists
         /\ Reviewed(d, s, r).refs = r.refs /\ Reviewed(d, s, r).count = r.count
         /\ StatusFor(d, s.status) = s.status => Reviewed(d, s, r) = r
<1>1. StatusFor(d, s.status) \in Status
  BY DEF StatusFor, Status, Disposition, Rows
<1>2. s.version + 1 \in Nat
  BY DEF Rows
<1> QED
  BY <1>1, <1>2 DEF Reviewed, Rows

LEMMA InitTyped ==
  ASSUME Init
  PROVE  StoreTyped
<1>1. NoWork \in Work /\ NoReview \in Feedback
  BY NoRowTyped DEF NoWork, NoReview, Work, Feedback, Disposition
<1>2. TypeOK
  BY <1>1, NoRowTyped DEF Init, TypeOK, Work, Feedback
<1> QED
  BY <1>2 DEF Init, StoreTyped

LEMMA SawSet ==
  ASSUME NEW k \in Work, NEW r \in Rows
  PROVE  LET n == [k EXCEPT !.saw = r]
         IN  /\ n \in Work /\ n.saw = r /\ n.group = k.group /\ n.org = k.org
             /\ n.verdict = k.verdict
  BY DEF Work

\* The transactions of a triage and of a review, as what they do to the row.
LEMMA LockDoes ==
  ASSUME StoreTyped, NEW w \in Writer, Lock(w)
  PROVE  \E n \in Work : /\ work' = [work EXCEPT ![w] = n] /\ n.saw = row
                         /\ n.group = work[w].group /\ n.org = work[w].org
                         /\ n.verdict = work[w].verdict
<1>1. work[w] \in Work /\ row \in Rows
  BY DEF StoreTyped, TypeOK, Work
<1> DEFINE n == [work[w] EXCEPT !.saw = row]
<1>2. n \in Work /\ n.saw = row /\ n.group = work[w].group /\ n.org = work[w].org
      /\ n.verdict = work[w].verdict
  BY <1>1, SawSet
<1>3. work' = [work EXCEPT ![w] = n]
  BY DEF Lock
<1> HIDE DEF n
<1> QED
  BY <1>2, <1>3

LEMMA LookDoes ==
  ASSUME AlertAssumption, StoreTyped, NEW w \in Writer, Look(w)
  PROVE  \E n \in Work : /\ work' = [work EXCEPT ![w] = n] /\ n.saw = NoRow
                         /\ n.group # {} /\ n.org \in Org /\ n.verdict \in Verdict
<1>1. PICK o \in Org, G \in SUBSET (Alert \ {1}), v \in Verdict :
        work' = [work EXCEPT ![w] =
                   [org |-> o, group |-> G \cup {1}, verdict |-> v,
                    known |-> row.exists /\ row.org = o, saw |-> NoRow]]
  BY DEF Look
<1>2. PICK b \in BOOLEAN : b = (row.exists /\ row.org = o)
  OBVIOUS
<1>3. PICK n : n = [org |-> o, group |-> G \cup {1}, verdict |-> v, known |-> b, saw |-> NoRow]
  OBVIOUS
<1>4. work' = [work EXCEPT ![w] = n]
  BY <1>1, <1>2, <1>3
<1>5. n.saw = NoRow /\ n.group # {} /\ n.org \in Org /\ n.verdict \in Verdict
  BY <1>3
<1>6. n \in Work
  BY <1>3, NoRowTyped DEF Work, AlertAssumption
<1> QED
  BY <1>4, <1>5, <1>6

LEMMA TypesStep ==
  ASSUME AlertAssumption, StoreTyped, [Next]_vars
  PROVE  StoreTyped'
<1> DEFINE Pc == {"new", "known", "held", "upserted", "over"}
<1>1. /\ row \in Rows /\ lock \in Writer \cup {None} /\ pc \in [Writer -> Pc]
      /\ work \in [Writer -> Work] /\ review \in [Reviewer -> Feedback]
      /\ feedback \subseteq Reviewer /\ covered \subseteq Alert
      /\ changes \in Nat /\ touches \in Nat /\ notices \in Nat
      /\ \A w \in Writer : pc[w] # "new" => Looked(w)
  BY DEF StoreTyped, TypeOK, Work, Feedback
<1> DEFINE Typed == /\ row \in Rows /\ lock \in Writer \cup {None} /\ pc \in [Writer -> Pc]
                    /\ work \in [Writer -> Work] /\ review \in [Reviewer -> Feedback]
                    /\ feedback \subseteq Reviewer /\ covered \subseteq Alert
                    /\ changes \in Nat /\ touches \in Nat /\ notices \in Nat
                    /\ \A w \in Writer : pc[w] # "new" => Looked(w)
<1> SUFFICES Typed'
  BY DEF StoreTyped, TypeOK, Work, Feedback
<1>2. ASSUME NEW w \in Writer, Look(w)
      PROVE  Typed'
  <2>1. PICK n \in Work : /\ work' = [work EXCEPT ![w] = n]
                          /\ n.group # {} /\ n.org \in Org /\ n.verdict \in Verdict
    BY <1>2, LookDoes
  <2>2. pc' = [pc EXCEPT ![w] = "known"]
        /\ UNCHANGED <<row, lock, review, feedback, covered, changes, touches, notices>>
    BY <1>2 DEF Look
  <2>3. work' \in [Writer -> Work] /\ work'[w] = n /\ \A v \in Writer \ {w} : work'[v] = work[v]
    BY <1>1, <2>1
  <2>4. pc' \in [Writer -> Pc] /\ \A v \in Writer \ {w} : pc'[v] = pc[v]
    BY <1>1, <2>2
  <2>5. \A v \in Writer : pc'[v] # "new" => Looked(v)'
    BY <1>1, <2>1, <2>3, <2>4 DEF Looked
  <2> QED
    BY <1>1, <2>2, <2>3, <2>4, <2>5
<1>3. ASSUME NEW w \in Writer, Lock(w)
      PROVE  Typed'
  <2>1. PICK n \in Work : /\ work' = [work EXCEPT ![w] = n] /\ n.group = work[w].group
                          /\ n.org = work[w].org /\ n.verdict = work[w].verdict
    BY <1>3, LockDoes
  <2>2. /\ pc' = [pc EXCEPT ![w] = "held"] /\ pc[w] = "known"
        /\ UNCHANGED <<row, review, feedback, covered, changes, touches, notices>>
        /\ (lock' = w \/ lock' = None)
    BY <1>3 DEF Lock
  <2>3. work' \in [Writer -> Work] /\ work'[w] = n /\ \A v \in Writer \ {w} : work'[v] = work[v]
    BY <1>1, <2>1
  <2>4. pc' \in [Writer -> Pc] /\ \A v \in Writer \ {w} : pc'[v] = pc[v]
    BY <1>1, <2>2
  <2>5. \A v \in Writer : pc'[v] # "new" => Looked(v)'
    BY <1>1, <2>1, <2>2, <2>3, <2>4 DEF Looked
  <2> QED
    BY <1>1, <2>2, <2>3, <2>4, <2>5
<1>4. ASSUME NEW w \in Writer, Insert(w) \/ Update(w) \/ Refuse(w)
      PROVE  Typed'
  <2>1. work[w] \in Work /\ work[w].group # {} /\ work[w].saw \in Rows
    BY <1>1, <1>4 DEF Insert, Update, Refuse, Looked, Work
  <2>2. Created(work[w]) \in Rows /\ Merged(work[w], work[w].saw) \in Rows
    BY <2>1, CreatedTyped, MergedTyped
  <2>3. pc' \in [Writer -> Pc] /\ lock' \in Writer \cup {None} /\ pc[w] = "held"
    BY <1>1, <1>4 DEF Insert, Update, Refuse, Finishes
  <2>4. UNCHANGED <<work, review, feedback, notices>> /\ \A v \in Writer : pc'[v] # "new" => pc[v] # "new"
    BY <1>1, <1>4 DEF Insert, Update, Refuse, Finishes
  <2>5. row' \in Rows /\ covered' \subseteq Alert /\ changes' \in Nat /\ touches' \in Nat
    BY <1>1, <1>4, <2>1, <2>2 DEF Insert, Update, Refuse, Work
  <2> QED
    BY <1>1, <2>3, <2>4, <2>5 DEF Looked
<1>5. ASSUME NEW w \in Writer, Announce(w)
      PROVE  Typed'
  BY <1>1, <1>5 DEF Announce, Looked
<1>6. ASSUME NEW r \in Reviewer, ReadRow(r)
      PROVE  Typed'
  <2>1. PICK d \in Disposition : review' = [review EXCEPT ![r] = [pc |-> "read", found |-> d, saw |-> row]]
    BY <1>6 DEF ReadRow
  <2>2. [pc |-> "read", found |-> d, saw |-> row] \in Feedback
    BY <1>1 DEF Feedback
  <2> QED
    BY <1>1, <1>6, <2>1, <2>2 DEF ReadRow, Looked
<1>7. ASSUME NEW r \in Reviewer, File(r)
      PROVE  Typed'
  <2>1. row' \in Rows
    BY <1>1, <1>7, ReviewedTyped DEF File, Feedback
  <2>2. review' \in [Reviewer -> Feedback]
    BY <1>1, <1>7 DEF File, Feedback
  <2> QED
    BY <1>1, <1>7, <2>1, <2>2 DEF File, Looked
<1>8. CASE UNCHANGED vars
  BY <1>1, <1>8 DEF vars, Looked
<1> QED
  BY <1>2, <1>3, <1>4, <1>5, <1>6, <1>7, <1>8 DEF Next, Triage, Review

-----------------------------------------------------------------------------
(* The row and its alerts.                                                 *)

\* A triage that holds the row holds what the row says; a finding that is not there has
\* no evidence and no reviewer.
HeldIsCurrent ==
    \A w \in Writer : pc[w] = "held" /\ work[w].saw.exists => lock = w /\ work[w].saw = row
RowIsThere ==
    /\ ~row.exists => row = NoRow /\ covered = {}
    /\ \A r \in Reviewer : review[r].pc = "read" => row.exists
RowsCount == LimitCoversAlerts => row.refs = covered /\ row.count = Cardinality(covered)

FInv == StoreTyped /\ HeldIsCurrent /\ RowIsThere /\ EvidenceIsKept /\ RowsCount

\* A committed upsert of a group over a row that is evidence of what it covers.
LEMMA UpsertKeepsEvidence ==
  ASSUME AlertAssumption, LimitAssumption,
         NEW C \in SUBSET Alert, NEW G \in SUBSET Alert, NEW R \in SUBSET Alert,
         Cited(C) \subseteq R, R \subseteq C
  PROVE  Cited(C \cup G) \subseteq R \cup Cited(G) /\ R \cup Cited(G) \subseteq C \cup G
<1>1. Cited(C \cup G) \subseteq R \cup Cited(G)
  <2> SUFFICES ASSUME NEW a \in Cited(C \cup G)
               PROVE  a \in Cited(C) \/ a \in Cited(G)
    OBVIOUS
  <2>1. a \in C \/ a \in G
    BY DEF Cited
  <2>2. C \cup G \in SUBSET Alert /\ C \in SUBSET (C \cup G) /\ G \in SUBSET (C \cup G)
    OBVIOUS
  <2> QED
    BY <2>1, <2>2, PartCites
<1>2. R \cup Cited(G) \subseteq C \cup G
  BY DEF Cited
<1> QED
  BY <1>1, <1>2

LEMMA UpsertKeepsCount ==
  ASSUME AlertAssumption, LimitAssumption, LimitCoversAlerts,
         NEW C \in SUBSET Alert, NEW G \in SUBSET Alert
  PROVE  /\ C \cup Cited(G) = C \cup G
         /\ Cardinality(C) + Cardinality(Cited(G) \ C) = Cardinality(C \cup G)
<1>1. Cited(G) = G
  BY AllAreCited
<1>2. IsFiniteSet(C) /\ IsFiniteSet(G \ C) /\ Cardinality(C) \in Nat
      /\ Cardinality(G \ C) \in Nat
  <2>1. G \ C \in SUBSET Alert
    OBVIOUS
  <2> QED
    BY <2>1, AlertsAreFinite
<1>3. C \cup G = C \cup (G \ C) /\ C \cap (G \ C) = {}
  OBVIOUS
<1>4. Cardinality(C \cup (G \ C)) = Cardinality(C) + Cardinality(G \ C) - Cardinality(C \cap (G \ C))
  BY <1>2, FS_Union
<1>5. Cardinality(C \cap (G \ C)) = 0
  BY <1>3, FS_EmptySet
<1>6. Cardinality(C \cup G) = Cardinality(C \cup (G \ C))
  BY <1>3
<1>7. Cardinality(C \cup G) = Cardinality(C) + Cardinality(G \ C)
  BY <1>2, <1>4, <1>5, <1>6
<1> QED
  BY <1>1, <1>7

LEMMA InitFInv ==
  ASSUME Init
  PROVE  FInv
<1>1. row = NoRow /\ covered = {} /\ \A w \in Writer : pc[w] = "new"
  BY DEF Init
<1>2. \A r \in Reviewer : review[r].pc = "new"
  BY DEF Init, NoReview
<1>3. Cited(covered) = {}
  BY <1>1 DEF Cited
<1> QED
  BY <1>1, <1>2, <1>3, InitTyped, NoRowTyped, FS_EmptySet
  DEF FInv, HeldIsCurrent, RowIsThere, EvidenceIsKept, RowsCount

LEMMA FInvStep ==
  ASSUME AlertAssumption, LimitAssumption, NoneAssumption, FInv, [Next]_vars
  PROVE  FInv'
<1>1. StoreTyped /\ StoreTyped'
  BY TypesStep DEF FInv
<1>2. /\ row \in Rows /\ pc \in [Writer -> {"new", "known", "held", "upserted", "over"}]
      /\ work \in [Writer -> Work] /\ review \in [Reviewer -> Feedback] /\ covered \in SUBSET Alert
  BY <1>1 DEF StoreTyped, TypeOK, Work, Feedback
<1> DEFINE Rest == HeldIsCurrent /\ RowIsThere /\ EvidenceIsKept /\ RowsCount
<1>3. Rest
  BY DEF FInv
<1> SUFFICES Rest'
  BY <1>1 DEF FInv
<1>4. ASSUME row' = row, covered' = covered
      PROVE  EvidenceIsKept' /\ RowsCount'
  BY <1>3, <1>4 DEF EvidenceIsKept, RowsCount, Cited
<1>5. ASSUME NEW w \in Writer, Look(w) \/ Announce(w) \/ Refuse(w)
      PROVE  Rest'
  <2>1. UNCHANGED <<row, review, covered>>
    BY <1>5 DEF Look, Announce, Refuse
  <2>2. \A v \in Writer : pc'[v] = "held" => pc[v] = "held" /\ v # w /\ work'[v] = work[v]
    BY <1>2, <1>5 DEF Look, Announce, Refuse, Finishes
  <2>3. lock' = lock \/ (lock = w /\ lock' = None)
    BY <1>5 DEF Look, Announce, Refuse, Finishes
  <2>4. HeldIsCurrent'
    BY <1>3, <2>1, <2>2, <2>3 DEF HeldIsCurrent
  <2>5. RowIsThere'
    BY <1>3, <2>1 DEF RowIsThere
  <2> QED
    BY <1>4, <2>1, <2>4, <2>5
<1>6. ASSUME NEW w \in Writer, Lock(w)
      PROVE  Rest'
  <2>1. PICK n \in Work : work' = [work EXCEPT ![w] = n] /\ n.saw = row
    BY <1>1, <1>6, LockDoes
  <2>2. /\ UNCHANGED <<row, review, covered>> /\ lock = None
        /\ lock' = IF row.exists THEN w ELSE None
        /\ pc' = [pc EXCEPT ![w] = "held"]
    BY <1>6 DEF Lock, Unlocked
  <2>3. work'[w].saw = row /\ \A v \in Writer \ {w} : work'[v] = work[v] /\ pc'[v] = pc[v]
    BY <1>2, <2>1, <2>2
  <2>4. \A v \in Writer : v # None
    BY DEF NoneAssumption
  <2>5. HeldIsCurrent'
    BY <1>3, <2>2, <2>3, <2>4 DEF HeldIsCurrent
  <2>6. RowIsThere'
    BY <1>3, <2>2 DEF RowIsThere
  <2> QED
    BY <1>4, <2>2, <2>5, <2>6
<1>7. ASSUME NEW w \in Writer, Insert(w)
      PROVE  Rest'
  <2>1. CASE row.exists
    <3>1. UNCHANGED <<row, work, review, covered>>
      BY <1>7, <2>1 DEF Insert
    <3>2. \A v \in Writer : pc'[v] = "held" => pc[v] = "held" /\ v # w
      BY <1>2, <1>7, <2>1 DEF Insert, Finishes
    <3>3. lock' = lock \/ (lock = w /\ lock' = None)
      BY <1>7, <2>1 DEF Insert, Finishes
    <3>4. HeldIsCurrent' /\ RowIsThere'
      BY <1>3, <3>1, <3>2, <3>3 DEF HeldIsCurrent, RowIsThere
    <3> QED
      BY <1>4, <3>1, <3>4
  <2>2. CASE ~row.exists
    <3>1. /\ row' = Created(work[w]) /\ covered' = covered \cup work[w].group
          /\ UNCHANGED <<work, review>>
      BY <1>7, <2>2 DEF Insert
    <3>2. work[w] \in Work /\ work[w].group # {} /\ work[w].group \in SUBSET Alert
      BY <1>1, <1>2, <1>7 DEF Insert, StoreTyped, Looked, Work
    <3>3. /\ row'.exists /\ row'.refs = Cited(work[w].group)
          /\ row'.count = Cardinality(work[w].group) /\ covered' = work[w].group
      BY <1>3, <2>2, <3>1, <3>2, CreatedTyped DEF RowIsThere
    <3>4. HeldIsCurrent'
      <4>1. \A v \in Writer : pc'[v] = "held" => pc[v] = "held"
        BY <1>2, <1>7, <2>2 DEF Insert, Finishes
      <4>2. \A v \in Writer : pc[v] = "held" => ~work[v].saw.exists
        BY <1>3, <2>2 DEF HeldIsCurrent
      <4> QED
        BY <3>1, <4>1, <4>2 DEF HeldIsCurrent
    <3>5. RowIsThere'
      BY <3>3 DEF RowIsThere
    <3>6. EvidenceIsKept'
      BY <3>3 DEF EvidenceIsKept, Cited
    <3>7. RowsCount'
      BY <3>2, <3>3, AllAreCited DEF RowsCount
    <3> QED
      BY <3>4, <3>5, <3>6, <3>7
  <2> QED
    BY <2>1, <2>2
<1>8. ASSUME NEW w \in Writer, Update(w)
      PROVE  Rest'
  <2>1. work[w].saw = row /\ lock = w /\ row.exists
    BY <1>3, <1>8 DEF Update, HeldIsCurrent
  <2>2. /\ row' = Merged(work[w], row) /\ covered' = covered \cup work[w].group
        /\ UNCHANGED <<work, review>>
    BY <1>8, <2>1 DEF Update
  <2>3. work[w] \in Work /\ work[w].group # {} /\ work[w].group \in SUBSET Alert
    BY <1>1, <1>2, <1>8 DEF Update, StoreTyped, Looked, Work
  <2>4. /\ row'.exists /\ row'.refs = row.refs \cup Cited(work[w].group)
        /\ row'.count = row.count + Cardinality(Cited(work[w].group) \ row.refs)
    <3>1. /\ Merged(work[w], row).exists = row.exists
          /\ Merged(work[w], row).refs = row.refs \cup Cited(work[w].group)
          /\ Merged(work[w], row).count = row.count + Cardinality(Cited(work[w].group) \ row.refs)
      BY <1>2, <2>3, MergedTyped
    <3> QED
      BY <2>1, <2>2, <3>1
  <2>5. row.count \in Nat
    BY <1>2 DEF Rows
  <2>6. EvidenceIsKept' /\ RowsCount'
    <3> DEFINE C == covered
               G == work[w].group
               R == row.refs
    <3>1. /\ C \in SUBSET Alert /\ G \in SUBSET Alert /\ R \in SUBSET Alert
          /\ Cited(C) \subseteq R /\ R \subseteq C
      BY <1>2, <1>3, <2>3 DEF EvidenceIsKept, Rows
    <3>2. row'.refs = R \cup Cited(G) /\ covered' = C \cup G
          /\ row'.count = row.count + Cardinality(Cited(G) \ R)
      BY <2>2, <2>4
    <3>3. LimitCoversAlerts => R = C /\ row.count = Cardinality(C)
      BY <1>3 DEF RowsCount
    <3> HIDE DEF C, G, R
    <3>4. Cited(C \cup G) \subseteq R \cup Cited(G) /\ R \cup Cited(G) \subseteq C \cup G
      BY <3>1, UpsertKeepsEvidence
    <3>5. Cited(covered)' = Cited(covered')
      BY DEF Cited
    <3>6. EvidenceIsKept'
      BY <3>2, <3>4, <3>5 DEF EvidenceIsKept
    <3>7. ASSUME LimitCoversAlerts
          PROVE  row'.refs = covered' /\ row'.count = Cardinality(covered')
      <4>1. /\ C \cup Cited(G) = C \cup G
            /\ Cardinality(C) + Cardinality(Cited(G) \ C) = Cardinality(C \cup G)
        BY <3>1, <3>7, UpsertKeepsCount
      <4> QED
        BY <3>2, <3>3, <3>7, <4>1
    <3>8. RowsCount'
      BY <3>7 DEF RowsCount
    <3> QED
      BY <3>6, <3>8
  <2>7. HeldIsCurrent'
    <3>1. \A v \in Writer : pc'[v] = "held" => pc[v] = "held" /\ v # w
      BY <1>2, <1>8 DEF Update, Finishes
    <3>2. \A v \in Writer \ {w} : pc[v] = "held" => ~work[v].saw.exists
      BY <1>3, <2>1 DEF HeldIsCurrent
    <3> QED
      BY <2>2, <3>1, <3>2 DEF HeldIsCurrent
  <2>8. RowIsThere'
    BY <2>4 DEF RowIsThere
  <2> QED
    BY <2>6, <2>7, <2>8
<1>9. ASSUME NEW r \in Reviewer, ReadRow(r)
      PROVE  Rest'
  <2>1. row.exists /\ UNCHANGED <<row, lock, pc, work, covered>>
    BY <1>9 DEF ReadRow
  <2> QED
    BY <1>3, <1>4, <2>1 DEF HeldIsCurrent, RowIsThere
<1>10. ASSUME NEW r \in Reviewer, File(r)
       PROVE  Rest'
  <2> DEFINE d == review[r].found
             s == review[r].saw
  <2>1. d \in Disposition /\ s \in Rows /\ row.exists
    BY <1>2, <1>3, <1>10 DEF File, Feedback, RowIsThere
  <2>2. row' = Reviewed(d, s, row) /\ UNCHANGED <<lock, pc, work, covered>>
    BY <1>10 DEF File
  <2>3. row'.exists /\ row'.refs = row.refs /\ row'.count = row.count
    BY <1>2, <2>1, <2>2, ReviewedTyped
  <2>4. row' = row \/ lock = None
    BY <1>2, <1>10, <2>1, <2>2, ReviewedTyped DEF File, Unlocked
  <2>5. \A v \in Writer : v # None
    BY DEF NoneAssumption
  <2>6. HeldIsCurrent'
    BY <1>3, <2>2, <2>4, <2>5 DEF HeldIsCurrent
  <2>7. RowIsThere'
    BY <2>3 DEF RowIsThere
  <2>8. EvidenceIsKept' /\ RowsCount'
    BY <1>3, <2>2, <2>3 DEF EvidenceIsKept, RowsCount, Cited
  <2> QED
    BY <2>6, <2>7, <2>8
<1>11. CASE UNCHANGED vars
  BY <1>3, <1>4, <1>11 DEF vars, HeldIsCurrent, RowIsThere
<1> QED
  BY <1>5, <1>6, <1>7, <1>8, <1>9, <1>10, <1>11 DEF Next, Triage, Review

\* Whatever the order of the transactions, a finding keeps the evidence its upserts cite,
\* for every limit of references.
THEOREM EvidenceSurvivesOverlap ==
  ASSUME AlertAssumption, LimitAssumption, NoneAssumption
  PROVE  Spec => [](TypeOK /\ EvidenceIsKept)
<1>1. Init => FInv
  BY InitFInv
<1>2. FInv /\ [Next]_vars => FInv'
  BY FInvStep
<1>3. FInv => TypeOK /\ EvidenceIsKept
  BY DEF FInv, StoreTyped
<1> QED
  BY <1>1, <1>2, <1>3, PTL DEF Spec

\* Where the references of all its alerts fit, a finding counts each of them once as well.
THEOREM AlertsAreCountedOnce ==
  ASSUME AlertAssumption, LimitAssumption, NoneAssumption, LimitCoversAlerts
  PROVE  Spec => []FindingIsOfItsAlerts
<1>1. Init => FInv
  BY InitFInv
<1>2. FInv /\ [Next]_vars => FInv'
  BY FInvStep
<1>3. FInv => FindingIsOfItsAlerts
  BY DEF FInv, RowsCount, FindingIsOfItsAlerts, CountIsOfAlerts
<1> QED
  BY <1>1, <1>2, <1>3, PTL DEF Spec
=============================================================================
