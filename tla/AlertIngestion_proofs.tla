------------------------ MODULE AlertIngestion_proofs ------------------------
(***************************************************************************)
(* What holds of AlertIngestion for any number of cycles and documents,    *)
(* any page size and overlap, and whatever fails.  Where clusters start is *)
(* a recursive function: that there is one, and that it names a cluster    *)
(* after one of its documents, follows from the least counterexample.      *)
(***************************************************************************)
EXTENDS AlertIngestion, FiniteSetTheorems, WellFoundedInduction, TLAPS

-----------------------------------------------------------------------------
(* Clusters, pages, and the last document of one.                          *)

\* Grouping by a start: groups hold nothing but what is grouped, and share none of it.
LEMMA GroupsAreDisjoint ==
  ASSUME NEW S, NEW start, NEW c \in Grouped(S, start)
  PROVE  /\ c = [id |-> c.id, members |-> c.members] /\ c.members \subseteq S
         /\ \A e \in Grouped(S, start) : c # e => c.members \cap e.members = {}
<1>1. PICK s \in {start[d] : d \in S} :
        c = [id |-> <<Key[s], Time[s]>>, members |-> {d \in S : start[d] = s}]
  BY DEF Grouped
<1>2. ASSUME NEW e \in Grouped(S, start), c # e
      PROVE  c.members \cap e.members = {}
  <2>1. PICK t \in {start[d] : d \in S} :
          e = [id |-> <<Key[t], Time[t]>>, members |-> {d \in S : start[d] = t}]
    BY DEF Grouped
  <2>2. c.members = {d \in S : start[d] = s} /\ e.members = {d \in S : start[d] = t}
    BY <1>1, <2>1
  <2>3. s # t
    BY <1>1, <2>1, <1>2
  <2> QED
    BY <2>2, <2>3
<1>3. c.members \subseteq S /\ c = [id |-> c.id, members |-> c.members]
  <2>1. c.id = <<Key[s], Time[s]>> /\ c.members = {d \in S : start[d] = s}
    BY <1>1
  <2> QED
    BY <1>1, <2>1
<1> QED
  BY <1>2, <1>3

Ids == UNION {{c.id : c \in Clusters(S)} : S \in SUBSET Doc}
Group == [id : Ids, members : SUBSET Doc]

LEMMA ClustersAreDisjoint ==
  ASSUME NEW S \in SUBSET Doc
  PROVE  /\ Clusters(S) \in SUBSET Group
         /\ \A c, e \in Clusters(S) : c # e => c.members \cap e.members = {}
         /\ \A c \in Clusters(S) : c.members \subseteq S
<1>1. PICK start : Clusters(S) = Grouped(S, start)
  BY DEF Clusters
<1>2. \A c \in Clusters(S) : c \in Group /\ c.members \subseteq S
  <2> TAKE c \in Clusters(S)
  <2>1. c.id \in Ids
    <3>1. c.id \in {e.id : e \in Clusters(S)}
      OBVIOUS
    <3> QED
      BY <3>1 DEF Ids
  <2>2. c = [id |-> c.id, members |-> c.members] /\ c.members \subseteq S
    BY <1>1, GroupsAreDisjoint
  <2>3. c.members \in SUBSET Doc
    BY <2>2
  <2> QED
    BY <2>1, <2>2, <2>3 DEF Group
<1>3. ASSUME NEW c \in Clusters(S), NEW e \in Clusters(S), c # e
      PROVE  c.members \cap e.members = {}
  BY <1>1, <1>3, GroupsAreDisjoint
<1> QED
  BY <1>2, <1>3

LEMMA LeastNatural ==
  ASSUME NEW T \in SUBSET Nat, T # {}
  PROVE  \E m \in T : \A n \in T : m <= n
<1> DEFINE Less == {p \in Nat \X Nat : p[1] < p[2]}
<1>1. IsWellFoundedOn(Less, Nat)
  BY NatLessThanWellFounded DEF OpToRel
<1>2. \A m, n \in Nat : m < n => <<m, n>> \in Less
  OBVIOUS
<1>3. \E m \in T : \A n \in T : ~(<<n, m>> \in Less)
  <2> HIDE DEF Less
  <2> QED
    BY <1>1, WFMin
<1>4. PICK m \in T : \A n \in T : ~(<<n, m>> \in Less)
  BY <1>3
<1>5. \A n \in T : ~(n < m)
  <2> HIDE DEF Less
  <2> QED
    BY <1>2, <1>4
<1> QED
  BY <1>5

\* A set of documents that is not empty has a last one.
LEMMA LastOfIsLast ==
  ASSUME LastAssumption, NEW S \in SUBSET Doc, S # {}
  PROVE  LastOf(S) \in S /\ \A e \in S : e <= LastOf(S)
<1> DEFINE Back == {Last - d : d \in S}
<1>1. Back \in SUBSET Nat /\ Back # {}
  <2>1. \A d \in S : Last - d \in Nat
    BY DEF Doc, LastAssumption
  <2>2. \A n \in Back : n \in Nat
    BY <2>1
  <2> QED
    BY <2>2
<1>2. \E m \in Back : \A n \in Back : m <= n
  BY <1>1, LeastNatural, Zenon
<1>3. PICK d \in S : \A n \in Back : Last - d <= n
  BY <1>2
<1>4. \A e \in S : e <= d
  <2> TAKE e \in S
  <2>1. Last - d <= Last - e
    BY <1>3
  <2> QED
    BY <2>1 DEF Doc, LastAssumption
<1> QED
  BY <1>3, <1>4 DEF LastOf

-----------------------------------------------------------------------------
(* Where a cluster starts: a recursive function of the documents before.   *)

Before(S, d) == {e \in S : Key[e] = Key[d] /\ e < d}
StartOf(S, f, d) ==
    IF Before(S, d) = {} THEN d
    ELSE LET s == f[LastOf(Before(S, d))]
         IN  IF Time[d] - Time[s] > Window THEN d ELSE s

\* The start of a document depends on documents before it only.
LEMMA StartLooksBack ==
  ASSUME LastAssumption, NEW S \in SUBSET Doc, NEW d \in Doc
  PROVE  /\ Before(S, d) # {} => /\ LastOf(Before(S, d)) \in S
                                /\ LastOf(Before(S, d)) \in Doc /\ LastOf(Before(S, d)) < d
         /\ \A f, g : (\A e \in Doc : e < d => f[e] = g[e]) => StartOf(S, f, d) = StartOf(S, g, d)
<1>1. ASSUME Before(S, d) # {}
      PROVE  /\ LastOf(Before(S, d)) \in S
             /\ LastOf(Before(S, d)) \in Doc /\ LastOf(Before(S, d)) < d
  <2>1. Before(S, d) \in SUBSET Doc
    BY DEF Before
  <2>2. LastOf(Before(S, d)) \in Before(S, d)
    BY <1>1, <2>1, LastOfIsLast
  <2> QED
    BY <2>2 DEF Before
<1>2. ASSUME NEW f, NEW g, \A e \in Doc : e < d => f[e] = g[e]
      PROVE  StartOf(S, f, d) = StartOf(S, g, d)
  <2>1. CASE Before(S, d) = {}
    BY <2>1 DEF StartOf
  <2>2. CASE Before(S, d) # {}
    <3>1. f[LastOf(Before(S, d))] = g[LastOf(Before(S, d))]
      BY <1>1, <1>2, <2>2
    <3> QED
      BY <2>2, <3>1 DEF StartOf
  <2> QED
    BY <2>1, <2>2
<1> QED
  BY <1>1, <1>2

\* There is such a function: were there none up to some document, there would be a first
\* one, and the function up to the document before it could be extended.
LEMMA StartsExist ==
  ASSUME LastAssumption, NEW S \in SUBSET Doc
  PROVE  \E f : f = [d \in Doc |-> StartOf(S, f, d)]
<1> DEFINE Upto(n, f) == \A d \in Doc : d <= n => f[d] = StartOf(S, f, d)
           T == {n \in 0..Last : ~ \E f \in [Doc -> Doc] : Upto(n, f)}
<1>1. ASSUME NEW f \in [Doc -> Doc], NEW d \in Doc
      PROVE  StartOf(S, f, d) \in Doc
  <2>1. CASE Before(S, d) = {}
    BY <2>1 DEF StartOf
  <2>2. CASE Before(S, d) # {}
    <3>1. f[LastOf(Before(S, d))] \in Doc
      BY <2>2, StartLooksBack
    <3> QED
      BY <2>2, <3>1 DEF StartOf
  <2> QED
    BY <2>1, <2>2
<1>2. 0 \notin T
  <2>1. [d \in Doc |-> d] \in [Doc -> Doc] /\ Upto(0, [d \in Doc |-> d])
    BY DEF Doc, LastAssumption
  <2> HIDE DEF Upto
  <2> QED
    BY <2>1
<1>3. ASSUME NEW m \in T, \A n \in T : m <= n
      PROVE  FALSE
  <2>1. m \in Doc /\ m - 1 \in 0..Last /\ m - 1 \notin T /\ m \in Int
    <3>1. m \in 0..Last /\ m # 0
      BY <1>2
    <3> HIDE DEF T
    <3>2. m \in Doc /\ m - 1 \in 0..Last /\ m \in Int /\ ~(m <= m - 1)
      BY <3>1 DEF Doc, LastAssumption
    <3> QED
      BY <1>3, <3>2
  <2>2. PICK f \in [Doc -> Doc] : Upto(m - 1, f)
    BY <2>1
  <2>3. PICK s \in Doc : s = StartOf(S, f, m)
    BY <1>1, <2>1
  <2>4. PICK g \in [Doc -> Doc] : g = [f EXCEPT ![m] = s]
    BY <2>1
  <2>5. \A e \in Doc : e < m => g[e] = f[e]
    BY <2>1, <2>4 DEF Doc
  <2>6. Upto(m, g)
    <3> SUFFICES ASSUME NEW d \in Doc, d <= m
                 PROVE  g[d] = StartOf(S, g, d)
      OBVIOUS
    <3>1. \A e \in Doc : e < d => g[e] = f[e]
      BY <2>1, <2>5 DEF Doc
    <3>2. StartOf(S, g, d) = StartOf(S, f, d)
      BY <3>1, StartLooksBack
    <3>3. CASE d = m
      BY <2>1, <2>3, <2>4, <3>2, <3>3
    <3>4. CASE d # m
      <4>1. d < m /\ d <= m - 1
        BY <2>1, <3>4 DEF Doc
      <4> QED
        BY <2>2, <2>5, <3>2, <4>1
    <3> QED
      BY <3>3, <3>4
  <2> HIDE DEF Upto
  <2> QED
    BY <2>6
<1>4. T = {}
  <2>1. T \in SUBSET Nat
    BY DEF LastAssumption
  <2> HIDE DEF T
  <2> QED
    BY <1>3, <2>1, LeastNatural
<1>5. PICK f \in [Doc -> Doc] : Upto(Last, f)
  <2>1. Last \in 0..Last
    BY DEF LastAssumption
  <2> HIDE DEF Upto
  <2> QED
    BY <1>4, <2>1
<1>6. \A d \in Doc : f[d] = StartOf(S, f, d)
  BY <1>5 DEF Doc, LastAssumption
<1>7. f = [d \in Doc |-> StartOf(S, f, d)]
  BY <1>6
<1> QED
  BY <1>7

LEMMA ClusterStartIs ==
  ASSUME LastAssumption, NEW S \in SUBSET Doc, NEW d \in Doc
  PROVE  ClusterStart(S)[d] = StartOf(S, ClusterStart(S), d)
<1> DEFINE P(f) == f = [e \in Doc |-> StartOf(S, f, e)]
<1>1. ClusterStart(S) = CHOOSE f : P(f)
  BY DEF ClusterStart, StartOf, Before
<1>2. \E f : P(f)
  BY StartsExist
<1>3. P(ClusterStart(S))
  <2> HIDE DEF P
  <2> QED
    BY <1>1, <1>2
<1> QED
  BY <1>3

\* A cluster starts at one of the documents that are grouped.
LEMMA StartsAreGrouped ==
  ASSUME LastAssumption, NEW S \in SUBSET Doc
  PROVE  \A d \in S : ClusterStart(S)[d] \in S
<1> DEFINE start == ClusterStart(S)
           T == {d \in S : start[d] \notin S}
<1>1. ASSUME NEW d \in T, \A e \in T : d <= e
      PROVE  FALSE
  <2>1. d \in S /\ d \in Doc /\ start[d] = StartOf(S, start, d)
    BY ClusterStartIs
  <2> HIDE DEF start
  <2>2. CASE Before(S, d) = {}
    BY <2>1, <2>2 DEF StartOf
  <2>3. CASE Before(S, d) # {}
    <3>1. PICK e : e = LastOf(Before(S, d)) /\ e \in S /\ e < d
      BY <2>1, <2>3, StartLooksBack
    <3>2. start[e] \in S
      BY <1>1, <2>1, <3>1 DEF Doc
    <3> QED
      BY <2>1, <2>3, <3>1, <3>2 DEF StartOf
  <2> QED
    BY <2>2, <2>3
<1>2. T \in SUBSET Nat
  <2>1. Doc \in SUBSET Nat
    BY DEF Doc, LastAssumption
  <2>2. T \in SUBSET S
    OBVIOUS
  <2> QED
    BY <2>1, <2>2
<1>3. T = {}
  <2> HIDE DEF T
  <2> QED
    BY <1>1, <1>2, LeastNatural
<1> QED
  BY <1>3

\* A finding is named after a document.
LEMMA IdsAreOfDocuments ==
  ASSUME LastAssumption
  PROVE  Ids \subseteq FindingId
<1> SUFFICES ASSUME NEW S \in SUBSET Doc, NEW c \in Clusters(S)
             PROVE  c.id \in FindingId
  BY DEF Ids
<1>1. PICK d \in S : c.id = <<Key[ClusterStart(S)[d]], Time[ClusterStart(S)[d]]>>
  BY DEF Clusters, Grouped
<1>2. ClusterStart(S)[d] \in Doc
  BY StartsAreGrouped
<1> QED
  BY <1>1, <1>2 DEF FindingId

-----------------------------------------------------------------------------
(* Types.                                                                  *)

Pc == {"idle", "claim", "search", "persist", "renew", "confirm", "correlate",
       "upsert", "attach", "open", "release"}
Run == [pc : Pc, locked : BOOLEAN, since : Int, after : 0..Last, page : SUBSET Doc, pages : Nat,
        full : BOOLEAN, fresh : SUBSET Doc, todo : SUBSET Group, doing : Group \cup {None},
        severe : SUBSET Ids, opens : Nat]

\* As TypeOK, but for the start a cluster is named after.
CyclesTyped ==
    /\ indexed \subseteq Doc /\ stored \subseteq Doc /\ linked \in [Doc -> SUBSET Ids]
    /\ checkpoint \in [high : 0..Last, after : 0..Last, truncated : BOOLEAN]
    /\ redis \in [up : BOOLEAN, owner : Worker \cup {None, Gone}]
    /\ run \in [Worker -> Run]
    /\ \A w \in Worker : run[w].pc = "attach" => run[w].doing \in Group

\* A step that moves a cycle and leaves what it holds of documents and clusters.
Goes(w, p) ==
    \E n \in Run : /\ run' = [run EXCEPT ![w] = n]
                   /\ n.pc = p /\ n.fresh = run[w].fresh /\ n.todo = run[w].todo

LEMMA RestTyped ==
  ASSUME LastAssumption
  PROVE  Rest \in Run /\ Rest.pc = "idle" /\ Rest.fresh = {} /\ Rest.todo = {}
  BY DEF Rest, Run, Pc, LastAssumption

LEMMA SinceTyped ==
  ASSUME LastAssumption, TimeAssumption, WindowAssumption, CyclesTyped
  PROVE  Since(checkpoint) \in Int /\ Cursor(checkpoint) \in 0..Last
  BY DEF Since, Cursor, CyclesTyped, Doc, LastAssumption, TimeAssumption, WindowAssumption

LEMMA AdvanceTyped ==
  ASSUME LastAssumption, CyclesTyped, NEW p \in SUBSET Doc
  PROVE  /\ Advance(checkpoint, p) \in [high : 0..Last, after : 0..Last, truncated : BOOLEAN]
         /\ Advance(checkpoint, p).high >= checkpoint.high
<1>1. CASE p = {}
  BY <1>1 DEF Advance, CyclesTyped
<1>2. CASE p # {}
  <2>1. LastOf(p) \in Doc
    BY <1>2, LastOfIsLast
  <2>1a. LastOf(p) \in 0..Last
    BY <2>1 DEF Doc, LastAssumption
  <2>2. Later(checkpoint.high, LastOf(p)) \in 0..Last
        /\ Later(checkpoint.high, LastOf(p)) >= checkpoint.high
    BY <2>1a DEF Later, CyclesTyped, LastAssumption
  <2> QED
    BY <1>2, <2>1a, <2>2 DEF Advance, CyclesTyped
<1> QED
  BY <1>1, <1>2

\* Each action, as what it does to the cycle's record.
LEMMA StartDoes ==
  ASSUME LastAssumption, TimeAssumption, WindowAssumption, CyclesTyped,
         NEW w \in Worker, Start(w)
  PROVE  \E n \in Run : /\ run' = [run EXCEPT ![w] = n]
                        /\ n.pc = "claim" /\ n.fresh = {} /\ n.todo = {}
<1> DEFINE n == [Rest EXCEPT !.pc = "claim", !.locked = redis.up,
                            !.since = Since(checkpoint), !.after = Cursor(checkpoint)]
<1>1. n \in Run /\ n.pc = "claim" /\ n.fresh = {} /\ n.todo = {}
  BY SinceTyped DEF Rest, Run, Pc, LastAssumption, CyclesTyped
<1> QED
  BY <1>1 DEF Start, Step

Persisted(r, f, b, a) == [r EXCEPT !.pc = "renew", !.page = {}, !.pages = @ + 1,
                                   !.fresh = @ \cup f, !.full = b, !.after = a]

LEMMA PersistTyped ==
  ASSUME NEW r \in Run, NEW f \in SUBSET Doc, NEW b \in BOOLEAN, NEW a \in 0..Last
  PROVE  LET n == Persisted(r, f, b, a)
         IN  /\ n \in Run /\ n.pc = "renew" /\ n.fresh = r.fresh \cup f
             /\ n.todo = r.todo /\ n.doing = r.doing
<1> DEFINE n == Persisted(r, f, b, a)
<1>1. PICK k : k = [r EXCEPT !.pc = "renew", !.page = {}]
  OBVIOUS
<1>2. k \in Run /\ k.pc = "renew" /\ k.fresh = r.fresh /\ k.todo = r.todo /\ k.doing = r.doing
  BY <1>1 DEF Run, Pc
<1>3. PICK m : m = [k EXCEPT !.pages = @ + 1, !.fresh = @ \cup f]
  OBVIOUS
<1>4. m \in Run /\ m.pc = k.pc /\ m.fresh = k.fresh \cup f /\ m.todo = k.todo /\ m.doing = k.doing
  <2>1. PICK j : j = [k EXCEPT !.pages = @ + 1]
    OBVIOUS
  <2>2. j \in Run /\ j.pc = k.pc /\ j.fresh = k.fresh /\ j.todo = k.todo /\ j.doing = k.doing
    BY <1>2, <2>1 DEF Run
  <2>3. m = [j EXCEPT !.fresh = @ \cup f]
    BY <1>3, <2>1, <2>2 DEF Run
  <2> QED
    BY <2>2, <2>3 DEF Run
<1>5. PICK o : o = [m EXCEPT !.full = b, !.after = a]
  OBVIOUS
<1>6. o \in Run /\ o.pc = m.pc /\ o.fresh = m.fresh /\ o.todo = m.todo /\ o.doing = m.doing
  BY <1>4, <1>5 DEF Run
<1>7. n = o
  <2>1. k.pages = r.pages /\ k.fresh = r.fresh
    BY <1>1 DEF Run
  <2> QED
    BY <1>1, <1>3, <1>5, <2>1 DEF Persisted
<1> HIDE DEF n
<1> QED
  BY <1>2, <1>4, <1>6, <1>7 DEF n

LEMMA PersistDoes ==
  ASSUME LastAssumption, CyclesTyped, NEW w \in Worker, Persist(w)
  PROVE  \E n \in Run : /\ run' = [run EXCEPT ![w] = n] /\ n.pc = "renew"
                        /\ n.fresh = run[w].fresh \cup (run[w].page \ stored)
                        /\ n.todo = run[w].todo /\ n.doing = run[w].doing
<1>1. run[w] \in Run
  BY DEF CyclesTyped
<1> DEFINE p == run[w].page
           b == Cardinality(p) >= PageSize
           a == IF p = {} THEN run[w].after ELSE LastOf(p)
           n == Persisted(run[w], Inserted(p), b, a)
<1>2. p \in SUBSET Doc
  BY <1>1 DEF Run
<1>3. a \in 0..Last
  <2>1. CASE p = {}
    BY <1>1, <2>1 DEF Run
  <2>2. CASE p # {}
    <3>1. LastOf(p) \in Doc
      <4>1. p \in SUBSET Doc /\ p # {}
        BY <1>2, <2>2
      <4> QED
        BY <4>1, LastOfIsLast
    <3> QED
      BY <2>2, <3>1 DEF Doc, LastAssumption
  <2> QED
    BY <2>1, <2>2
<1>4. Inserted(p) \in SUBSET Doc /\ Inserted(p) = p \ stored
  BY <1>2 DEF Inserted
<1>5. b \in BOOLEAN
  OBVIOUS
<1>6. run' = [run EXCEPT ![w] = n]
  BY DEF Persist, Step, Persisted
<1>7. /\ n \in Run /\ n.pc = "renew" /\ n.fresh = run[w].fresh \cup Inserted(p)
      /\ n.todo = run[w].todo /\ n.doing = run[w].doing
  <2> HIDE DEF a, b
  <2> QED
    BY <1>1, <1>3, <1>4, <1>5, PersistTyped
<1> HIDE DEF n
<1> QED
  BY <1>4, <1>6, <1>7

LEMMA MoveTyped ==
  ASSUME NEW r \in Run, NEW p \in Pc
  PROVE  LET n == [r EXCEPT !.pc = p]
         IN  n \in Run /\ n.pc = p /\ n.fresh = r.fresh /\ n.todo = r.todo
  BY DEF Run

LEMMA MoveDoes ==
  ASSUME CyclesTyped, NEW w \in Worker, NEW p \in Pc, Step(w, [run[w] EXCEPT !.pc = p])
  PROVE  Goes(w, p)
<1>1. run[w] \in Run
  BY DEF CyclesTyped
<1> QED
  BY <1>1, MoveTyped DEF Step, Goes

LEMMA SearchDoes ==
  ASSUME CyclesTyped, NEW w \in Worker, Search(w)
  PROVE  Goes(w, "persist")
<1>1. run[w] \in Run /\ Page(w) \in SUBSET Doc
  BY DEF CyclesTyped, Page, First
<1> DEFINE n == [run[w] EXCEPT !.pc = "persist", !.page = Page(w)]
<1>2. n \in Run /\ n.pc = "persist" /\ n.fresh = run[w].fresh /\ n.todo = run[w].todo
  BY <1>1 DEF Run, Pc
<1>3. run' = [run EXCEPT ![w] = n]
  BY DEF Search, Step
<1> HIDE DEF n
<1> QED
  BY <1>2, <1>3 DEF Goes

LEMMA OpenDoes ==
  ASSUME CyclesTyped, NEW w \in Worker, Open(w)
  PROVE  Goes(w, "open")
<1>1. run[w] \in Run /\ run[w].pc = "open"
  BY DEF CyclesTyped, Open, At
<1>2. PICK f \in run[w].severe :
        run' = [run EXCEPT ![w] = [run[w] EXCEPT !.severe = @ \ {f}, !.opens = @ + 1]]
  BY DEF Open, Step
<1>3. PICK m : m = [run[w] EXCEPT !.severe = @ \ {f}]
  OBVIOUS
<1>4. m \in Run /\ m.pc = "open" /\ m.fresh = run[w].fresh /\ m.todo = run[w].todo
      /\ m.opens = run[w].opens
  BY <1>1, <1>3 DEF Run
<1>5. PICK n : n = [m EXCEPT !.opens = @ + 1]
  OBVIOUS
<1>6. n \in Run /\ n.pc = "open" /\ n.fresh = run[w].fresh /\ n.todo = run[w].todo
  BY <1>4, <1>5 DEF Run
<1>7. run' = [run EXCEPT ![w] = n]
  BY <1>2, <1>3, <1>4, <1>5
<1> QED
  BY <1>6, <1>7 DEF Goes

LEMMA PendingTyped ==
  ASSUME CyclesTyped
  PROVE  Pending \in SUBSET Doc /\ \A d \in Pending : linked[d] = {}
  BY DEF Pending, First, CyclesTyped

LEMMA CorrelateDoes ==
  ASSUME CyclesTyped, NEW w \in Worker, Correlate(w)
  PROVE  \E n \in Run : /\ run' = [run EXCEPT ![w] = n] /\ n.pc = "upsert"
                        /\ n.fresh = run[w].fresh /\ n.todo = Clusters(Pending)
<1>1. run[w] \in Run
  BY DEF CyclesTyped
<1>2. PICK T : T = Clusters(Pending) /\ T \in SUBSET Group
  BY PendingTyped, ClustersAreDisjoint
<1> DEFINE n == [run[w] EXCEPT !.pc = "upsert", !.todo = T]
<1>3. n \in Run /\ n.pc = "upsert" /\ n.fresh = run[w].fresh /\ n.todo = T
  BY <1>1, <1>2 DEF Run, Pc
<1>4. run' = [run EXCEPT ![w] = n]
  BY <1>2 DEF Correlate, Step
<1> HIDE DEF n
<1> QED
  BY <1>2, <1>3, <1>4

LEMMA UpsertDoes ==
  ASSUME CyclesTyped, NEW w \in Worker, Upsert(w)
  PROVE  \E n \in Run : /\ run' = [run EXCEPT ![w] = n] /\ n.pc = "attach"
                        /\ n.fresh = run[w].fresh /\ n.doing \in run[w].todo
                        /\ n.todo = run[w].todo \ {n.doing} /\ n.doing \in Group
<1>1. run[w] \in Run
  BY DEF CyclesTyped
<1>2. PICK c \in run[w].todo :
        run' = [run EXCEPT ![w] = [run[w] EXCEPT !.pc = "attach", !.doing = c, !.todo = @ \ {c}]]
  BY DEF Upsert, Step
<1>3. c \in Group
  BY <1>1 DEF Run
<1>4. PICK m : m = [run[w] EXCEPT !.pc = "attach", !.doing = c]
  OBVIOUS
<1>5. m \in Run /\ m.pc = "attach" /\ m.doing = c /\ m.fresh = run[w].fresh
      /\ m.todo = run[w].todo
  BY <1>1, <1>3, <1>4 DEF Run, Pc
<1>6. PICK n : n = [m EXCEPT !.todo = @ \ {c}]
  OBVIOUS
<1>7. n \in Run /\ n.pc = "attach" /\ n.doing = c /\ n.fresh = run[w].fresh
      /\ n.todo = run[w].todo \ {c}
  BY <1>5, <1>6 DEF Run
<1>8. run' = [run EXCEPT ![w] = n]
  BY <1>2, <1>4, <1>5, <1>6
<1> QED
  BY <1>3, <1>7, <1>8

LEMMA AttachDoes ==
  ASSUME CyclesTyped, NEW w \in Worker, Attach(w)
  PROVE  Goes(w, "upsert")
<1>1. run[w] \in Run /\ run[w].doing \in Group
  BY DEF CyclesTyped, Attach, At
<1>2. Candidates(run[w]) \in SUBSET Ids
  BY <1>1 DEF Candidates, Run, Group
<1>3. PICK S \in SUBSET Ids : S = Candidates(run[w])
  BY <1>2
<1> DEFINE n == [run[w] EXCEPT !.pc = "upsert", !.doing = None, !.severe = S]
<1>4. n \in Run /\ n.pc = "upsert" /\ n.fresh = run[w].fresh /\ n.todo = run[w].todo
  BY <1>1 DEF Run, Pc
<1>5. run' = [run EXCEPT ![w] = n]
  BY <1>3 DEF Attach, Step
<1> HIDE DEF n
<1> QED
  BY <1>4, <1>5 DEF Goes

-----------------------------------------------------------------------------
(* The invariants.                                                         *)

\* Until one outlives its claim, a cycle that scans or correlates holds the claim, in force.
ClaimBacksWork ==
    ~lapsed => \A w \in Worker : Working(w) => claim.owner = w /\ claim.live

\* What a cycle counts as new it has stored itself, and nobody counted it before.
NewIsStored ==
    /\ reported \subseteq stored
    /\ \A w \in Worker : run[w].fresh \subseteq stored
    /\ \A w \in Worker : run[w].pc \in {"idle", "claim"} => run[w].fresh = {}
    /\ \A w \in Worker : Working(w) => run[w].fresh \cap reported = {}
    /\ \A v, w \in Worker : v # w => run[v].fresh \cap run[w].fresh = {}

\* What is left to attach is in no finding yet, and in one cluster only.
Attaching(r) == IF r.pc = "attach" THEN r.todo \cup {r.doing}
                ELSE IF r.pc = "upsert" THEN r.todo ELSE {}
ClustersAreFree ==
    ~lapsed => \A w \in Worker :
        /\ \A c \in Attaching(run[w]) : \A d \in c.members : linked[d] = {}
        /\ \A c, e \in Attaching(run[w]) : c # e => c.members \cap e.members = {}
        /\ run[w].pc = "attach" => run[w].doing \notin run[w].todo

LinksAreOne == ~lapsed => \A d \in Doc : linked[d] = {} \/ \E f \in Ids : linked[d] = {f}

-----------------------------------------------------------------------------
(* The kinds of steps, by what they do to the invariants' variables.       *)

\* Nothing a cycle does: documents, the clock, Redis.
Outside ==
    /\ run' = run /\ linked' = linked /\ reported' = reported /\ stored \subseteq stored'
    /\ \/ lapsed'
       \/ lapsed' = lapsed /\ claim' = claim
       \/ lapsed' = lapsed /\ claim.owner = Gone

\* A cycle at work goes on, or gives up, with what it has; it may renew its claim.
GoesOn(w, p) ==
    /\ Working(w) /\ Goes(w, p) /\ p \in Pc \ {"idle", "claim", "upsert", "attach"}
    /\ \/ claim' = claim
       \/ claim.owner = w /\ claim' = [owner |-> w, live |-> TRUE]
    /\ UNCHANGED <<stored, linked, reported, lapsed>>

\* A cycle is over; it ends no claim but its own.
Ends(w) ==
    /\ run' = [run EXCEPT ![w] = Rest]
    /\ claim' = claim \/ claim.owner = w
    /\ UNCHANGED <<stored, linked, reported, lapsed>>

Kinds(w) ==
    \/ Start(w) \/ Claim(w) \/ Persist(w) \/ Correlate(w) \/ Upsert(w) \/ Attach(w) \/ Complete(w)
    \/ Ends(w) \/ \E p \in Pc : GoesOn(w, p)

LEMMA StepKinds ==
  ASSUME CyclesTyped, [Next]_vars
  PROVE  Outside \/ \E w \in Worker : Kinds(w)
<1>1. ASSUME NEW w \in Worker, ClaimRefused(w) \/ Release(w) \/ Crash(w)
      PROVE  Ends(w)
  BY <1>1 DEF ClaimRefused, Release, Crash, Step, Ends, store, ghost
<1>2. ASSUME NEW w \in Worker, Search(w)
      PROVE  GoesOn(w, "persist")
  BY <1>2, SearchDoes DEF Search, GoesOn, Working, At, Pc, store, ghost
<1>3. ASSUME NEW w \in Worker, Open(w)
      PROVE  GoesOn(w, "open")
  BY <1>3, OpenDoes DEF Open, GoesOn, Working, At, Pc, store
<1>4. ASSUME NEW w \in Worker, Renew(w)
      PROVE  \E p \in {"search", "confirm"} : GoesOn(w, p)
  <2>1. PICK p \in {"search", "confirm"} : Step(w, [run[w] EXCEPT !.pc = p])
    BY <1>4 DEF Renew
  <2>2. p \in Pc \ {"idle", "claim", "upsert", "attach"}
    BY DEF Pc
  <2>3. Goes(w, p)
    BY <2>1, <2>2, MoveDoes
  <2> QED
    BY <1>4, <2>2, <2>3 DEF Renew, Renewable, GoesOn, Working, At, store, ghost
<1>5. ASSUME NEW w \in Worker, Confirm(w)
      PROVE  GoesOn(w, "correlate")
  <2>1. Goes(w, "correlate")
    BY <1>5, MoveDoes DEF Confirm, Pc
  <2> QED
    BY <1>5, <2>1 DEF Confirm, Renewable, GoesOn, Working, At, Pc, store, ghost
<1>6. ASSUME NEW w \in Worker, ClaimLost(w) \/ Fails(w)
      PROVE  GoesOn(w, "release")
  <2>1. Goes(w, "release")
    BY <1>6, MoveDoes DEF ClaimLost, Fails, Pc
  <2> QED
    BY <1>6, <2>1 DEF ClaimLost, Fails, GoesOn, Working, At, Pc, store, ghost
<1>7. ASSUME NEW w \in Worker, Correlated(w)
      PROVE  GoesOn(w, "open")
  <2>1. Goes(w, "open")
    BY <1>7, MoveDoes DEF Correlated, Pc
  <2> QED
    BY <1>7, <2>1 DEF Correlated, GoesOn, Working, At, Pc, store, ghost
<1>8. ASSUME NEW d \in Doc, Index(d) \/ Remember(d)
      PROVE  Outside
  BY <1>8 DEF Index, Remember, Outside, store, ghost
<1>9. ASSUME Expire \/ Lapse \/ RedisExpires \/ RedisGoes \/ RedisReturns \/ UNCHANGED vars
      PROVE  Outside
  BY <1>9 DEF Expire, Lapse, RedisExpires, RedisGoes, RedisReturns, Outside, store, ghost, vars
<1>10. ASSUME NEW w \in Worker, Start(w) \/ Cycle(w) \/ Fails(w) \/ Crash(w)
       PROVE  Kinds(w)
  <2>1. ASSUME NEW p \in {"persist", "open", "search", "confirm", "correlate", "release"},
               GoesOn(w, p)
        PROVE  Kinds(w)
    BY <2>1 DEF Kinds, Pc
  <2> QED
    BY <1>10, <1>1, <1>2, <1>3, <1>4, <1>5, <1>6, <1>7, <2>1 DEF Cycle, Kinds
<1> QED
  BY <1>8, <1>9, <1>10 DEF Next

\* A step of w leaves the records of the other cycles.
LEMMA RunSet ==
  ASSUME CyclesTyped, NEW w \in Worker, NEW n \in Run, run' = [run EXCEPT ![w] = n],
         n.pc = "attach" => n.doing \in Group
  PROVE  /\ run' \in [Worker -> Run]
         /\ \A v \in Worker : run'[v].pc = "attach" => run'[v].doing \in Group
         /\ run'[w] = n /\ \A v \in Worker \ {w} : run'[v] = run[v]
  BY DEF CyclesTyped

LEMMA KindsSetRun ==
  ASSUME LastAssumption, TimeAssumption, WindowAssumption, CyclesTyped,
         NEW w \in Worker, Kinds(w)
  PROVE  /\ run' \in [Worker -> Run]
         /\ \A v \in Worker : run'[v].pc = "attach" => run'[v].doing \in Group
         /\ \A v \in Worker \ {w} : run'[v] = run[v]
<1>1. ASSUME NEW p \in Pc \ {"attach"}, Goes(w, p)
      PROVE  \E n \in Run : run' = [run EXCEPT ![w] = n] /\ n.pc # "attach"
  BY <1>1 DEF Goes
<1>2. CASE Start(w)
  BY <1>2, StartDoes, RunSet
<1>3. CASE Claim(w)
  <2>1. Goes(w, "search")
    BY <1>3, MoveDoes DEF Claim, Pc
  <2> QED
    BY <1>1, <2>1, RunSet DEF Pc
<1>4. CASE Persist(w)
  BY <1>4, PersistDoes, RunSet
<1>5. CASE Correlate(w)
  BY <1>5, CorrelateDoes, RunSet
<1>6. CASE Upsert(w)
  BY <1>6, UpsertDoes, RunSet
<1>7. CASE Attach(w)
  BY <1>7, <1>1, AttachDoes, RunSet DEF Pc
<1>8. CASE Complete(w)
  <2>1. Goes(w, "release")
    BY <1>8, MoveDoes DEF Complete, Pc
  <2> QED
    BY <1>1, <2>1, RunSet DEF Pc
<1>9. CASE Ends(w)
  BY <1>9, RestTyped, RunSet DEF Ends
<1>10. ASSUME NEW p \in Pc, GoesOn(w, p)
       PROVE  \E n \in Run : run' = [run EXCEPT ![w] = n] /\ n.pc # "attach"
  BY <1>10, <1>1 DEF GoesOn
<1> QED
  BY <1>2, <1>3, <1>4, <1>5, <1>6, <1>7, <1>8, <1>9, <1>10, RunSet DEF Kinds

LEMMA RowsTyped ==
  ASSUME LastAssumption, CyclesTyped, [Next]_vars
  PROVE  /\ indexed' \subseteq Doc /\ stored' \subseteq Doc /\ linked' \in [Doc -> SUBSET Ids]
         /\ checkpoint' \in [high : 0..Last, after : 0..Last, truncated : BOOLEAN]
         /\ redis' \in [up : BOOLEAN, owner : Worker \cup {None, Gone}]
         /\ checkpoint'.high >= checkpoint.high
<1> DEFINE Row == [high : 0..Last, after : 0..Last, truncated : BOOLEAN]
           Lock == [up : BOOLEAN, owner : Worker \cup {None, Gone}]
<1>1. ASSUME NEW w \in Worker, Persist(w)
      PROVE  stored' \subseteq Doc /\ checkpoint' \in Row /\ checkpoint'.high >= checkpoint.high
             /\ UNCHANGED <<indexed, linked, redis>>
  <2>1. run[w].page \in SUBSET Doc
    BY DEF CyclesTyped, Run
  <2> QED
    BY <1>1, <2>1, AdvanceTyped DEF Persist, CyclesTyped
<1>2. ASSUME NEW w \in Worker, Attach(w)
      PROVE  linked' \in [Doc -> SUBSET Ids] /\ UNCHANGED <<indexed, stored, checkpoint, redis>>
  <2>1. run[w].doing.id \in Ids
    BY <1>2 DEF CyclesTyped, Attach, At, Group
  <2> QED
    BY <1>2, <2>1 DEF Attach, CyclesTyped
<1>3. ASSUME NEW w \in Worker, Complete(w)
      PROVE  checkpoint' \in Row /\ checkpoint'.high = checkpoint.high
             /\ UNCHANGED <<indexed, stored, linked, redis>>
  <2>1. PICK b \in BOOLEAN : checkpoint' = [checkpoint EXCEPT !.truncated = b]
    BY <1>3 DEF Complete, Truncated
  <2> QED
    BY <1>3, <2>1 DEF Complete, CyclesTyped, store
<1>4. ASSUME NEW w \in Worker, Start(w) \/ ClaimRefused(w) \/ Release(w) \/ Crash(w)
      PROVE  redis' \in Lock /\ UNCHANGED <<indexed, stored, linked, checkpoint>>
  BY <1>4 DEF Start, ClaimRefused, Release, Crash, Unlocked, CyclesTyped, store
<1>5. ASSUME RedisExpires \/ RedisGoes \/ RedisReturns
      PROVE  redis' \in Lock /\ UNCHANGED <<indexed, stored, linked, checkpoint>>
  BY <1>5 DEF RedisExpires, RedisGoes, RedisReturns, CyclesTyped, store
<1>6. ASSUME NEW d \in Doc, Index(d) \/ Remember(d)
      PROVE  indexed' \subseteq Doc /\ stored' \subseteq Doc /\ UNCHANGED <<linked, checkpoint, redis>>
  BY <1>6 DEF Index, Remember, CyclesTyped, store
<1>7. ASSUME Expire \/ Lapse \/ UNCHANGED vars
      PROVE  UNCHANGED <<indexed, stored, linked, checkpoint, redis>>
  BY <1>7 DEF Expire, Lapse, store, vars
<1>8. ASSUME NEW w \in Worker, Claim(w) \/ Search(w) \/ Renew(w) \/ Confirm(w) \/ ClaimLost(w)
             \/ Correlate(w) \/ Upsert(w) \/ Correlated(w) \/ Open(w) \/ Fails(w)
      PROVE  UNCHANGED <<indexed, stored, linked, checkpoint, redis>>
  BY <1>8 DEF Claim, Search, Renew, Confirm, ClaimLost, Correlate, Upsert, Correlated, Open,
     Fails, store
<1>9. UNCHANGED checkpoint => checkpoint'.high >= checkpoint.high
  BY DEF CyclesTyped
<1>10. checkpoint'.high = checkpoint.high => checkpoint'.high >= checkpoint.high
  BY DEF CyclesTyped
<1> HIDE DEF Row, Lock
<1>11. indexed \subseteq Doc /\ stored \subseteq Doc /\ linked \in [Doc -> SUBSET Ids]
       /\ checkpoint \in Row /\ redis \in Lock
  BY DEF CyclesTyped, Row, Lock
<1>12. /\ indexed' \subseteq Doc /\ stored' \subseteq Doc /\ linked' \in [Doc -> SUBSET Ids]
       /\ checkpoint' \in Row /\ redis' \in Lock /\ checkpoint'.high >= checkpoint.high
  <2>1. ASSUME NEW w \in Worker, Start(w) \/ Cycle(w) \/ Fails(w) \/ Crash(w)
        PROVE  /\ indexed' \subseteq Doc /\ stored' \subseteq Doc /\ linked' \in [Doc -> SUBSET Ids]
               /\ checkpoint' \in Row /\ redis' \in Lock /\ checkpoint'.high >= checkpoint.high
    BY <2>1, <1>1, <1>2, <1>3, <1>4, <1>8, <1>9, <1>10, <1>11 DEF Cycle
  <2> QED
    BY <2>1, <1>5, <1>6, <1>7, <1>9, <1>11 DEF Next
<1> QED
  BY <1>12 DEF Row, Lock

LEMMA TypesStep ==
  ASSUME LastAssumption, TimeAssumption, WindowAssumption, CyclesTyped, [Next]_vars
  PROVE  CyclesTyped'
<1>1. CASE Outside
  BY <1>1, RowsTyped DEF Outside, CyclesTyped
<1>2. ASSUME NEW w \in Worker, Kinds(w)
      PROVE  CyclesTyped'
  BY <1>2, RowsTyped, KindsSetRun DEF CyclesTyped
<1> QED
  BY <1>1, <1>2, StepKinds

-----------------------------------------------------------------------------
(* The invariants are kept.                                                *)

NewInv == CyclesTyped /\ ClaimBacksWork /\ NewIsStored /\ ClustersAreFree /\ LinksAreOne

LEMMA InitNewInv ==
  ASSUME LastAssumption, Init
  PROVE  NewInv
<1>1. \A w \in Worker : run[w] \in Run /\ run[w].pc = "idle" /\ run[w].fresh = {}
  BY RestTyped DEF Init
<1>2. CyclesTyped
  BY <1>1 DEF Init, CyclesTyped, LastAssumption
<1>3. ClaimBacksWork /\ NewIsStored
  BY <1>1 DEF Init, ClaimBacksWork, NewIsStored, Working, At
<1>4. ClustersAreFree /\ LinksAreOne
  BY <1>1 DEF Init, ClustersAreFree, LinksAreOne, Attaching
<1> QED
  BY <1>2, <1>3, <1>4 DEF NewInv

LEMMA OutsideKeeps ==
  ASSUME OwnerAssumption, NewInv, Outside
  PROVE  (ClaimBacksWork /\ NewIsStored /\ ClustersAreFree /\ LinksAreOne)'
<1>1. ClaimBacksWork'
  BY DEF NewInv, Outside, ClaimBacksWork, Working, At, OwnerAssumption
<1>2. NewIsStored'
  BY DEF NewInv, Outside, NewIsStored, Working, At
<1>3. ~lapsed' => ~lapsed
  BY DEF Outside
<1>4. ClustersAreFree' /\ LinksAreOne'
  BY <1>3 DEF NewInv, Outside, ClustersAreFree, LinksAreOne, Attaching
<1> QED
  BY <1>1, <1>2, <1>4

\* Two cycles at work without a lapse are one.
LEMMA WorksAlone ==
  ASSUME ClaimBacksWork, ~lapsed, NEW v \in Worker, NEW w \in Worker, Working(v), Working(w)
  PROVE  v = w
  BY DEF ClaimBacksWork

LEMMA ClaimStep ==
  ASSUME LastAssumption, TimeAssumption, WindowAssumption, OwnerAssumption, NewInv,
         NEW w \in Worker, Kinds(w)
  PROVE  ClaimBacksWork'
<1>1. \A v \in Worker \ {w} : run'[v] = run[v]
  BY KindsSetRun DEF NewInv
<1>2. CASE Start(w)
  <2>1. run'[w].pc = "claim"
    BY <1>2, StartDoes DEF NewInv, CyclesTyped
  <2> QED
    BY <1>1, <1>2, <2>1 DEF Start, NewInv, ClaimBacksWork, Working, At, ghost
<1>3. CASE Claim(w)
  BY <1>1, <1>3 DEF Claim, Claimable, NewInv, ClaimBacksWork, Working, At, ghost, OwnerAssumption
<1>4. CASE Persist(w) \/ Correlate(w) \/ Upsert(w) \/ Attach(w)
  BY <1>1, <1>4 DEF Persist, Correlate, Upsert, Attach, NewInv, ClaimBacksWork, Working, At, ghost
<1>5. CASE Complete(w)
  BY <1>1, <1>5 DEF Complete, NewInv, ClaimBacksWork, Working, At
<1>6. CASE Ends(w)
  <2>1. run'[w] = Rest
    BY <1>6 DEF Ends, NewInv, CyclesTyped
  <2> QED
    BY <1>1, <1>6, <2>1 DEF Ends, NewInv, ClaimBacksWork, Working, At, Rest
<1>7. ASSUME NEW p \in Pc, GoesOn(w, p)
      PROVE  ClaimBacksWork'
  BY <1>1, <1>7 DEF GoesOn, NewInv, ClaimBacksWork, Working, At
<1> QED
  BY <1>2, <1>3, <1>4, <1>5, <1>6, <1>7 DEF Kinds

LEMMA NewStep ==
  ASSUME LastAssumption, TimeAssumption, WindowAssumption, NewInv, NEW w \in Worker, Kinds(w)
  PROVE  NewIsStored'
<1> DEFINE Same == /\ stored' = stored /\ reported' = reported
                   /\ run'[w].fresh = run[w].fresh
                   /\ run'[w].pc \notin {"idle", "claim"}
                   /\ (Working(w) \/ run[w].fresh = {} \/ run'[w].pc = "release")
<1>1. \A v \in Worker \ {w} : run'[v] = run[v]
  BY KindsSetRun DEF NewInv
<1>2. ASSUME Same
      PROVE  NewIsStored'
  BY <1>1, <1>2 DEF NewInv, NewIsStored, Working, At
<1>3. run \in [Worker -> Run] /\ NewIsStored
  BY DEF NewInv, CyclesTyped
<1>4. CASE Start(w)
  <2>1. run'[w].fresh = {} /\ stored' = stored /\ reported' = reported
    BY <1>3, <1>4, StartDoes DEF NewInv, Start, store, ghost
  <2> QED
    BY <1>1, <1>3, <2>1 DEF NewIsStored, Working, At
<1>5. CASE Claim(w)
  <2>1. Goes(w, "search")
    BY <1>5, MoveDoes DEF Claim, Pc, NewInv
  <2> QED
    BY <1>2, <1>3, <1>5, <2>1 DEF Claim, At, Goes, NewIsStored, store, ghost
<1>6. CASE Persist(w)
  <2>1. /\ run'[w].fresh = run[w].fresh \cup (run[w].page \ stored) /\ run'[w].pc = "renew"
        /\ stored' = stored \cup run[w].page /\ reported' = reported
    BY <1>3, <1>6, PersistDoes DEF Persist, NewInv, ghost
  <2>2. Working(w)
    BY <1>6 DEF Persist, Working, At
  <2> QED
    BY <1>1, <1>3, <2>1, <2>2 DEF NewIsStored, Working, At
<1>7. CASE Correlate(w)
  BY <1>2, <1>3, <1>7, CorrelateDoes DEF Correlate, Working, At, NewInv, store, ghost
<1>8. CASE Upsert(w)
  BY <1>2, <1>3, <1>8, UpsertDoes DEF Upsert, Working, At, NewInv, ghost
<1>9. CASE Attach(w)
  BY <1>2, <1>3, <1>9, AttachDoes DEF Attach, Working, At, Goes, NewInv, ghost
<1>10. CASE Complete(w)
  <2>1. Goes(w, "release")
    BY <1>10, MoveDoes DEF Complete, Pc, NewInv
  <2>2. run'[w].fresh = run[w].fresh /\ run'[w].pc = "release" /\ stored' = stored
        /\ reported' = reported \cup run[w].fresh
    BY <1>3, <1>10, <2>1 DEF Complete, Goes, store
  <2> QED
    BY <1>1, <1>3, <2>2 DEF NewIsStored, Working, At
<1>11. CASE Ends(w)
  <2>1. run'[w].fresh = {} /\ run'[w].pc = "idle" /\ stored' = stored /\ reported' = reported
    BY <1>3, <1>11, RestTyped DEF Ends, NewInv
  <2> QED
    BY <1>1, <1>3, <2>1 DEF NewIsStored, Working, At
<1>12. ASSUME NEW p \in Pc, GoesOn(w, p)
       PROVE  NewIsStored'
  BY <1>2, <1>3, <1>12 DEF GoesOn, Goes
<1> QED
  BY <1>4, <1>5, <1>6, <1>7, <1>8, <1>9, <1>10, <1>11, <1>12 DEF Kinds

\* A step that leaves the links, and attaches what it was about to or nothing.
LEMMA ClustersKept ==
  ASSUME NewInv, NEW w \in Worker, Kinds(w), lapsed' = lapsed, linked' = linked,
         LastAssumption, TimeAssumption, WindowAssumption,
         ~lapsed =>
            /\ \A c \in Attaching(run'[w]) : \A d \in c.members : linked[d] = {}
            /\ \A c, e \in Attaching(run'[w]) : c # e => c.members \cap e.members = {}
            /\ run'[w].pc = "attach" => run'[w].doing \notin run'[w].todo
  PROVE  (ClustersAreFree /\ LinksAreOne)'
<1>1. \A v \in Worker \ {w} : run'[v] = run[v]
  BY KindsSetRun DEF NewInv
<1>2. LinksAreOne'
  BY DEF NewInv, LinksAreOne
<1>3. ClustersAreFree'
  BY <1>1 DEF NewInv, ClustersAreFree, Attaching
<1> QED
  BY <1>2, <1>3

LEMMA AttachStep ==
  ASSUME NewInv, NEW w \in Worker, Attach(w), ~lapsed
  PROVE  (ClustersAreFree /\ LinksAreOne)'
<1> DEFINE c == run[w].doing
           M == c.members
<1>1. c \in Group /\ M \subseteq Doc /\ c.id \in Ids /\ linked \in [Doc -> SUBSET Ids]
  BY DEF NewInv, CyclesTyped, Attach, At, Group
<1>2. /\ \A d \in M : linked[d] = {}
      /\ \A e \in run[w].todo : e.members \cap M = {}
      /\ \A e \in run[w].todo : \A d \in e.members : linked[d] = {}
      /\ \A e, f \in run[w].todo : e # f => e.members \cap f.members = {}
  BY DEF NewInv, ClustersAreFree, Attaching, Attach, At
<1>3. /\ \A d \in M : linked'[d] = {c.id}
      /\ \A d \in Doc \ M : linked'[d] = linked[d]
  BY <1>1, <1>2 DEF Attach
<1>4. LinksAreOne'
  BY <1>1, <1>3 DEF NewInv, LinksAreOne
<1>5. run'[w].pc = "upsert" /\ run'[w].todo = run[w].todo
  BY AttachDoes DEF Goes, NewInv, CyclesTyped
<1>6. \A v \in Worker \ {w} : run'[v] = run[v] /\ Attaching(run[v]) = {} /\ run[v].pc # "attach"
  BY WorksAlone DEF NewInv, CyclesTyped, Attach, Step, Working, At, Attaching
<1>7. \A e \in run[w].todo : \A d \in e.members : d \in Doc \ M
  BY <1>2 DEF NewInv, CyclesTyped, Run, Group
<1>8. \A e \in run[w].todo : \A d \in e.members : linked'[d] = {}
  BY <1>2, <1>3, <1>7
<1>9. ClustersAreFree'
  BY <1>2, <1>5, <1>6, <1>8 DEF ClustersAreFree, Attaching
<1> QED
  BY <1>4, <1>9

LEMMA LinksStep ==
  ASSUME LastAssumption, TimeAssumption, WindowAssumption, NewInv, NEW w \in Worker, Kinds(w)
  PROVE  (ClustersAreFree /\ LinksAreOne)'
<1> DEFINE Nothing == run'[w].pc \notin {"upsert", "attach"} /\ lapsed' = lapsed /\ linked' = linked
<1>1. ASSUME Nothing
      PROVE  (ClustersAreFree /\ LinksAreOne)'
  <2>1. Attaching(run'[w]) = {}
    BY <1>1 DEF Attaching
  <2> QED
    BY <1>1, <2>1, ClustersKept
<1>2. run \in [Worker -> Run] /\ CyclesTyped
  BY DEF NewInv, CyclesTyped
<1>3. CASE Start(w)
  BY <1>1, <1>2, <1>3, StartDoes DEF Start, store, ghost
<1>4. CASE Claim(w)
  <2>1. Goes(w, "search")
    BY <1>2, <1>4, MoveDoes DEF Claim, Pc
  <2> QED
    BY <1>1, <1>2, <1>4, <2>1 DEF Claim, Goes, store, ghost
<1>5. CASE Persist(w)
  BY <1>1, <1>2, <1>5, PersistDoes DEF Persist, ghost
<1>6. CASE Correlate(w)
  <2>1. run'[w].pc = "upsert" /\ run'[w].todo = Clusters(Pending)
        /\ lapsed' = lapsed /\ linked' = linked
    BY <1>2, <1>6, CorrelateDoes DEF Correlate, store, ghost
  <2>2. /\ \A c \in Clusters(Pending) : \A d \in c.members : linked[d] = {}
        /\ \A c, e \in Clusters(Pending) : c # e => c.members \cap e.members = {}
    BY <1>2, PendingTyped, ClustersAreDisjoint
  <2>3. Attaching(run'[w]) = Clusters(Pending)
    BY <2>1 DEF Attaching
  <2> QED
    BY <2>1, <2>2, <2>3, ClustersKept
<1>7. CASE Upsert(w)
  <2>1. /\ run'[w].pc = "attach" /\ run'[w].doing \in run[w].todo
        /\ run'[w].todo = run[w].todo \ {run'[w].doing}
        /\ lapsed' = lapsed /\ linked' = linked
    BY <1>2, <1>7, UpsertDoes DEF Upsert, ghost
  <2>2. Attaching(run'[w]) = Attaching(run[w])
    BY <1>7, <2>1 DEF Attaching, Upsert, At
  <2> QED
    BY <2>1, <2>2, ClustersKept DEF NewInv, ClustersAreFree
<1>8. CASE Attach(w)
  <2>1. lapsed' = lapsed
    BY <1>8 DEF Attach, ghost
  <2>2. CASE lapsed
    BY <2>1, <2>2 DEF ClustersAreFree, LinksAreOne
  <2> QED
    BY <1>8, <2>2, AttachStep
<1>9. CASE Complete(w)
  <2>1. Goes(w, "release")
    BY <1>2, <1>9, MoveDoes DEF Complete, Pc
  <2> QED
    BY <1>1, <1>2, <1>9, <2>1 DEF Complete, Goes, store
<1>10. CASE Ends(w)
  BY <1>1, <1>2, <1>10, RestTyped DEF Ends
<1>11. ASSUME NEW p \in Pc, GoesOn(w, p)
       PROVE  (ClustersAreFree /\ LinksAreOne)'
  BY <1>1, <1>2, <1>11 DEF GoesOn, Goes
<1> QED
  BY <1>3, <1>4, <1>5, <1>6, <1>7, <1>8, <1>9, <1>10, <1>11 DEF Kinds

LEMMA NewInvStep ==
  ASSUME LastAssumption, TimeAssumption, WindowAssumption, OwnerAssumption, NewInv, [Next]_vars
  PROVE  NewInv'
<1>1. CyclesTyped'
  BY TypesStep DEF NewInv
<1>2. CASE Outside
  BY <1>1, <1>2, OutsideKeeps DEF NewInv
<1>3. ASSUME NEW w \in Worker, Kinds(w)
      PROVE  NewInv'
  BY <1>1, <1>3, ClaimStep, NewStep, LinksStep DEF NewInv
<1> QED
  BY <1>2, <1>3, StepKinds DEF NewInv

-----------------------------------------------------------------------------
(* What is indexed late: until it is stored, every cycle is before it.     *)

\* Of a cycle: where it reads, and whether its last page was full.
Scan(r) == <<r.since, r.after, r.full>>

\* A document that becomes searchable while no cycle runs is ahead of every cycle that
\* starts later, until one of them stores it.
Unread(d) ==
    /\ d \in indexed /\ InOverlap(d) /\ Ahead(d)
    /\ \A w \in Worker : ~At(w, "idle") =>
          /\ run[w].since <= Time[d] /\ run[w].after < d
          /\ run[w].full => checkpoint.after < d
          /\ At(w, "persist") => d \in run[w].page \/ \A e \in run[w].page : e < d
LateInv == quiet \subseteq Doc /\ \A d \in quiet : d \in stored \/ Unread(d)

\* A step that leaves where the cycles read: one of them may end, or go on with no page.
ScansStay ==
    /\ \A w \in Worker : \/ run'[w] = run[w] \/ run'[w].pc = "idle"
                         \/ /\ ~At(w, "idle") /\ run'[w].pc # "persist"
                            /\ Scan(run'[w]) = Scan(run[w])
    /\ UNCHANGED <<indexed, checkpoint, quiet>> /\ stored \subseteq stored'

LEMMA ScansStayKeeps ==
  ASSUME LateInv, ScansStay
  PROVE  LateInv'
<1> SUFFICES ASSUME NEW d \in quiet, d \notin stored, Unread(d)
             PROVE  Unread(d)'
  BY DEF LateInv, ScansStay
<1>1. d \in indexed' /\ InOverlap(d)' /\ Ahead(d)'
  BY DEF ScansStay, Unread, InOverlap, Ahead
<1>2. ASSUME NEW w \in Worker, run'[w].pc # "idle"
      PROVE  /\ run'[w].since <= Time[d] /\ run'[w].after < d
             /\ run'[w].full => checkpoint'.after < d
             /\ run'[w].pc = "persist" => d \in run'[w].page \/ \A e \in run'[w].page : e < d
  <2>1. CASE run'[w] = run[w]
    BY <1>2, <2>1 DEF ScansStay, Unread, At
  <2>2. CASE ~At(w, "idle") /\ run'[w].pc # "persist" /\ Scan(run'[w]) = Scan(run[w])
    BY <2>2 DEF ScansStay, Unread, Scan
  <2> QED
    BY <1>2, <2>1, <2>2 DEF ScansStay
<1> QED
  BY <1>1, <1>2 DEF Unread, At

\* One step of a cycle's record that leaves its scan.
LEMMA MoveScans ==
  ASSUME NEW r \in Run, NEW p
  PROVE  [r EXCEPT !.pc = p].pc = p /\ Scan([r EXCEPT !.pc = p]) = Scan(r)
  BY DEF Run, Scan

\* A record a step may put in the place of r.
Unmoved(n, r) == n.pc = "idle" \/ (n.pc # "persist" /\ Scan(n) = Scan(r))

LEMMA WorkMoves ==
  ASSUME LastAssumption, CyclesTyped, NEW w \in Worker,
         \/ Claim(w) \/ ClaimRefused(w) \/ Renew(w) \/ Confirm(w) \/ ClaimLost(w)
         \/ Correlate(w) \/ Upsert(w) \/ Attach(w) \/ Correlated(w) \/ Open(w)
         \/ Release(w) \/ Fails(w) \/ Crash(w)
  PROVE  \E n : Step(w, n) /\ Unmoved(n, run[w])
<1>1. run[w] \in Run
  BY DEF CyclesTyped
<1>2. ASSUME NEW p \in Pc \ {"persist"}, Step(w, [run[w] EXCEPT !.pc = p])
      PROVE  \E n : Step(w, n) /\ Unmoved(n, run[w])
  <2>1. [run[w] EXCEPT !.pc = p].pc = p /\ Scan([run[w] EXCEPT !.pc = p]) = Scan(run[w])
    BY <1>1, MoveScans
  <2> QED
    BY <1>2, <2>1 DEF Unmoved
<1>3. CASE ClaimRefused(w) \/ Release(w) \/ Crash(w)
  <2>1. Step(w, Rest) /\ Unmoved(Rest, run[w])
    BY <1>3, RestTyped DEF ClaimRefused, Release, Crash, Unmoved
  <2> QED
    BY <2>1
<1>4. CASE Claim(w) \/ Confirm(w) \/ ClaimLost(w) \/ Correlated(w) \/ Fails(w)
  <2>1. \E p \in Pc \ {"persist"} : Step(w, [run[w] EXCEPT !.pc = p])
    BY <1>4, Zenon DEF Claim, Confirm, ClaimLost, Correlated, Fails, Pc
  <2> QED
    BY <1>2, <2>1
<1>5. CASE Renew(w)
  <2>1. PICK p \in {"search", "confirm"} : Step(w, [run[w] EXCEPT !.pc = p])
    BY <1>5 DEF Renew
  <2>2. p \in Pc \ {"persist"}
    BY DEF Pc
  <2> QED
    BY <1>2, <2>1, <2>2
<1>6. CASE Correlate(w)
  <2>1. PICK T, n : Step(w, n) /\ n = [run[w] EXCEPT !.pc = "upsert", !.todo = T]
    BY <1>6 DEF Correlate
  <2>2. Unmoved(n, run[w])
    BY <1>1, <2>1 DEF Unmoved, Run, Scan
  <2> QED
    BY <2>1, <2>2
<1>7. CASE Upsert(w)
  <2>1. PICK c, T, n : Step(w, n) /\ n = [run[w] EXCEPT !.pc = "attach", !.doing = c, !.todo = T]
    BY <1>7 DEF Upsert
  <2>2. Unmoved(n, run[w])
    BY <1>1, <2>1 DEF Unmoved, Run, Scan
  <2> QED
    BY <2>1, <2>2
<1>8. CASE Attach(w)
  <2>1. PICK S, n : Step(w, n) /\ n = [run[w] EXCEPT !.pc = "upsert", !.doing = None, !.severe = S]
    BY <1>8 DEF Attach
  <2>2. Unmoved(n, run[w])
    BY <1>1, <2>1 DEF Unmoved, Run, Scan
  <2> QED
    BY <2>1, <2>2
<1>9. CASE Open(w)
  <2>1. PICK S, k, n : Step(w, n) /\ n = [run[w] EXCEPT !.severe = S, !.opens = k]
    BY <1>9 DEF Open
  <2>2. run[w].pc # "persist"
    BY <1>9 DEF Open, At
  <2>3. Unmoved(n, run[w])
    BY <1>1, <2>1, <2>2 DEF Unmoved, Run, Scan
  <2> QED
    BY <2>1, <2>3
<1> QED
  BY <1>3, <1>4, <1>5, <1>6, <1>7, <1>8, <1>9

LEMMA WorkStays ==
  ASSUME LastAssumption, CyclesTyped, NEW w \in Worker,
         \/ Claim(w) \/ ClaimRefused(w) \/ Renew(w) \/ Confirm(w) \/ ClaimLost(w)
         \/ Correlate(w) \/ Upsert(w) \/ Attach(w) \/ Correlated(w) \/ Open(w)
         \/ Release(w) \/ Fails(w) \/ Crash(w)
  PROVE  ScansStay
<1>1. PICK n : Step(w, n) /\ Unmoved(n, run[w])
  BY WorkMoves
<1>2. run'[w] = n /\ \A v \in Worker \ {w} : run'[v] = run[v]
  BY <1>1 DEF Step, CyclesTyped
<1>3. ~At(w, "idle")
  BY DEF Claim, ClaimRefused, Renew, Confirm, ClaimLost, Correlate, Upsert, Attach, Correlated,
     Open, Release, Fails, Crash, At
<1>4. UNCHANGED <<indexed, checkpoint, quiet, stored>>
  BY DEF Claim, ClaimRefused, Renew, Confirm, ClaimLost, Correlate, Upsert, Attach, Correlated,
     Open, Release, Fails, Crash, store, ghost
<1> QED
  BY <1>1, <1>2, <1>3, <1>4 DEF ScansStay, Unmoved

\* A page takes the first documents: one that is left is after all of them.
LEMMA PageTakesTheFirst ==
  ASSUME LastAssumption, NEW S \in SUBSET Doc, NEW n \in Nat, NEW d \in S, d \notin First(S, n)
  PROVE  \A e \in First(S, n) : e < d
<1> SUFFICES ASSUME NEW e \in First(S, n), ~(e < d)
             PROVE  FALSE
  OBVIOUS
<1>0. d # e
  OBVIOUS
<1>1. e \in S /\ e \in Doc /\ d \in Doc /\ d # e
  BY <1>0 DEF First
<1>2. d <= e
  BY <1>1 DEF Doc, LastAssumption
<1> DEFINE A == {x \in S : x < d}
           B == {x \in S : x < e}
<1>3. A \subseteq B
  <2> SUFFICES ASSUME NEW x \in S, x < d
               PROVE  x < e
    OBVIOUS
  <2>1. x \in Int /\ d \in Int /\ e \in Int
    BY <1>1 DEF Doc, LastAssumption
  <2> QED
    BY <1>2, <2>1
<1>4. IsFiniteSet(B)
  <2>1. IsFiniteSet(Doc)
    BY FS_Interval DEF Doc, LastAssumption
  <2> QED
    BY <2>1, FS_Subset
<1>5. Cardinality(A) <= Cardinality(B) /\ Cardinality(A) \in Nat /\ Cardinality(B) \in Nat
  BY <1>3, <1>4, FS_Subset, FS_CardinalityType
<1>6. Cardinality(B) < n /\ ~(Cardinality(A) < n)
  BY DEF First
<1> QED
  BY <1>5, <1>6

\* No time that high-water mark or page reaches before d takes d out of the overlap.
LEMMA EarlierKeepsOverlap ==
  ASSUME LastAssumption, TimeAssumption, WindowAssumption, NEW d \in Doc, NEW c, c.high \in 0..Last,
         c.high < d
  PROVE  Since(c) <= Time[d]
<1>1. CASE c.high = 0
  BY <1>1 DEF Since, TimeAssumption, Doc
<1>2. CASE c.high # 0
  <2>1. c.high \in Doc /\ Time[c.high] <= Time[d]
    BY <1>2 DEF Doc, LastAssumption, TimeAssumption
  <2>2. Time[c.high] \in Nat /\ Time[d] \in Nat /\ Overlap \in Nat
    BY <2>1 DEF TimeAssumption, WindowAssumption
  <2> QED
    BY <1>2, <2>1, <2>2 DEF Since
<1> QED
  BY <1>1, <1>2

LEMMA StartLate ==
  ASSUME LastAssumption, TimeAssumption, WindowAssumption, CyclesTyped, LateInv,
         NEW w \in Worker, Start(w)
  PROVE  LateInv'
<1>1. UNCHANGED <<indexed, stored, checkpoint, quiet>>
  BY DEF Start, store, ghost
<1>2. PICK n : /\ Step(w, n) /\ n.pc = "claim" /\ n.since = Since(checkpoint)
               /\ n.after = Cursor(checkpoint) /\ ~n.full
  <2>1. PICK l, s, a : l = redis.up /\ s = Since(checkpoint) /\ a = Cursor(checkpoint)
    OBVIOUS
  <2>2. PICK n : n = [Rest EXCEPT !.pc = "claim", !.locked = l, !.since = s, !.after = a]
    OBVIOUS
  <2>3. n.pc = "claim" /\ n.since = s /\ n.after = a /\ ~n.full
    BY <2>2 DEF Rest
  <2>4. Step(w, n)
    BY <2>1, <2>2 DEF Start
  <2> QED
    BY <2>1, <2>3, <2>4
<1>3. run'[w] = n /\ \A v \in Worker \ {w} : run'[v] = run[v]
  BY <1>2 DEF Step, CyclesTyped
<1> SUFFICES ASSUME NEW d \in quiet, d \notin stored, Unread(d)
             PROVE  Unread(d)'
  BY <1>1 DEF LateInv
<1>4. d \in indexed' /\ InOverlap(d)' /\ Ahead(d)'
  BY <1>1 DEF Unread, InOverlap, Ahead
<1>5. n.since <= Time[d] /\ n.after < d
  <2>1. n.since <= Time[d]
    BY <1>2 DEF Unread, InOverlap
  <2>2. d \in Doc /\ 0 < d
    BY DEF LateInv, Doc, LastAssumption
  <2> QED
    BY <1>2, <2>1, <2>2 DEF Cursor, Unread, Ahead
<1>6. ASSUME NEW v \in Worker, run'[v].pc # "idle"
      PROVE  /\ run'[v].since <= Time[d] /\ run'[v].after < d
             /\ run'[v].full => checkpoint'.after < d
             /\ run'[v].pc = "persist" => d \in run'[v].page \/ \A e \in run'[v].page : e < d
  <2>1. CASE v = w
    BY <1>2, <1>3, <1>5, <2>1
  <2>2. CASE v # w
    BY <1>1, <1>3, <1>6, <2>2 DEF Unread, At
  <2> QED
    BY <2>1, <2>2
<1> QED
  BY <1>4, <1>6 DEF Unread, At

LEMMA SearchLate ==
  ASSUME LastAssumption, PageAssumption, CyclesTyped, LateInv, NEW w \in Worker, Search(w)
  PROVE  LateInv'
<1>1. UNCHANGED <<indexed, stored, checkpoint, quiet>> /\ ~At(w, "idle")
  BY DEF Search, store, ghost, At
<1>2. run[w] \in Run
  BY DEF CyclesTyped
<1>3. PICK n : Step(w, n) /\ n.page = Page(w) /\ Scan(n) = Scan(run[w])
  <2>1. PICK n, p : Step(w, n) /\ n = [run[w] EXCEPT !.pc = "persist", !.page = p] /\ p = Page(w)
    BY DEF Search
  <2>2. n.page = p /\ Scan(n) = Scan(run[w])
    BY <1>2, <2>1 DEF Run, Scan
  <2> QED
    BY <2>1, <2>2
<1>4. run'[w] = n /\ \A v \in Worker \ {w} : run'[v] = run[v]
  BY <1>3 DEF Step, CyclesTyped
<1> SUFFICES ASSUME NEW d \in quiet, d \notin stored, Unread(d)
             PROVE  Unread(d)'
  BY <1>1 DEF LateInv
<1>5. d \in indexed' /\ InOverlap(d)' /\ Ahead(d)'
  BY <1>1 DEF Unread, InOverlap, Ahead
<1>6. n.since <= Time[d] /\ n.after < d /\ (n.full => checkpoint.after < d)
  BY <1>1, <1>3 DEF Unread, Scan
<1>7. d \in Page(w) \/ \A e \in Page(w) : e < d
  <2> DEFINE S == {e \in indexed : Time[e] >= run[w].since /\ e > run[w].after}
  <2>1. S \in SUBSET Doc /\ PageSize \in Nat
    BY DEF CyclesTyped, PageAssumption
  <2>2. d \in S
    BY <1>1, <1>5, <1>6, <1>3 DEF Scan, LateInv, Doc, TimeAssumption
  <2> HIDE DEF S
  <2>3. d \in First(S, PageSize) \/ \A e \in First(S, PageSize) : e < d
    BY <2>1, <2>2, PageTakesTheFirst
  <2> QED
    BY <2>3 DEF Page, S
<1>8. ASSUME NEW v \in Worker, run'[v].pc # "idle"
      PROVE  /\ run'[v].since <= Time[d] /\ run'[v].after < d
             /\ run'[v].full => checkpoint'.after < d
             /\ run'[v].pc = "persist" => d \in run'[v].page \/ \A e \in run'[v].page : e < d
  <2>1. CASE v = w
    BY <1>1, <1>3, <1>4, <1>6, <1>7, <2>1
  <2>2. CASE v # w
    BY <1>1, <1>4, <1>8, <2>2 DEF Unread, At
  <2> QED
    BY <2>1, <2>2
<1> QED
  BY <1>5, <1>8 DEF Unread, At

LEMMA PersistLate ==
  ASSUME LastAssumption, TimeAssumption, PageAssumption, WindowAssumption, CyclesTyped, LateInv,
         NEW w \in Worker, Persist(w)
  PROVE  LateInv'
<1>1. /\ UNCHANGED <<indexed, quiet>> /\ ~At(w, "idle") /\ At(w, "persist")
      /\ stored' = stored \cup run[w].page
  BY DEF Persist, ghost, At
<1>2. PICK p \in SUBSET Doc : p = run[w].page
  BY DEF CyclesTyped, Run
<1>3. run[w] \in Run
  BY DEF CyclesTyped
<1>4. PICK n : /\ Step(w, n) /\ n.pc = "renew" /\ n.since = run[w].since
               /\ (n.full => Cardinality(p) >= PageSize)
               /\ n.after = IF p = {} THEN run[w].after ELSE LastOf(p)
  <2>1. PICK f, b, a : /\ f = Inserted(p) /\ b = (Cardinality(p) >= PageSize)
                       /\ a = IF p = {} THEN run[w].after ELSE LastOf(p)
    OBVIOUS
  <2>2. PICK k : k = [run[w] EXCEPT !.pc = "renew", !.page = {}, !.pages = @ + 1, !.fresh = @ \cup f]
    OBVIOUS
  <2>3. k.pc = "renew" /\ k.since = run[w].since /\ DOMAIN k = DOMAIN run[w]
    BY <1>3, <2>2 DEF Run
  <2>4. PICK n : n = [k EXCEPT !.full = b, !.after = a]
    OBVIOUS
  <2>5. n.pc = "renew" /\ n.since = run[w].since /\ n.full = b /\ n.after = a
    <3>1. {"full", "after", "pc", "since"} \subseteq DOMAIN k
      BY <1>3, <2>3 DEF Run
    <3> QED
      BY <2>3, <2>4, <3>1
  <2>6. Step(w, n)
    BY <1>2, <2>1, <2>2, <2>4 DEF Persist
  <2> QED
    BY <2>1, <2>5, <2>6
<1>5. run'[w] = n /\ \A v \in Worker \ {w} : run'[v] = run[v]
  BY <1>4 DEF Step, CyclesTyped
<1> SUFFICES ASSUME NEW d \in quiet, d \notin stored', Unread(d)
             PROVE  Unread(d)'
  BY <1>1 DEF LateInv
<1>6. d \in Doc /\ \A e \in p : e < d
  BY <1>1, <1>2 DEF Unread, LateInv
<1>7. CASE p = {}
  <2>1. checkpoint' = checkpoint
    BY <1>2, <1>7 DEF Persist, Advance
  <2>2. ~n.full /\ n.after = run[w].after
    <3>1. Cardinality(p) = 0 /\ ~(Cardinality(p) >= PageSize)
      BY <1>7, FS_EmptySet DEF PageAssumption
    <3> QED
      BY <1>4, <1>7, <3>1
  <2>3. ASSUME NEW v \in Worker, run'[v].pc # "idle"
        PROVE  /\ run'[v].since <= Time[d] /\ run'[v].after < d
               /\ run'[v].full => checkpoint'.after < d
               /\ run'[v].pc = "persist" => d \in run'[v].page \/ \A e \in run'[v].page : e < d
    <3>1. CASE v = w
      BY <1>1, <1>4, <1>5, <2>2, <3>1 DEF Unread
    <3>2. CASE v # w
      BY <2>1, <1>5, <2>3, <3>2 DEF Unread, At
    <3> QED
      BY <3>1, <3>2
  <2> QED
    BY <1>1, <2>1, <2>3 DEF Unread, At, InOverlap, Ahead
<1>8. CASE p # {}
  <2>1. LastOf(p) \in Doc /\ LastOf(p) < d
    BY <1>6, <1>8, LastOfIsLast
  <2>2. PICK l \in Doc : l = LastOf(p) /\ l < d
    BY <2>1
  <2>3. PICK h : h = Later(checkpoint.high, l)
    OBVIOUS
  <2>4. h \in 0..Last /\ (h = checkpoint.high \/ h = l)
    BY <2>2, <2>3 DEF Later, CyclesTyped, Doc, LastAssumption
  <2>5. checkpoint' = [checkpoint EXCEPT !.high = Later(@, l), !.after = l]
    BY <1>2, <1>8, <2>2 DEF Persist, Advance
  <2>6. checkpoint'.high = h /\ checkpoint'.after = l /\ checkpoint'.after < d
    BY <2>2, <2>3, <2>5 DEF CyclesTyped
  <2>7. Since(checkpoint') <= Time[d]
    <3>1. CASE h = l
      <4>1. PICK c : c = checkpoint'
        OBVIOUS
      <4>2. c.high \in 0..Last /\ c.high < d
        BY <2>2, <2>4, <2>6, <3>1, <4>1
      <4> QED
        BY <1>6, <4>1, <4>2, EarlierKeepsOverlap
    <3>2. CASE h = checkpoint.high
      BY <2>6, <3>2 DEF Since, Unread, InOverlap
    <3> QED
      BY <2>4, <3>1, <3>2
  <2>8. ASSUME NEW v \in Worker, run'[v].pc # "idle"
        PROVE  /\ run'[v].since <= Time[d] /\ run'[v].after < d
               /\ run'[v].full => checkpoint'.after < d
               /\ run'[v].pc = "persist" => d \in run'[v].page \/ \A e \in run'[v].page : e < d
    <3>1. CASE v = w
      BY <1>1, <1>4, <1>5, <1>8, <2>2, <2>6, <3>1 DEF Unread
    <3>2. CASE v # w
      BY <2>6, <1>5, <2>8, <3>2 DEF Unread, At
    <3> QED
      BY <3>1, <3>2
  <2> QED
    BY <1>1, <2>6, <2>7, <2>8 DEF Unread, At, InOverlap, Ahead
<1> QED
  BY <1>7, <1>8

LEMMA CompleteLate ==
  ASSUME CyclesTyped, LateInv, NEW w \in Worker, Complete(w)
  PROVE  LateInv'
<1>1. UNCHANGED <<indexed, stored, quiet>> /\ ~At(w, "idle")
  BY DEF Complete, store, At
<1>2. run[w] \in Run
  BY DEF CyclesTyped
<1>3. PICK n : Step(w, n) /\ n.pc = "release" /\ Scan(n) = Scan(run[w])
  <2>1. PICK n : Step(w, n) /\ n = [run[w] EXCEPT !.pc = "release"]
    BY DEF Complete
  <2>2. n.pc = "release" /\ Scan(n) = Scan(run[w])
    BY <1>2, <2>1 DEF Run, Scan
  <2> QED
    BY <2>1, <2>2
<1>4. run'[w] = n /\ \A v \in Worker \ {w} : run'[v] = run[v]
  BY <1>3 DEF Step, CyclesTyped
<1>5. PICK b : /\ checkpoint' = [checkpoint EXCEPT !.truncated = b] /\ (b => run[w].full)
  BY DEF Complete, Truncated
<1>6. /\ checkpoint'.high = checkpoint.high /\ checkpoint'.after = checkpoint.after
      /\ checkpoint'.truncated = b
  BY <1>5 DEF CyclesTyped
<1> SUFFICES ASSUME NEW d \in quiet, d \notin stored, Unread(d)
             PROVE  Unread(d)'
  BY <1>1 DEF LateInv
<1>7. d \in indexed' /\ InOverlap(d)' /\ Ahead(d)'
  BY <1>1, <1>5, <1>6 DEF Unread, InOverlap, Ahead, Since
<1>8. ASSUME NEW v \in Worker, run'[v].pc # "idle"
      PROVE  /\ run'[v].since <= Time[d] /\ run'[v].after < d
             /\ run'[v].full => checkpoint'.after < d
             /\ run'[v].pc = "persist" => d \in run'[v].page \/ \A e \in run'[v].page : e < d
  <2>1. CASE v = w
    BY <1>1, <1>3, <1>4, <1>6, <2>1 DEF Unread, Scan
  <2>2. CASE v # w
    BY <1>4, <1>6, <1>8, <2>2 DEF Unread, At
  <2> QED
    BY <2>1, <2>2
<1> QED
  BY <1>7, <1>8 DEF Unread, At

LEMMA IndexLate ==
  ASSUME LateInv, NEW x \in Doc, Index(x)
  PROVE  LateInv'
<1>1. /\ UNCHANGED <<stored, checkpoint, run>> /\ indexed' = indexed \cup {x}
      /\ quiet' = quiet \/ (quiet' = quiet \cup {x} /\ Quiet /\ InOverlap(x) /\ Ahead(x))
  BY DEF Index, store
<1>2. ASSUME NEW d \in quiet, Unread(d)
      PROVE  Unread(d)'
  BY <1>1, <1>2 DEF Unread, At, InOverlap, Ahead
<1>3. ASSUME Quiet, InOverlap(x), Ahead(x)
      PROVE  Unread(x)'
  BY <1>1, <1>3 DEF Unread, At, InOverlap, Ahead, Quiet
<1> QED
  BY <1>1, <1>2, <1>3 DEF LateInv

LEMMA LateStep ==
  ASSUME LastAssumption, TimeAssumption, PageAssumption, WindowAssumption, CyclesTyped, LateInv,
         [Next]_vars
  PROVE  LateInv'
<1>1. ASSUME NEW w \in Worker, Start(w) \/ Cycle(w) \/ Fails(w) \/ Crash(w)
      PROVE  LateInv'
  <2>1. CASE Start(w) \/ Search(w) \/ Persist(w) \/ Complete(w)
    BY <2>1, StartLate, SearchLate, PersistLate, CompleteLate
  <2>2. CASE ~(Start(w) \/ Search(w) \/ Persist(w) \/ Complete(w))
    BY <1>1, <2>2, WorkStays, ScansStayKeeps DEF Cycle
  <2> QED
    BY <2>1, <2>2
<1>2. ASSUME NEW d \in Doc, Remember(d)
      PROVE  LateInv'
  <2>1. ScansStay
    BY <1>2 DEF Remember, ScansStay, ghost
  <2> QED
    BY <2>1, ScansStayKeeps
<1>3. CASE Expire \/ Lapse \/ RedisExpires \/ RedisGoes \/ RedisReturns \/ UNCHANGED vars
  <2>1. ScansStay
    BY <1>3 DEF Expire, Lapse, RedisExpires, RedisGoes, RedisReturns, vars, ScansStay, store, ghost
  <2> QED
    BY <2>1, ScansStayKeeps
<1> QED
  BY <1>1, <1>2, <1>3, IndexLate DEF Next

-----------------------------------------------------------------------------
(* The types.                                                              *)

\* What CyclesTyped leaves out of TypeOK.
RecordsTyped ==
    /\ findings \subseteq FindingId /\ opened \subseteq FindingId
    /\ claim \in [owner : Worker \cup {None, Gone}, live : BOOLEAN]
    /\ reported \subseteq Doc /\ lapsed \in BOOLEAN /\ quiet \subseteq Doc
    /\ capped \subseteq FindingId /\ faults \in 0..MaxFaults

LEMMA RecordsInit ==
  ASSUME WindowAssumption, Init
  PROVE  RecordsTyped
<1>1. [owner |-> None, live |-> FALSE] \in [owner : Worker \cup {None, Gone}, live : BOOLEAN]
  OBVIOUS
<1>2. 0 \in 0..MaxFaults
  BY DEF WindowAssumption
<1> QED
  BY <1>1, <1>2 DEF Init, RecordsTyped

LEMMA RecordsStep ==
  ASSUME LastAssumption, WindowAssumption, CyclesTyped, RecordsTyped, [Next]_vars
  PROVE  RecordsTyped'
<1> DEFINE Claims == [owner : Worker \cup {None, Gone}, live : BOOLEAN]
           Same == UNCHANGED <<findings, opened, reported, lapsed, quiet, capped>>
<1>1. faults < MaxFaults /\ faults' = faults + 1 => faults' \in 0..MaxFaults
  BY DEF RecordsTyped, WindowAssumption
<1>2. ASSUME NEW w \in Worker, Claim(w) \/ Renew(w) \/ Confirm(w) \/ Release(w)
      PROVE  RecordsTyped'
  <2>1. claim' = claim \/ claim' = [owner |-> w, live |-> TRUE] \/ claim' = [owner |-> None, live |-> FALSE]
    BY <1>2 DEF Claim, Renew, Confirm, Release
  <2>2. claim \in Claims
    BY DEF RecordsTyped
  <2>3. [owner |-> w, live |-> TRUE] \in Claims /\ [owner |-> None, live |-> FALSE] \in Claims
    OBVIOUS
  <2>4. claim' \in Claims
    <3> HIDE DEF Claims
    <3> QED
      BY <2>1, <2>2, <2>3
  <2> QED
    BY <1>2, <2>4 DEF Claim, Renew, Confirm, Release, store, ghost, RecordsTyped
<1>3. ASSUME NEW w \in Worker, Upsert(w)
      PROVE  RecordsTyped'
  <2>1. \A c \in run[w].todo : c.id \in FindingId
    BY IdsAreOfDocuments DEF CyclesTyped, Run, Group
  <2> QED
    BY <1>3, <2>1 DEF Upsert, ghost, RecordsTyped
<1>4. ASSUME NEW w \in Worker, Open(w)
      PROVE  RecordsTyped'
  <2>1. run[w].severe \subseteq FindingId
    BY IdsAreOfDocuments DEF CyclesTyped, Run
  <2> QED
    BY <1>1, <1>4, <2>1 DEF Open, RecordsTyped
<1>5. ASSUME NEW w \in Worker, Complete(w)
      PROVE  RecordsTyped'
  <2>1. run[w].fresh \subseteq Doc /\ run[w].severe \subseteq FindingId
    BY IdsAreOfDocuments DEF CyclesTyped, Run
  <2> QED
    BY <1>5, <2>1 DEF Complete, store, RecordsTyped
<1>6. ASSUME NEW w \in Worker, Crash(w) \/ Fails(w)
      PROVE  RecordsTyped'
  <2>1. claim' \in Claims
    BY <1>6 DEF Crash, Fails, RecordsTyped
  <2> QED
    BY <1>1, <1>6, <2>1 DEF Crash, Fails, store, RecordsTyped
<1>7. ASSUME NEW d \in Doc, Index(d) \/ Remember(d)
      PROVE  RecordsTyped'
  BY <1>7 DEF Index, Remember, store, ghost, RecordsTyped
<1>8. CASE Expire \/ Lapse
  BY <1>1, <1>8 DEF Expire, Lapse, store, ghost, RecordsTyped
<1>9. CASE RedisExpires \/ RedisGoes \/ RedisReturns
  BY <1>1, <1>9 DEF RedisExpires, RedisGoes, RedisReturns, store, ghost, RecordsTyped
<1>10. ASSUME NEW w \in Worker,
              \/ Start(w) \/ ClaimRefused(w) \/ Search(w) \/ Persist(w) \/ ClaimLost(w)
              \/ Correlate(w) \/ Attach(w) \/ Correlated(w)
       PROVE  RecordsTyped'
  BY <1>10 DEF Start, ClaimRefused, Search, Persist, ClaimLost, Correlate, Attach, Correlated,
       store, ghost, RecordsTyped
<1>11. CASE UNCHANGED vars
  BY <1>11 DEF vars, store, ghost, RecordsTyped
<1> QED
  BY <1>2, <1>3, <1>4, <1>5, <1>6, <1>7, <1>8, <1>9, <1>10, <1>11 DEF Next, Cycle

-----------------------------------------------------------------------------
(* Severe findings: a cycle that has one opens it, or leaves it on record. *)

Active == {"upsert", "attach", "open"}

\* Short of a fault, a cycle with candidates has them before it, or is over.
CandidatesAhead ==
    \A w \in Worker : \/ run[w].severe = {} \/ faults > 0 \/ run[w].pc \in Active
                      \/ At(w, "release") /\ run[w].severe \subseteq capped
SevereInv == OnlyAFaultDropsAnInvestigation /\ CandidatesAhead

\* A step that attaches and opens nothing: the cycle keeps its candidates where it can
\* open them, or a fault is spent.
SevereStays(w, n) ==
    /\ Step(w, n) /\ n.severe = run[w].severe
    /\ faults' > 0 \/ (~At(w, "release") /\ (run[w].pc \in Active => n.pc \in Active))
    /\ UNCHANGED <<linked, opened, capped>> /\ faults' \in {faults, faults + 1}

LEMMA SevereStaysKeeps ==
  ASSUME CyclesTyped, RecordsTyped, SevereInv, NEW w \in Worker, NEW n, SevereStays(w, n)
  PROVE  SevereInv'
<1>1. run'[w] = n /\ \A v \in Worker \ {w} : run'[v] = run[v]
  BY DEF SevereStays, Step, CyclesTyped
<1>2. \A v \in Worker : run'[v].severe = run[v].severe
  BY <1>1 DEF SevereStays
<1>3. faults \in Nat /\ (faults > 0 => faults' > 0)
  BY DEF RecordsTyped, SevereStays
<1>4. OnlyAFaultDropsAnInvestigation'
  BY <1>2, <1>3 DEF SevereInv, OnlyAFaultDropsAnInvestigation, SevereStays
<1>5. CandidatesAhead'
  BY <1>1, <1>2, <1>3 DEF SevereInv, CandidatesAhead, SevereStays, At
<1> QED
  BY <1>4, <1>5 DEF SevereInv

\* What a step of a cycle puts in the place of its record, of the candidates.
LEMMA WorkHolds ==
  ASSUME CyclesTyped, NEW w \in Worker,
         \/ Claim(w) \/ Search(w) \/ Persist(w) \/ Renew(w) \/ Confirm(w) \/ ClaimLost(w)
         \/ Correlate(w) \/ Upsert(w) \/ Correlated(w) \/ Fails(w)
  PROVE  \E n : /\ Step(w, n) /\ n.severe = run[w].severe
                /\ Fails(w) \/ (run[w].pc \in Active => n.pc \in Active)
<1> DEFINE Held(n) == n.severe = run[w].severe /\ (Fails(w) \/ (run[w].pc \in Active => n.pc \in Active))
<1>1. run[w] \in Run
  BY DEF CyclesTyped
<1>2. ASSUME NEW p \in Pc, Step(w, [run[w] EXCEPT !.pc = p]),
             Fails(w) \/ p \in Active \/ run[w].pc \notin Active
      PROVE  \E n : Step(w, n) /\ Held(n)
  <2>1. PICK n : Step(w, n) /\ n = [run[w] EXCEPT !.pc = p]
    BY <1>2
  <2>2. n.severe = run[w].severe /\ n.pc = p
    BY <1>1, <2>1 DEF Run
  <2> QED
    BY <1>2, <2>1, <2>2
<1>3. CASE Claim(w)
  <2>1. "search" \in Pc /\ Step(w, [run[w] EXCEPT !.pc = "search"]) /\ run[w].pc \notin Active
    BY <1>3 DEF Claim, At, Pc, Active
  <2> QED
    BY <1>2, <2>1, Zenon
<1>4. CASE Renew(w)
  <2>1. PICK p \in Pc : Step(w, [run[w] EXCEPT !.pc = p])
    <3>1. PICK p \in {"search", "confirm"} : Step(w, [run[w] EXCEPT !.pc = p])
      BY <1>4 DEF Renew
    <3> QED
      BY <3>1 DEF Pc
  <2>2. run[w].pc \notin Active
    BY <1>4 DEF Renew, At, Active
  <2> QED
    BY <1>2, <2>1, <2>2, Zenon
<1>5. CASE Confirm(w)
  <2>1. "correlate" \in Pc /\ Step(w, [run[w] EXCEPT !.pc = "correlate"]) /\ run[w].pc \notin Active
    BY <1>5 DEF Confirm, At, Pc, Active
  <2> QED
    BY <1>2, <2>1, Zenon
<1>6. CASE ClaimLost(w)
  <2>1. "release" \in Pc /\ Step(w, [run[w] EXCEPT !.pc = "release"]) /\ run[w].pc \notin Active
    BY <1>6 DEF ClaimLost, Pc, Active
  <2> QED
    BY <1>2, <2>1, Zenon
<1>7. CASE Correlated(w)
  <2>1. "open" \in Pc /\ Step(w, [run[w] EXCEPT !.pc = "open"]) /\ "open" \in Active
    BY <1>7 DEF Correlated, Pc, Active
  <2> QED
    BY <1>2, <2>1, Zenon
<1>8. CASE Fails(w)
  <2>1. "release" \in Pc /\ Step(w, [run[w] EXCEPT !.pc = "release"])
    BY <1>8 DEF Fails, Pc
  <2> QED
    BY <1>2, <1>8, <2>1, Zenon
<1>9. CASE Search(w)
  <2>1. PICK p, n : Step(w, n) /\ n = [run[w] EXCEPT !.pc = "persist", !.page = p]
    BY <1>9 DEF Search
  <2>2. n.severe = run[w].severe /\ run[w].pc \notin Active
    BY <1>1, <1>9, <2>1 DEF Run, Search, At, Active
  <2> QED
    BY <2>1, <2>2
<1>10. CASE Persist(w)
  <2>0. PICK p : p = run[w].page
    OBVIOUS
  <2>1. PICK f, b, a : /\ f = Inserted(p) /\ b = (Cardinality(p) >= PageSize)
                       /\ a = IF p = {} THEN run[w].after ELSE LastOf(p)
    OBVIOUS
  <2>2. PICK k : k = [run[w] EXCEPT !.pc = "renew", !.page = {}, !.pages = @ + 1, !.fresh = @ \cup f]
    OBVIOUS
  <2>3. k.severe = run[w].severe /\ DOMAIN k = DOMAIN run[w]
    BY <1>1, <2>2 DEF Run
  <2>4. PICK n : n = [k EXCEPT !.full = b, !.after = a]
    OBVIOUS
  <2>5. n.severe = run[w].severe
    <3>1. "severe" \in DOMAIN k
      BY <1>1, <2>3 DEF Run
    <3> QED
      BY <2>3, <2>4, <3>1
  <2>6. Step(w, n)
    BY <1>10, <2>0, <2>1, <2>2, <2>4 DEF Persist
  <2>7. run[w].pc \notin Active
    BY <1>10 DEF Persist, At, Active
  <2> QED
    BY <2>5, <2>6, <2>7
<1>11. CASE Correlate(w)
  <2>1. PICK T, n : Step(w, n) /\ n = [run[w] EXCEPT !.pc = "upsert", !.todo = T]
    BY <1>11 DEF Correlate
  <2>2. n.severe = run[w].severe /\ run[w].pc \notin Active
    BY <1>1, <1>11, <2>1 DEF Run, Correlate, At, Active
  <2> QED
    BY <2>1, <2>2
<1>12. CASE Upsert(w)
  <2>1. PICK c, T, n : Step(w, n) /\ n = [run[w] EXCEPT !.pc = "attach", !.doing = c, !.todo = T]
    BY <1>12 DEF Upsert
  <2>2. n.severe = run[w].severe /\ n.pc \in Active
    BY <1>1, <2>1 DEF Run, Active
  <2> QED
    BY <2>1, <2>2
<1> QED
  BY <1>3, <1>4, <1>5, <1>6, <1>7, <1>8, <1>9, <1>10, <1>11, <1>12

LEMMA WorkKeepsSevere ==
  ASSUME CyclesTyped, RecordsTyped, NEW w \in Worker,
         \/ Claim(w) \/ Search(w) \/ Persist(w) \/ Renew(w) \/ Confirm(w) \/ ClaimLost(w)
         \/ Correlate(w) \/ Upsert(w) \/ Correlated(w) \/ Fails(w)
  PROVE  \E n : SevereStays(w, n)
<1>1. PICK n : /\ Step(w, n) /\ n.severe = run[w].severe
               /\ Fails(w) \/ (run[w].pc \in Active => n.pc \in Active)
  BY WorkHolds
<1>2. UNCHANGED <<linked, opened, capped>> /\ run[w].pc # "release"
  BY DEF Claim, Search, Persist, Renew, Confirm, ClaimLost, Correlate, Upsert, Correlated, Fails,
     At, store, ghost
<1>3. CASE Fails(w)
  <2>1. faults' = faults + 1 /\ faults' > 0
    BY <1>3 DEF Fails, RecordsTyped
  <2> QED
    BY <1>1, <1>2, <2>1 DEF SevereStays
<1>4. CASE ~Fails(w)
  <2>1. faults' = faults
    <3>1. \/ Claim(w) \/ Search(w) \/ Persist(w) \/ Renew(w) \/ Confirm(w) \/ ClaimLost(w)
          \/ Correlate(w) \/ Upsert(w) \/ Correlated(w)
      BY <1>4
    <3> QED
      BY <3>1 DEF Claim, Search, Persist, Renew, Confirm, ClaimLost, Correlate, Upsert, Correlated,
         ghost
  <2> QED
    BY <1>1, <1>2, <1>4, <2>1 DEF SevereStays, At
<1> QED
  BY <1>3, <1>4

\* A cycle that starts or is over has no candidate that is not on record.
LEMMA EndsSevere ==
  ASSUME CyclesTyped, RecordsTyped, SevereInv, NEW w \in Worker,
         Start(w) \/ ClaimRefused(w) \/ Release(w) \/ Crash(w)
  PROVE  SevereInv'
<1>1. PICK n : Step(w, n) /\ n.severe = {}
  <2>1. CASE Start(w)
    <3>1. PICK l, s, a : l = redis.up /\ s = Since(checkpoint) /\ a = Cursor(checkpoint)
      OBVIOUS
    <3>2. PICK n : n = [Rest EXCEPT !.pc = "claim", !.locked = l, !.since = s, !.after = a]
      OBVIOUS
    <3>3. n.severe = {}
      BY <3>2 DEF Rest
    <3>4. Step(w, n)
      BY <2>1, <3>1, <3>2 DEF Start
    <3> QED
      BY <3>3, <3>4
  <2>2. CASE ~Start(w)
    <3>1. Step(w, Rest)
      BY <2>2 DEF ClaimRefused, Release, Crash
    <3>2. Rest.severe = {}
      BY DEF Rest
    <3> QED
      BY <3>1, <3>2
  <2> QED
    BY <2>1, <2>2
<1>2. run'[w] = n /\ \A v \in Worker \ {w} : run'[v] = run[v]
  BY <1>1 DEF Step, CyclesTyped
<1>3. UNCHANGED <<linked, opened, capped>>
  BY DEF Start, ClaimRefused, Release, Crash, store, ghost
<1>4. /\ faults \in Nat /\ faults' \in {faults, faults + 1}
      /\ (run[w].severe \subseteq capped \/ faults' > 0)
  <2>1. faults \in Nat
    BY DEF RecordsTyped
  <2>2. CASE Crash(w)
    BY <2>1, <2>2 DEF Crash
  <2>3. CASE ~Crash(w)
    <3>1. faults' = faults /\ run[w].pc \in {"idle", "claim", "release"}
      <4>1. Start(w) \/ ClaimRefused(w) \/ Release(w)
        BY <2>3
      <4> QED
        BY <4>1 DEF Start, ClaimRefused, Release, At, ghost
    <3>2. run[w].pc \notin Active
      BY <3>1 DEF Active
    <3> QED
      BY <2>1, <3>1, <3>2 DEF SevereInv, CandidatesAhead, At
  <2> QED
    BY <2>2, <2>3
<1>5. OnlyAFaultDropsAnInvestigation'
  <2> SUFFICES ASSUME NEW d \in Severe, NEW f \in linked[d], f \notin opened, ~(faults' > 0),
                      f \notin capped
               PROVE  \E v \in Worker : f \in run'[v].severe
    BY <1>3 DEF OnlyAFaultDropsAnInvestigation
  <2>1. PICK v \in Worker : f \in run[v].severe
    BY <1>4 DEF SevereInv, OnlyAFaultDropsAnInvestigation
  <2>2. v # w
    BY <1>4, <2>1
  <2> QED
    BY <1>2, <2>1, <2>2
<1>6. CandidatesAhead'
  BY <1>1, <1>2, <1>3, <1>4 DEF SevereInv, CandidatesAhead, At
<1> QED
  BY <1>5, <1>6 DEF SevereInv

LEMMA OpenSevere ==
  ASSUME CyclesTyped, RecordsTyped, SevereInv, NEW w \in Worker, Open(w)
  PROVE  SevereInv'
<1>1. PICK f \in run[w].severe :
        /\ \/ opened' = opened \cup {f} /\ faults' = faults
           \/ faults' = faults + 1 /\ opened' = opened
        /\ Step(w, [run[w] EXCEPT !.severe = @ \ {f}, !.opens = @ + 1])
  BY DEF Open
<1>2. PICK n : n = [run[w] EXCEPT !.severe = @ \ {f}, !.opens = @ + 1] /\ Step(w, n)
  BY <1>1
<1>3. n.severe = run[w].severe \ {f} /\ n.pc = run[w].pc /\ run[w].pc = "open"
  BY <1>2 DEF CyclesTyped, Run, Open, At
<1>4. run'[w] = n /\ \A v \in Worker \ {w} : run'[v] = run[v]
  BY <1>2 DEF Step, CyclesTyped
<1>5. UNCHANGED <<linked, capped>> /\ faults \in Nat
  BY DEF Open, RecordsTyped
<1>6. OnlyAFaultDropsAnInvestigation'
  <2> SUFFICES ASSUME NEW d \in Severe, NEW g \in linked[d], g \notin opened', ~(faults' > 0),
                      g \notin capped
               PROVE  \E v \in Worker : g \in run'[v].severe
    BY <1>5 DEF OnlyAFaultDropsAnInvestigation
  <2>1. ~(faults > 0) /\ opened' = opened \cup {f}
    BY <1>1, <1>5
  <2>2. PICK v \in Worker : g \in run[v].severe
    BY <2>1 DEF SevereInv, OnlyAFaultDropsAnInvestigation
  <2>3. g # f
    BY <2>1
  <2> QED
    BY <1>3, <1>4, <2>2, <2>3
<1>7. CandidatesAhead'
  BY <1>1, <1>3, <1>4, <1>5 DEF SevereInv, CandidatesAhead, At, Active
<1> QED
  BY <1>6, <1>7 DEF SevereInv

LEMMA AttachSevere ==
  ASSUME SubsetAssumption, CyclesTyped, RecordsTyped, SevereInv, NEW w \in Worker, Attach(w)
  PROVE  SevereInv'
<1>1. PICK S : S = Candidates(run[w])
  OBVIOUS
<1>2. PICK n : n = [run[w] EXCEPT !.pc = "upsert", !.doing = None, !.severe = S] /\ Step(w, n)
  BY <1>1 DEF Attach
<1>3. n.severe = S /\ n.pc = "upsert"
  BY <1>2 DEF CyclesTyped, Run
<1>4. run'[w] = n /\ \A v \in Worker \ {w} : run'[v] = run[v]
  BY <1>2 DEF Step, CyclesTyped
<1>5. UNCHANGED <<opened, capped, faults>>
  BY DEF Attach, ghost
<1>6. run[w].severe \subseteq S
      /\ \A d \in Severe : d \in run[w].doing.members => run[w].doing.id \in S
  BY <1>1 DEF Candidates
<1>7. OnlyAFaultDropsAnInvestigation'
  <2> SUFFICES ASSUME NEW d \in Severe, NEW g \in linked'[d], g \notin opened, ~(faults > 0),
                      g \notin capped
               PROVE  \E v \in Worker : g \in run'[v].severe
    BY <1>5 DEF OnlyAFaultDropsAnInvestigation
  <2>1. CASE g \in linked[d]
    <3>1. PICK v \in Worker : g \in run[v].severe
      BY <2>1 DEF SevereInv, OnlyAFaultDropsAnInvestigation
    <3> QED
      BY <1>3, <1>4, <1>6, <3>1
  <2>2. CASE g \notin linked[d]
    <3>1. d \in Doc
      BY DEF SubsetAssumption
    <3>2. d \in run[w].doing.members /\ g = run[w].doing.id
      BY <2>2, <3>1 DEF Attach
    <3> QED
      BY <1>3, <1>4, <1>6, <3>2
  <2> QED
    BY <2>1, <2>2
<1>8. CandidatesAhead'
  BY <1>3, <1>4, <1>5 DEF SevereInv, CandidatesAhead, At, Active
<1> QED
  BY <1>7, <1>8 DEF SevereInv

LEMMA CompleteSevere ==
  ASSUME CyclesTyped, SevereInv, NEW w \in Worker, Complete(w)
  PROVE  SevereInv'
<1>1. PICK n : n = [run[w] EXCEPT !.pc = "release"] /\ Step(w, n)
  BY DEF Complete
<1>2. n.severe = run[w].severe /\ n.pc = "release"
  BY <1>1 DEF CyclesTyped, Run
<1>3. run'[w] = n /\ \A v \in Worker \ {w} : run'[v] = run[v]
  BY <1>1 DEF Step, CyclesTyped
<1>4. UNCHANGED <<linked, opened, faults>> /\ capped' = capped \cup run[w].severe
  BY DEF Complete, store
<1>5. OnlyAFaultDropsAnInvestigation'
  BY <1>2, <1>3, <1>4 DEF SevereInv, OnlyAFaultDropsAnInvestigation
<1>6. CandidatesAhead'
  BY <1>2, <1>3, <1>4 DEF SevereInv, CandidatesAhead, At
<1> QED
  BY <1>5, <1>6 DEF SevereInv

LEMMA OutsideSevere ==
  ASSUME RecordsTyped, SevereInv, UNCHANGED <<linked, opened, capped, run>>,
         faults' \in {faults, faults + 1}
  PROVE  SevereInv'
<1>1. faults > 0 => faults' > 0
  BY DEF RecordsTyped
<1>2. OnlyAFaultDropsAnInvestigation'
  BY <1>1 DEF SevereInv, OnlyAFaultDropsAnInvestigation
<1>3. CandidatesAhead'
  BY <1>1 DEF SevereInv, CandidatesAhead, At
<1> QED
  BY <1>2, <1>3 DEF SevereInv

LEMMA SevereStep ==
  ASSUME SubsetAssumption, CyclesTyped, RecordsTyped, SevereInv, [Next]_vars
  PROVE  SevereInv'
<1>1. ASSUME NEW w \in Worker, Start(w) \/ Cycle(w) \/ Fails(w) \/ Crash(w)
      PROVE  SevereInv'
  <2>1. CASE Start(w) \/ ClaimRefused(w) \/ Release(w) \/ Crash(w)
    BY <2>1, EndsSevere
  <2>2. CASE Open(w) \/ Attach(w) \/ Complete(w)
    BY <2>2, OpenSevere, AttachSevere, CompleteSevere
  <2>3. CASE \/ Claim(w) \/ Search(w) \/ Persist(w) \/ Renew(w) \/ Confirm(w) \/ ClaimLost(w)
             \/ Correlate(w) \/ Upsert(w) \/ Correlated(w) \/ Fails(w)
    BY <2>3, WorkKeepsSevere, SevereStaysKeeps
  <2> QED
    BY <1>1, <2>1, <2>2, <2>3 DEF Cycle
<1>2. ASSUME NEW d \in Doc, Index(d) \/ Remember(d)
      PROVE  SevereInv'
  BY <1>2, OutsideSevere DEF Index, Remember, store, ghost
<1>3. CASE Expire \/ Lapse \/ RedisExpires \/ RedisGoes \/ RedisReturns \/ UNCHANGED vars
  BY <1>3, OutsideSevere DEF Expire, Lapse, RedisExpires, RedisGoes, RedisReturns, vars, store, ghost
<1> QED
  BY <1>1, <1>2, <1>3 DEF Next

\* The rows of the tables and what a cycle holds in memory have their types.
THEOREM TypeCorrect ==
  ASSUME LastAssumption, TimeAssumption, WindowAssumption
  PROVE  Spec => []TypeOK
<1> DEFINE Typed == CyclesTyped /\ RecordsTyped
<1>1. Init => Typed
  <2>1. Init => CyclesTyped
    BY InitNewInv DEF NewInv
  <2>2. Init => RecordsTyped
    BY RecordsInit
  <2> QED
    BY <2>1, <2>2
<1>2. Typed /\ [Next]_vars => Typed'
  BY TypesStep, RecordsStep
<1>3. Typed => TypeOK
  <2> SUFFICES ASSUME Typed
               PROVE  TypeOK
    OBVIOUS
  <2>1. Ids \subseteq FindingId /\ Group \subseteq Cluster
    BY IdsAreOfDocuments DEF Group, Cluster
  <2>2. linked \in [Doc -> SUBSET FindingId]
    BY <2>1 DEF CyclesTyped
  <2>3. run \in [Worker ->
          [pc : Pc, locked : BOOLEAN, since : Int, after : 0..Last, page : SUBSET Doc,
           pages : Nat, full : BOOLEAN, fresh : SUBSET Doc, todo : SUBSET Cluster,
           doing : Cluster \cup {None}, severe : SUBSET FindingId, opens : Nat]]
    <3>1. \A r \in Run : r \in
            [pc : Pc, locked : BOOLEAN, since : Int, after : 0..Last, page : SUBSET Doc,
             pages : Nat, full : BOOLEAN, fresh : SUBSET Doc, todo : SUBSET Cluster,
             doing : Cluster \cup {None}, severe : SUBSET FindingId, opens : Nat]
      BY <2>1 DEF Run
    <3> QED
      BY <3>1 DEF CyclesTyped
  <2> QED
    BY <2>2, <2>3 DEF CyclesTyped, RecordsTyped, TypeOK, Pc
<1> QED
  BY <1>1, <1>2, <1>3, PTL DEF Spec

\* A document that becomes searchable late, inside the overlap and ahead of a cut scan, is
\* stored, or still inside the overlap of the next cycle, whatever cycles overlap or die.
THEOREM LateDocumentsAreStored ==
  ASSUME LastAssumption, TimeAssumption, PageAssumption, WindowAssumption
  PROVE  Spec => []LateIndexingIsNotLost
<1>1. Init => CyclesTyped /\ LateInv
  <2>1. Init => CyclesTyped
    BY InitNewInv DEF NewInv
  <2>2. Init => LateInv
    BY DEF Init, LateInv
  <2> QED
    BY <2>1, <2>2
<1>2. CyclesTyped /\ LateInv /\ [Next]_vars => (CyclesTyped /\ LateInv)'
  BY TypesStep, LateStep
<1>3. LateInv => LateIndexingIsNotLost
  BY DEF LateInv, Unread, LateIndexingIsNotLost
<1> QED
  BY <1>1, <1>2, <1>3, PTL DEF Spec

\* Without a fault, a finding with a severe alert is queued, is a candidate of a cycle that
\* will come to it, or was left on record by one that had opened its share.
THEOREM SevereFindingsAreQueued ==
  ASSUME LastAssumption, TimeAssumption, WindowAssumption, SubsetAssumption
  PROVE  Spec => []OnlyAFaultDropsAnInvestigation
<1> DEFINE Inv == CyclesTyped /\ RecordsTyped /\ SevereInv
<1>1. Init => Inv
  <2> SUFFICES ASSUME Init
               PROVE  Inv
    OBVIOUS
  <2>1. CyclesTyped
    BY InitNewInv DEF NewInv
  <2>2. RecordsTyped
    BY RecordsInit
  <2>3. \A w \in Worker : run[w].severe = {}
    BY DEF Init, Rest
  <2>4. \A d \in Severe : linked[d] = {}
    BY DEF Init, SubsetAssumption
  <2>5. SevereInv
    BY <2>3, <2>4 DEF SevereInv, OnlyAFaultDropsAnInvestigation, CandidatesAhead
  <2> QED
    BY <2>1, <2>2, <2>5
<1>2. Inv /\ [Next]_vars => Inv'
  BY TypesStep, RecordsStep, SevereStep
<1>3. Inv => OnlyAFaultDropsAnInvestigation
  BY DEF SevereInv
<1> QED
  BY <1>1, <1>2, <1>3, PTL DEF Spec

\* Two cycles work at once only after one outlived its claim; a document is new to one
\* cycle whatever happens; and until a claim lapses an alert is in one finding.
THEOREM NoAlertIsNewTwiceOrInTwoFindings ==
  ASSUME LastAssumption, TimeAssumption, WindowAssumption, OwnerAssumption
  PROVE  Spec => []AlertsAreNewOnce
<1>1. Init => NewInv
  BY InitNewInv
<1>2. NewInv /\ [Next]_vars => NewInv'
  BY NewInvStep
<1>3. NewInv => AlertsAreNewOnce
  <2> SUFFICES ASSUME NewInv
               PROVE  AlertsAreNewOnce
    OBVIOUS
  <2>1. OnlyALapseOverlaps
    BY WorksAlone DEF NewInv, OnlyALapseOverlaps
  <2>2. NoAlertIsNewTwice
    BY DEF NewInv, NewIsStored, NoAlertIsNewTwice
  <2>3. AlertHasOneFinding
    <3> SUFFICES ASSUME NEW d \in Doc, ~lapsed
                 PROVE  Cardinality(linked[d]) <= 1
      BY DEF AlertHasOneFinding
    <3>1. linked[d] = {} \/ \E f \in Ids : linked[d] = {f}
      BY DEF NewInv, LinksAreOne
    <3>2. Cardinality(linked[d]) = 0 \/ Cardinality(linked[d]) = 1
      BY <3>1, FS_EmptySet, FS_Singleton
    <3> QED
      BY <3>2
  <2> QED
    BY <2>1, <2>2, <2>3 DEF AlertsAreNewOnce
<1> QED
  BY <1>1, <1>2, <1>3, PTL DEF Spec

\* The high-water mark is monotonic, whoever persists which page last.
THEOREM HighWaterMarkIsMonotonic ==
  ASSUME LastAssumption, TimeAssumption, WindowAssumption
  PROVE  Spec => HighWaterIsMonotonic
<1> DEFINE Rises == checkpoint'.high >= checkpoint.high
<1>1. Init => CyclesTyped
  BY InitNewInv DEF NewInv
<1>2. CyclesTyped /\ [Next]_vars => CyclesTyped'
  BY TypesStep
<1>3. CyclesTyped /\ [Next]_vars => [Rises]_vars
  BY RowsTyped
<1> QED
  BY <1>1, <1>2, <1>3, PTL DEF Spec, HighWaterIsMonotonic
=============================================================================
