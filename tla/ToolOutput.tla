------------------------------ MODULE ToolOutput ------------------------------
(***************************************************************************)
(* What a paging analyst tool (threat_hunt, correlated_alerts, the SCA and *)
(* vulnerability tools) delivers of the records it found.  Each page is    *)
(* clipped to the size a tool result may have before the model reads it,   *)
(* and the model follows next_offset.  A record has a reference and a      *)
(* size; what is not a record has a fixed size.                            *)
(***************************************************************************)
EXTENDS Integers, FiniteSets

CONSTANTS MaxTotal,   \* bound: matching records
          MaxSize,    \* bound: size of a record, and of what is not one
          PageLimit,  \* "limit" of the query
          MaxOffset,  \* the largest offset a tool accepts (5000)
          MaxChars,   \* SOC_ANALYST_MAX_TOOL_OUTPUT_CHARS
          Halvings,   \* rounds of clipping (8)
          None        \* no next offset, no page at hand

SizeAssumption ==
    /\ MaxTotal \in Nat /\ MaxSize \in Nat \ {0} /\ PageLimit \in Nat \ {0}
    /\ MaxOffset \in Nat /\ MaxChars \in Nat /\ Halvings \in Nat
NoneAssumption == None \notin Int

VARIABLES
    total,   \* records that match
    size,    \* of each of them
    nested,  \* size of what is not a record
    offset,  \* the next page asked for, or None
    held,    \* records of the page at hand, or None
    left,    \* how many of them clipping has left
    round,   \* rounds of clipping made
    page,    \* the last result
    read,    \* records the model has been given, over all pages
    lost     \* a page came back without its records

source == <<total, size, nested>>
vars == <<source, offset, held, left, round, page, read, lost>>

Smaller(a, b) == IF a < b THEN a ELSE b
Larger(a, b) == IF a > b THEN a ELSE b

NoPage == [from |-> 0, held |-> 0, delivered |-> {}, status |-> "none"]

Init ==
    /\ total \in 0..MaxTotal /\ size \in [1..MaxTotal -> 1..MaxSize]
    /\ \A r \in 1..MaxTotal : r > total => size[r] = 1
    /\ nested \in 0..MaxSize
    /\ offset = 0 /\ held = None /\ left = 0 /\ round = 0
    /\ page = NoPage /\ read = {} /\ lost = FALSE

-----------------------------------------------------------------------------
(* Records n of the page that starts after record o, and what they weigh.  *)

Records(o, n) == (o + 1)..(o + n)
Weight(o, n) == LET sum[k \in 0..n] == IF k = 0 THEN 0 ELSE sum[k - 1] + size[o + k] IN sum[n]

\* A clipped result also lists the references it delivers.
Whole(o, n) == nested + Weight(o, n)
Shrunk(o, k) == nested + Weight(o, k) + k

\* Half of the list is dropped in each round, down to one record.
Half_ToNothing(n) == n \div 2
Half_ByTwo(n) == n - 2
Half(n) == Larger(1, n \div 2)

\* References that count as delivered are collected from what is left.
Delivered_Source(o, n, k) == Records(o, n)
Delivered(o, n, k) == Records(o, k)

\* Where the query continues, as its source says...
Continues(o, n) == IF n > 0 /\ o + n < total /\ o + n <= MaxOffset THEN o + n ELSE None

\* ... and after a page that was clipped.
Resumes_AsFound(o, n, k) == Continues(o, n)
Resumes(o, n, k) == o + k

Idle == held' = None /\ left' = 0 /\ round' = 0

-----------------------------------------------------------------------------
(* One tool call: search, then deliver whole, clip, or fall back.          *)

\* The offset of the model is clamped into what the tool accepts.
Search ==
    /\ offset # None /\ held = None
    /\ LET o == Smaller(offset, MaxOffset)
           n == Smaller(PageLimit, Larger(0, total - o))
       IN  offset' = o /\ held' = n /\ left' = n /\ round' = 0
    /\ UNCHANGED <<source, page, read, lost>>

Overflows == Whole(offset, held) > MaxChars
Fits == round > 0 /\ Shrunk(offset, left) <= MaxChars

Deliver ==
    /\ held # None /\ ~Overflows
    /\ page' = [from |-> offset, held |-> held, delivered |-> Delivered(offset, held, held),
                status |-> "complete"]
    /\ offset' = Continues(offset, held) /\ read' = read \cup Records(offset, held)
    /\ Idle /\ UNCHANGED <<source, lost>>

Clip ==
    /\ held # None /\ Overflows /\ ~Fits /\ left > 0 /\ round < Halvings
    /\ left' = Half(left) /\ round' = round + 1
    /\ UNCHANGED <<source, offset, held, page, read, lost>>

DeliverClipped ==
    /\ held # None /\ Overflows /\ Fits
    /\ page' = [from |-> offset, held |-> held, delivered |-> Delivered(offset, held, left),
                status |-> "partial"]
    /\ offset' = Resumes(offset, held, left) /\ read' = read \cup Records(offset, left)
    /\ Idle /\ UNCHANGED <<source, lost>>

\* No round made it fit: a result without records and without a next offset.
FallBack ==
    /\ held # None /\ Overflows /\ ~Fits /\ (left = 0 \/ round = Halvings)
    /\ page' = [from |-> offset, held |-> held, delivered |-> {}, status |-> "compact_fallback"]
    /\ offset' = None /\ lost' = TRUE
    /\ Idle /\ UNCHANGED <<source, read>>

Next == Search \/ Deliver \/ Clip \/ DeliverClipped \/ FallBack
Spec == Init /\ [][Next]_vars

\* What paging covers is asked of a model that follows next_offset to the end.
FairSpec == Spec /\ WF_vars(Next)

-----------------------------------------------------------------------------
(* Properties.                                                             *)

TypeOK ==
    /\ total \in 0..MaxTotal /\ size \in [1..MaxTotal -> 1..MaxSize] /\ nested \in 0..MaxSize
    /\ offset \in Nat \cup {None} /\ held \in Nat \cup {None} /\ left \in Nat
    /\ round \in 0..Halvings /\ read \subseteq 1..MaxTotal /\ lost \in BOOLEAN
    /\ page \in [from : Nat, held : Nat, delivered : SUBSET (1..MaxTotal),
                 status : {"none", "complete", "partial", "compact_fallback"}]

\* A reference counts as delivered only if the model has read its record: an event that
\* was clipped is never made to look examined.
DeliveredWasRead == page.delivered \subseteq read

\* A model that follows next_offset to the end has read every matching record, however
\* its pages were clipped, unless a page fell back to no record at all.
PagingLosesNothing == offset = None /\ ~lost => 1..Smaller(total, MaxOffset) \subseteq read

\* Paging ends: every page that is continued brings a record, or is the last.
PagingEnds == <>(offset = None)

\* "Offset 0-5000; next_offset pages the same query": a next offset is one the tool takes
\* as it is, so that it leads to records the page did not have.
NextOffsetIsAccepted == offset # None => offset <= MaxOffset

=============================================================================
