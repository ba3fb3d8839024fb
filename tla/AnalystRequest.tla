--------------------------- MODULE AnalystRequest ---------------------------
(***************************************************************************)
(* What one turn of the SOC analyst sends to the model (soc_assistant/      *)
(* tool_agent.py).  When the turn begins it chooses the tools it binds,     *)
(* dropping specialized ones until their schemas fit; the gateway           *)
(* specialized_capability still reaches the dropped ones.  Before every     *)
(* request of the loop the prompt is assembled anew from the state, which   *)
(* only grows: old turns of the conversation are dropped first, then        *)
(* results of the current turn are replaced by a notice, the largest first, *)
(* and when that is not enough the turn ends with an error.                 *)
(*                                                                          *)
(* Sizes are estimated tokens, as small numbers.                            *)
(***************************************************************************)
EXTENDS Naturals, FiniteSets, FiniteSetsExt, Sums

CONSTANTS
    Core,           \* _CORE_TOOL_PRIORITY, in its order
    Specialized,    \* _SPECIALIZED_TOOL_PRIORITY, in its order
    Report,         \* save_report, the one tool that writes
    SchemaCost,     \* tool -> size of its schema
    SchemaBudget,   \* _tool_schema_token_budget
    Budget,         \* _request_token_budget
    SystemCost,     \* SYSTEM_PROMPT
    NoticeCost,     \* _TOOL_BUDGET_NOTICE
    Histories,      \* conversations: sequences of [role, cost]
    HistoryLimit,   \* SOC_ANALYST_MAX_HISTORY_MESSAGES
    ResultCosts,    \* sizes a tool result may have
    MaxResults      \* bound on the results of a turn

\* The tools, each named once.
Members(s) == {s[i] : i \in DOMAIN s}
General == Members(Core)
Special == Members(Specialized)
Registry == Core \o Specialized \o <<Report>>
Messages == [role : {"human", "ai"}, cost : Nat]

RequestAssumption ==
    /\ Core \in Seq(General) /\ Specialized \in Seq(Special)
    /\ \A i, j \in DOMAIN Registry : Registry[i] = Registry[j] => i = j
    /\ SchemaCost \in [Members(Registry) -> Nat]
    /\ {SchemaBudget, Budget, SystemCost, NoticeCost, HistoryLimit, MaxResults} \subseteq Nat
    /\ ResultCosts \subseteq Nat /\ Histories \subseteq Seq(Messages)

VARIABLES
    phase,      \* "new", "model", "tools", "answered" or "context_limit"
    asks,       \* the message asks for a report
    trusted,    \* the intent of the turn was established
    hinted,     \* specialized tools whose hints match the message
    bound,      \* the tools the model is given
    history,    \* the messages before the question
    results,    \* sizes of the results so far, in order
    request     \* the last request: how much history, which results withdrawn

vars == <<phase, asks, trusted, hinted, bound, history, results, request>>

Min2(a, b) == IF a < b THEN a ELSE b
Total(s) == SumOf([i \in DOMAIN s |-> s[i].cost])

(***************************************************************************)
(* The tools.                                                               *)
(***************************************************************************)
\* the last messages; s[-0:] is all of s
Recent(s) == IF HistoryLimit = 0 \/ Len(s) <= HistoryLimit THEN s
             ELSE SubSeq(s, Len(s) - HistoryLimit + 1, Len(s))

\* _tool_priority: core and report, then the hinted ones, then the others
Protected == General \cup {Report}
Tier(t) == IF t \in Protected THEN 0 ELSE IF t \in hinted THEN 1 ELSE 2
Place(t) == IF t \in Special THEN CHOOSE i \in DOMAIN Specialized : Specialized[i] = t ELSE 0
Before_ByPlace(t, u) == Place(t) < Place(u)
Before(t, u) == Tier(t) < Tier(u) \/ (Tier(t) = Tier(u) /\ Place(t) < Place(u))

Schemas(tools) ==
    SumOf([i \in DOMAIN Registry |-> IF Registry[i] \in tools THEN SchemaCost[Registry[i]] ELSE 0])

\* what chat may ever reach: the read-only tools, and the report when asked for
Candidates_Untrusted == General \cup Special \cup (IF asks THEN {Report} ELSE {})
Candidates == General \cup Special \cup (IF trusted /\ asks THEN {Report} ELSE {})

\* _fit_tool_schema_budget: the least important specialized tools are dropped
Dropping(k) ==
    {t \in Candidates \ Protected :
        Cardinality({u \in Candidates \ Protected : Before(t, u)}) < k}
Fitted ==
    LET droppable == Candidates \ Protected
        enough == {k \in 0..Cardinality(droppable) :
                     Schemas(Candidates \ Dropping(k)) <= SchemaBudget}
    IN  Candidates \ Dropping(IF enough = {} THEN Cardinality(droppable) ELSE Min(enough))

(***************************************************************************)
(* _bounded_analyst_prompt.                                                 *)
(***************************************************************************)
\* history is dropped up to the next message of a human
Cuts_Anywhere == 1..(Len(history) + 1)
Cuts == {1, Len(history) + 1} \cup {i \in DOMAIN history : history[i].role = "human"}

\* _shrink_largest_tool_message: the largest first, among equals the first
Larger(i, j) == results[i] > results[j] \/ (results[i] = results[j] /\ i < j)
Largest(k) == {i \in DOMAIN results : Cardinality({j \in DOMAIN results : Larger(j, i)}) < k}
Withdrawn(k) == Largest(k)

Cost(cut, withdrawn) ==
    SystemCost + Schemas(bound) + 1
    + Total(SubSeq(history, cut, Len(history)))
    + SumOf([i \in DOMAIN results |-> IF i \in withdrawn THEN NoticeCost ELSE results[i]])
Fits_SchemasUnmeasured(cut, withdrawn) == Cost(cut, withdrawn) - Schemas(bound) <= Budget
Fits(cut, withdrawn) == Cost(cut, withdrawn) <= Budget

\* the first of the loop's attempts that fits: less history, then fewer results
Cutting == {c \in Cuts : Fits(c, {})}
Shrinking_Once == {k \in 0..Min2(1, Len(results)) : Fits(Len(history) + 1, Withdrawn(k))}
Shrinking == {k \in 0..Len(results) : Fits(Len(history) + 1, Withdrawn(k))}
Assembled ==
    IF Cutting # {} THEN [cut |-> Min(Cutting), withdrawn |-> {}]
    ELSE [cut |-> Len(history) + 1, withdrawn |-> Withdrawn(Min(Shrinking))]

NoRequest == [cut |-> 0, withdrawn |-> {}]

Init ==
    /\ phase = "new"
    /\ asks \in BOOLEAN /\ trusted \in BOOLEAN /\ hinted \in SUBSET Special
    /\ bound = {} /\ history = <<>> /\ results = <<>> /\ request = NoRequest

\* answer: the recent history and the tools that fit
Begin ==
    /\ phase = "new"
    /\ \E h \in Histories : history' = Recent(h)
    /\ bound' = Fitted
    /\ phase' = "model"
    /\ UNCHANGED <<asks, trusted, hinted, results, request>>

\* a request that fits goes to the model, which calls tools or answers
Send ==
    /\ phase = "model" /\ (Cutting # {} \/ Shrinking # {})
    /\ request' = Assembled
    /\ phase' \in {"tools", "answered"}
    /\ UNCHANGED <<asks, trusted, hinted, bound, history, results>>

\* LLMInputLimitError: nothing is left to drop
GiveUp ==
    /\ phase = "model" /\ Cutting = {} /\ Shrinking = {}
    /\ phase' = "context_limit"
    /\ UNCHANGED <<asks, trusted, hinted, bound, history, results, request>>

\* a round of tool calls: the state keeps the whole results
Tools ==
    /\ phase = "tools" /\ Len(results) < MaxResults
    /\ \E n \in 1..(MaxResults - Len(results)) : \E new \in [1..n -> ResultCosts] :
         results' = results \o new
    /\ phase' = "model"
    /\ UNCHANGED <<asks, trusted, hinted, bound, history, request>>

Next == Begin \/ Send \/ GiveUp \/ Tools

Spec == Init /\ [][Next]_vars

-----------------------------------------------------------------------------
Sent == request # NoRequest

(* Tools, history and results are of their kinds; a report is bound only for *)
(* a trusted turn that asks for one.                                          *)
TypeOK ==
    /\ phase \in {"new", "model", "tools", "answered", "context_limit"}
    /\ bound \subseteq Protected \cup Special
    /\ Report \in bound => trusted /\ asks
    /\ phase # "new" => General \subseteq bound
    /\ request.cut \in 0..(Len(history) + 1)
    /\ request.withdrawn \subseteq DOMAIN results

(* No request exceeds the budget that the provider enforces, schemas and     *)
(* notices included.                                                          *)
RequestFits == phase \in {"tools", "answered"} => Cost(request.cut, request.withdrawn) <= Budget

(* Of the conversation only whole turns are dropped, oldest first, and all   *)
(* of them before any result of the turn is touched.                         *)
TurnsStayWhole ==
    Sent => /\ request.cut \in {1, Len(history) + 1}
                 \cup {i \in DOMAIN history : history[i].role = "human"}
            /\ request.withdrawn # {} => request.cut = Len(history) + 1

(* The error means that no choice of results would have fitted.               *)
LimitIsReal ==
    phase = "context_limit" => \A w \in SUBSET DOMAIN results : Cost(Len(history) + 1, w) > Budget

(* Schemas are over their budget only when every specialized tool is gone,    *)
(* and of two specialized tools the less important one goes first.            *)
TrimIsByPriority ==
    phase # "new" =>
        /\ Schemas(bound) > SchemaBudget => bound \subseteq Protected
        /\ \A t \in bound \cap Special, u \in Special \ bound :
             Tier(t) < Tier(u) \/ (Tier(t) = Tier(u) /\ Place(t) < Place(u))

(* If the current evidence alone exceeds the budget the turn fails; it never  *)
(* goes on with less than it found.                                           *)
EvidenceIsWhole == phase \in {"tools", "answered"} => request.withdrawn = {}

(* The history of a request is bounded by its setting.                        *)
HistoryIsBounded == Len(history) <= HistoryLimit
=============================================================================
