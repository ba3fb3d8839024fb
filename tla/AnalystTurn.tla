----------------------------- MODULE AnalystTurn -----------------------------
(***************************************************************************)
(* The tool loop of the SOC analyst in one conversation.  A turn is one    *)
(* chat request: it registers a stop event, lets the model call tools in   *)
(* rounds of parallel calls, and answers, or reports why it could not.     *)
(* The calls of a round run in threads and share the budget, the cache and *)
(* the evidence ledger of the turn, each behind its own short lock.        *)
(* A query is a tool with its arguments; a corrected call asks the same    *)
(* tool again.                                                             *)
(***************************************************************************)
EXTENDS Integers, FiniteSets

CONSTANTS Turn,         \* bound: chat requests of the conversation
          Call,         \* bound: places in a round of parallel calls
          Query,        \* what tools can be asked
          Tool, ToolOf, \* the tools, and the tool of a query
          Limit,        \* SOC_ANALYST_MAX_TOOL_CALLS
          MaxRounds,    \* rounds _recursion_limit leaves room for
          History,      \* whether the conversation has an earlier answer
          Overlapping,  \* bound: a request may arrive while one is running
          ClientFails,  \* bound: building the model client may raise
          None

LimitAssumption == Limit \in Nat \ {0} /\ MaxRounds \in Nat
ScenarioAssumption == {History, Overlapping, ClientFails} \subseteq BOOLEAN
ToolAssumption == ToolOf \in [Query -> Tool]
FiniteAssumption == IsFiniteSet(Call) /\ IsFiniteSet(Turn)

VARIABLES
    registered, \* _STOP_EVENTS of the conversation: the turn that made the event
    set,        \* events that are set
    pc,         \* "new", "client", "model", "tools", "closing" or "done"
    event,      \* the event a turn's budget looks at
    rounds,     \* rounds of tool calls so far
    call,       \* place -> the call in it
    used,       \* _ToolCallBudget.used
    cache,      \* queries whose result is kept
    ledger,     \* queries with an entry in the evidence ledger
    spent,      \* successful and failed executions
    seen,       \* outcomes its calls have had
    last,       \* tool -> its latest outcome, in the order of the messages
    spoke,      \* an assistant message with text comes before the model's last one
    draft,      \* how the loop ended
    result,     \* what the caller gets
    asked       \* turns someone asked to stop while they ran

stops == <<registered, set, asked>>
budget == <<used, cache, ledger, spent, seen>>
vars == <<stops, pc, event, rounds, call, budget, last, spoke, draft, result>>

Outcome == {"success", "cache_hit", "validation", "failure", "rejected", "stopped"}
Result == {"complete", "incomplete", "user_stopped", "interrupted", "recursion_limit", "raised"}
NoneAssumption == None \notin Turn \cup Query \cup Outcome \cup Result
NoCall == [pc |-> "none", query |-> None, outcome |-> None]

Init ==
    /\ registered = None /\ set = {} /\ asked = {}
    /\ pc = [t \in Turn |-> "new"] /\ event = [t \in Turn |-> None]
    /\ rounds = [t \in Turn |-> 0]
    /\ call = [t \in Turn |-> [c \in Call |-> NoCall]]
    /\ used = [t \in Turn |-> 0] /\ cache = [t \in Turn |-> {}]
    /\ ledger = [t \in Turn |-> {}]
    /\ spent = [t \in Turn |-> 0] /\ seen = [t \in Turn |-> {}]
    /\ last = [t \in Turn |-> [k \in Tool |-> None]]
    /\ spoke = [t \in Turn |-> History]
    /\ draft = [t \in Turn |-> None] /\ result = [t \in Turn |-> None]

Running(t) == pc[t] \in {"client", "model", "tools", "closing"}
Goto(t, p) == pc' = [pc EXCEPT ![t] = p]

-----------------------------------------------------------------------------
(* Stopping.                                                               *)

\* setdefault: a turn shares an event that is already registered.
EventFor(t) == IF registered = None THEN t ELSE registered

Begin(t) ==
    /\ pc[t] = "new" /\ (Overlapping \/ \A u \in Turn : ~Running(u))
    /\ registered' = EventFor(t) /\ event' = [event EXCEPT ![t] = EventFor(t)]
    /\ Goto(t, "client")
    /\ UNCHANGED <<set, asked, rounds, call, budget, last, spoke, draft, result>>

\* The client and the agent are built after the event is registered, before the try.
Client(t) ==
    /\ pc[t] = "client"
    /\ \/ Goto(t, "model") /\ UNCHANGED result
       \/ /\ ClientFails /\ Goto(t, "done")
          /\ result' = [result EXCEPT ![t] = "raised"]
    /\ UNCHANGED <<stops, event, rounds, call, budget, last, spoke, draft>>

RequestStop ==
    /\ registered # None
    /\ set' = set \cup {registered}
    /\ asked' = asked \cup {t \in Turn : Running(t)}
    /\ UNCHANGED <<registered, pc, event, rounds, call, budget, last, spoke, draft, result>>

-----------------------------------------------------------------------------
(* The loop.                                                               *)

HasRounds(t) == rounds[t] < MaxRounds

\* The model asks for the calls of a round, with or without text beside them.
ModelCalls(t) ==
    /\ pc[t] = "model" /\ HasRounds(t)
    /\ \E C \in SUBSET Call \ {{}} : \E ask \in [C -> Query] :
          call' = [call EXCEPT ![t] =
                     [c \in Call |-> IF c \in C THEN [pc |-> "check", query |-> ask[c], outcome |-> None]
                                     ELSE NoCall]]
    /\ \E text \in BOOLEAN : spoke' = [spoke EXCEPT ![t] = @ \/ text]
    /\ Goto(t, "tools")
    /\ UNCHANGED <<stops, event, rounds, budget, last, draft, result>>

\* It answers, with or without text; the provider or a callback raises; or the
\* recursion limit ends a loop that would have called more tools.
ModelEnds(t) ==
    /\ pc[t] = "model"
    /\ \/ draft' = [draft EXCEPT ![t] = "text"]
       \/ draft' = [draft EXCEPT ![t] = "empty"]
       \/ draft' = [draft EXCEPT ![t] = "exception"]
       \/ ~HasRounds(t) /\ draft' = [draft EXCEPT ![t] = "recursion"]
    /\ Goto(t, "closing")
    /\ UNCHANGED <<stops, event, rounds, call, budget, last, spoke, result>>

\* Calls: the event is looked at first, the cache next, the budget last.
Becomes(t, c, p) == call' = [call EXCEPT ![t][c].pc = p]
Settles(t, c, o) ==
    /\ call' = [call EXCEPT ![t][c].pc = "over", ![t][c].outcome = o]
    /\ seen' = [seen EXCEPT ![t] = @ \cup {o}]

Stopped(t) == event[t] \in set

Check(t, c) ==
    /\ call[t][c].pc = "check"
    /\ IF Stopped(t) THEN Settles(t, c, "stopped")
       ELSE Becomes(t, c, "lookup") /\ UNCHANGED seen
    /\ UNCHANGED <<stops, pc, event, rounds, used, cache, ledger, spent, last, spoke, draft, result>>

Lookup(t, c) ==
    /\ call[t][c].pc = "lookup"
    /\ IF call[t][c].query \in cache[t] THEN Settles(t, c, "cache_hit")
       ELSE Becomes(t, c, "reserve") /\ UNCHANGED seen
    /\ UNCHANGED <<stops, pc, event, rounds, used, cache, ledger, spent, last, spoke, draft, result>>

Full(t) == used[t] >= Limit

Reserve(t, c) ==
    /\ call[t][c].pc = "reserve"
    /\ IF Full(t) THEN Settles(t, c, "rejected") /\ UNCHANGED used
       ELSE /\ Becomes(t, c, "execute") /\ used' = [used EXCEPT ![t] = @ + 1]
            /\ UNCHANGED seen
    /\ UNCHANGED <<stops, pc, event, rounds, cache, ledger, spent, last, spoke, draft, result>>

\* A call the tool refused as invalid gives its place in the budget back.
Refund_Failures(o) == IF o \in {"validation", "failure"} THEN 1 ELSE 0
Refund(o) == IF o = "validation" THEN 1 ELSE 0

Execute(t, c) ==
    LET q == call[t][c].query IN
    /\ call[t][c].pc = "execute"
    /\ \E o \in {"success", "validation", "failure"} :
          /\ Settles(t, c, o)
          /\ used' = [used EXCEPT ![t] = @ - Refund(o)]
          /\ spent' = [spent EXCEPT ![t] = @ + (IF o = "validation" THEN 0 ELSE 1)]
          /\ cache' = [cache EXCEPT ![t] = IF o = "success" THEN @ \cup {q} ELSE @]
          /\ ledger' = [ledger EXCEPT ![t] = IF o = "success" THEN @ \cup {q} ELSE @]
    /\ UNCHANGED <<stops, pc, event, rounds, last, spoke, draft, result>>

\* All calls of the round are back: their messages follow in the order of the calls.
Counted_Valid(t) == IF \A c \in Call : call[t][c].outcome \in {None, "validation"} THEN 0 ELSE 1
Counted(t) == 1

RoundEnds(t) ==
    /\ pc[t] = "tools" /\ \A c \in Call : call[t][c].pc \in {"none", "over"}
    /\ \E after \in [Tool -> Outcome \cup {None}] :
          /\ \A k \in Tool :
                LET O == {call[t][c].outcome : c \in
                             {d \in Call : call[t][d].pc = "over" /\ ToolOf[call[t][d].query] = k}}
                IN  IF O = {} THEN after[k] = last[t][k] ELSE after[k] \in O
          /\ last' = [last EXCEPT ![t] = after]
    /\ call' = [call EXCEPT ![t] = [c \in Call |-> NoCall]]
    /\ rounds' = [rounds EXCEPT ![t] = @ + Counted(t)]
    /\ Goto(t, "model")
    /\ UNCHANGED <<stops, event, budget, spoke, draft, result>>

-----------------------------------------------------------------------------
(* The end of a turn: whatever happened, the event is taken off first.     *)

\* The answer is the last assistant message with text, of this turn or of its history.
\* A failure, a rejection, or a validation error nothing corrected.
Incomplete(t) ==
    \/ seen[t] \cap {"failure", "rejected"} # {}
    \/ \E k \in Tool : last[t][k] = "validation"

Verdict_Raises(t) ==
    CASE draft[t] = "recursion" -> "recursion_limit"
      [] draft[t] = "exception" -> "raised"
      [] "stopped" \in seen[t] -> "user_stopped"
      [] draft[t] = "empty" /\ ~spoke[t] -> "raised"
      [] OTHER -> IF Incomplete(t) THEN "incomplete" ELSE "complete"
Verdict_Answers(t) ==
    CASE draft[t] = "recursion" -> "recursion_limit"
      [] draft[t] = "exception" /\ ledger[t] = {} -> "raised"
      [] draft[t] = "exception" -> "interrupted"
      [] draft[t] = "empty" /\ ~spoke[t] -> "raised"
      [] OTHER -> IF Incomplete(t) THEN "incomplete" ELSE "complete"
Verdict_Draft(t) == IF draft[t] = "recursion" THEN "recursion_limit" ELSE draft[t]
Verdict(t) ==
    CASE draft[t] = "recursion" -> "recursion_limit"
      [] draft[t] = "exception" /\ ledger[t] = {} -> "raised"
      [] draft[t] = "exception" -> "interrupted"
      [] "stopped" \in seen[t] -> "user_stopped"
      [] draft[t] = "empty" /\ ~spoke[t] -> "raised"
      [] OTHER -> IF Incomplete(t) THEN "incomplete" ELSE "complete"

Unregister_Keeps(t) == IF draft[t] = "exception" THEN registered ELSE None
Unregister(t) == None

Close(t) ==
    /\ pc[t] = "closing"
    /\ registered' = Unregister(t)
    /\ result' = [result EXCEPT ![t] = Verdict(t)]
    /\ Goto(t, "done")
    /\ UNCHANGED <<set, asked, event, rounds, call, budget, last, spoke, draft>>

Calls(t) == \E c \in Call : Check(t, c) \/ Lookup(t, c) \/ Reserve(t, c) \/ Execute(t, c)
Turns(t) == Client(t) \/ ModelCalls(t) \/ ModelEnds(t) \/ Calls(t) \/ RoundEnds(t) \/ Close(t)

Next == RequestStop \/ \E t \in Turn : Begin(t) \/ Turns(t)

Spec == Init /\ [][Next]_vars

\* Threads are scheduled, and every model, tool and client call has a timeout.
FairSpec == Spec /\ \A t \in Turn : WF_vars(Turns(t))

-----------------------------------------------------------------------------
(* Properties.                                                             *)

CallRecord == [pc : {"none", "check", "lookup", "reserve", "execute", "over"},
               query : Query \cup {None}, outcome : Outcome \cup {None}]

TypeOK ==
    /\ registered \in Turn \cup {None} /\ set \subseteq Turn /\ asked \subseteq Turn
    /\ pc \in [Turn -> {"new", "client", "model", "tools", "closing", "done"}]
    /\ event \in [Turn -> Turn \cup {None}] /\ rounds \in [Turn -> Nat]
    /\ call \in [Turn -> [Call -> CallRecord]]
    /\ used \in [Turn -> Int] /\ cache \in [Turn -> SUBSET Query]
    /\ ledger \in [Turn -> SUBSET Query] /\ spent \in [Turn -> Nat] /\ seen \in [Turn -> SUBSET Outcome]
    /\ last \in [Turn -> [Tool -> Outcome \cup {None}]]
    /\ spoke \in [Turn -> BOOLEAN]
    /\ draft \in [Turn -> {None, "text", "empty", "exception", "recursion"}]
    /\ result \in [Turn -> Result \cup {None}]

Executing(t) == {c \in Call : call[t][c].pc = "execute"}

\* However the calls of a round interleave, the budget counts what is running and what
\* ran, without the calls refused as invalid, and never more than its limit.
BudgetIsExact ==
    \A t \in Turn :
        /\ used[t] = Cardinality(Executing(t)) + spent[t]
        /\ used[t] <= Limit

\* A complete answer is one whose every tool answered: nothing failed, nothing was cut
\* off by the budget or by a stop, and an invalid call was followed by a good one.
CompleteMeansAnswered ==
    \A t \in Turn : result[t] = "complete" =>
        \A k \in Tool : last[t][k] \in {None, "success", "cache_hit"}

\* A turn is reported as stopped by the user only if someone asked while it ran.
OnlyARequestStops == \A t \in Turn : result[t] = "user_stopped" => t \in asked

\* "Returns False if no turn is currently running": an event is registered for exactly
\* as long as a turn runs.
StopAnswersTruthfully == registered # None <=> \E t \in Turn : Running(t)

\* "Signal the in-flight chat turn": the event that is registered is the one every
\* running turn looks at.
StopReachesEveryTurn == \A t \in Turn : Running(t) => registered = event[t]

\* Evidence that was retrieved reaches the analyst, unless the model answered nothing.
EvidenceSurvivesInterruption ==
    \A t \in Turn : result[t] = "raised" => ledger[t] = {} \/ draft[t] = "empty"

\* "The tool agent returned no answer": what is passed on as an answer is what the model
\* said last in this turn.
SilenceIsReported == \A t \in Turn : result[t] \in {"complete", "incomplete"} => draft[t] = "text"

\* A turn ends, also when the model keeps calling tools a stop refuses.
TurnEnds == \A t \in Turn : Running(t) ~> pc[t] = "done"

=============================================================================
