----------------------------- MODULE MC_Progress -----------------------------
(***************************************************************************)
(* Progress on a small instance.  Behaviours of the analyst's turns are    *)
(* those of one turn with two calls at a time, and those of two turns that *)
(* call one tool once, each of which is to end.                            *)
(***************************************************************************)
EXTENDS Progress, TLC

CONSTANTS a1, t1, q1, q2, c1, c2

OneTarget == [a \in Action |-> t1]
OneTool == [q \in Query |-> "search_alerts"]
Times == <<1, 2, 3>>
Keys == <<"ssh", "web", "ssh">>

VARIABLE brief    \* whether turns are two short ones

OneTurn == at["turn2"] = "new"
ShortTurns == \A t \in Turn :
    /\ rounds[t] < MaxRounds /\ (rounds[t] = MaxRounds - 1 => at[t] # "tools")
    /\ call[t][c2].pc = "none" /\ call[t][c1].query # q2

ShortTurn(t) == part = "turns" /\ brief /\ Turns!Turns(t) /\ ShortTurns'

MCInit ==
    /\ ProgressInit /\ brief \in BOOLEAN
    /\ part # "turns" => ~brief
    /\ part # "output" => total = 0 /\ nested = 0

MCNext ==
    /\ ProgressNext /\ UNCHANGED brief
    /\ part = "turns" => IF brief THEN ShortTurns' ELSE OneTurn'

\* The parts' own fairness, when they move.
MCFairSpec ==
    /\ MCInit /\ [][MCNext]_<<all, brief>>
    /\ WF_vars(part = "ledger" /\ Tick)
    /\ \A e \in Executor : WF_vars(part = "ledger" /\ ExecutorStep(e))
    /\ \A w \in Worker : WF_vars(part = "ledger" /\ WorkerStep(w))
    /\ \A w \in Ingester : /\ WF_ingestionVars(part = "ingestion" /\ Ingestion!Start(w))
                           /\ WF_ingestionVars(part = "ingestion" /\ Ingestion!Cycle(w))
    /\ WF_ingestionVars(part = "ingestion" /\ Ingestion!Expire)
    /\ WF_ingestionVars(part = "ingestion" /\ Ingestion!RedisExpires)
    /\ \A t \in Turn : WF_turnVars(ShortTurn(t))
    /\ WF_outputVars(part = "output" /\ Output!Next)

\* A containment settles (ResponseLedger); what is stored is correlated in the end and
\* stays so (AlertIngestion); a turn ends, the second like the first (AnalystTurn); paging
\* ends (ToolOutput).
EverythingEnds ==
    /\ EveryContainmentSettles
    /\ part = "ingestion" => <>[](\A d \in stored : linked[d] # {})
    /\ brief => Turns!Running("turn1") ~> (at["turn1"] = "done")
    /\ part = "output" => Output!PagingEnds
=============================================================================
