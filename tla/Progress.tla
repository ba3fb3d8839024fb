------------------------------- MODULE Progress -------------------------------
(***************************************************************************)
(* What has to come to an end, and what may not be lost on the way: the    *)
(* containments of the ledger, the cycles that ingest alerts, the turns of *)
(* the analyst and the paging of their tools.  The parts share no          *)
(* variable: one of them moves in a behaviour, and the others stay as they *)
(* begin.                                                                  *)
(***************************************************************************)
EXTENDS ResponseLedger

CONSTANTS
    Ingester, Gone, Last, DocTime, Key, Severe,                    \* AlertIngestion
    PageSize, MaxPages, Overlap, Window, MaxOpen, NamedAlert, MaxFaults,
    Turn, Call, Query, Tool, ToolOf, Limit, MaxRounds,             \* AnalystTurn
    History, Overlapping, ClientFails,
    MaxTotal, MaxSize, PageLimit, MaxOffset, MaxChars, Halvings    \* ToolOutput

VARIABLES part,
    indexed, stored, linked, findings, opened, checkpoint, scan, redis, run,
    reported, lapsed, quiet, capped, faults,
    registered, signalled, at, event, rounds, call, used, cache, evidence, spent, seen, last,
    spoke, draft, answer, asked,
    total, size, nested, offset, held, kept, round, page, read, lost

ingestionVars == <<indexed, stored, linked, findings, opened, checkpoint, scan, redis, run,
                   reported, lapsed, quiet, capped, faults>>
turnVars == <<registered, signalled, at, event, rounds, call, used, cache, evidence, spent, seen,
              last, spoke, draft, answer, asked>>
outputVars == <<total, size, nested, offset, held, kept, round, page, read, lost>>
all == <<part, vars, ingestionVars, turnVars, outputVars>>

Ingestion == INSTANCE AlertIngestion_proofs WITH
    Worker <- Ingester, Time <- DocTime, Submitted <- NamedAlert, claim <- scan
Turns == INSTANCE AnalystTurn WITH
    set <- signalled, pc <- at, ledger <- evidence, result <- answer
Output == INSTANCE ToolOutput WITH left <- kept

ASSUME IngestionAssumption ==
    /\ Ingestion!LastAssumption /\ Ingestion!TimeAssumption /\ Ingestion!PageAssumption
    /\ Ingestion!WindowAssumption /\ Ingestion!OwnerAssumption /\ Ingestion!SubsetAssumption
ASSUME TurnAssumption ==
    /\ Turns!LimitAssumption /\ Turns!ScenarioAssumption /\ Turns!ToolAssumption
    /\ Turns!NoneAssumption /\ Turns!FiniteAssumption
ASSUME OutputAssumption == Output!SizeAssumption /\ Output!NoneAssumption

ProgressInit ==
    /\ part \in {"ledger", "ingestion", "turns", "output"}
    /\ Init /\ Ingestion!Init /\ Turns!Init /\ Output!Init

ProgressNext ==
    \/ part = "ledger" /\ Next /\ UNCHANGED <<part, ingestionVars, turnVars, outputVars>>
    \/ /\ part = "ingestion" /\ Ingestion!Next
       /\ UNCHANGED <<part, vars, turnVars, outputVars>>
    \/ part = "turns" /\ Turns!Next /\ UNCHANGED <<part, vars, ingestionVars, outputVars>>
    \/ part = "output" /\ Output!Next /\ UNCHANGED <<part, vars, ingestionVars, turnVars>>

ProgressSpec == ProgressInit /\ [][ProgressNext]_all

-----------------------------------------------------------------------------
(* The parts' properties.                                                  *)

\* AlertIngestion: what is indexed late, within the overlap, is stored yet, and a severe
\* finding is queued unless a fault, or the limit of a cycle, dropped it.
LateAndSevereAreTaken ==
    part = "ingestion" => /\ Ingestion!TypeOK /\ Ingestion!LateIndexingIsNotLost
                          /\ Ingestion!OnlyAFaultDropsAnInvestigation

\* AnalystTurn: the budget counts the calls that run and ran, a complete answer rests on
\* calls that all answered, evidence outlives an interruption, and, where one turn follows
\* the other and the client is built, a turn stops only when asked.  ToolOutput: what
\* counts as delivered was read, and paging reads everything.
AnswersAreAccountedFor ==
    /\ part = "turns" =>
        /\ Turns!TypeOK /\ Turns!BudgetIsExact /\ Turns!CompleteMeansAnswered
        /\ Turns!EvidenceSurvivesInterruption
        /\ ~Overlapping /\ ~ClientFails =>
             Turns!OnlyARequestStops /\ Turns!StopAnswersTruthfully
    /\ part = "output" => /\ Output!TypeOK /\ Output!DeliveredWasRead
                          /\ Output!PagingLosesNothing
=============================================================================
