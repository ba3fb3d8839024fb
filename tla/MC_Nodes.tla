------------------------------ MODULE MC_Nodes ------------------------------
(***************************************************************************)
(* The graph, what runs inside its nodes, and the request the analyst's own *)
(* loop makes.  The parts share no variable: one of them moves in a        *)
(* behaviour, and the others stay as they begin.                           *)
(***************************************************************************)
EXTENDS Nodes

VARIABLE part
all == <<part, nodesVars>>

\* Three threads of two processes.
ProcOf == [c \in Calls |-> IF c = "t3" THEN "p2" ELSE "p1"]

\* Two core tools, two specialized ones and the report; four conversations.
CoreTools == <<"gateway", "search">>
SpecializedTools == <<"hunt", "mitre">>
ToolCosts == [t \in {"gateway", "search", "hunt", "mitre", "report"} |->
                IF t = "hunt" THEN 2 ELSE 1]
Human(n) == [role |-> "human", cost |-> n]
Ai(n) == [role |-> "ai", cost |-> n]
Talks == {<<>>, <<Human(1), Ai(2), Human(1), Ai(1)>>, <<Ai(1), Human(1), Ai(1)>>,
          <<Human(3), Ai(1), Ai(1), Human(1)>>}

PartsInit ==
    /\ part \in {"workflow", "evidence", "cached evidence", "repeated evidence", "rules", "semantics",
                 "gate", "refusing gate", "patient gate", "request"}
    \* a part that stays has one beginning
    /\ Init /\ (part # "workflow" => ~real)
    /\ Evidence!Init
    \* every collector in a single pass; then two passes of three contracts, and the cache
    /\ inv = 1
    /\ CASE part = "evidence" -> case.contract # "ssh" /\ case.agent
         [] part = "cached evidence" -> case.contract \in {"ssh", "privilege"} /\ case.field
         [] part = "repeated evidence" -> case.contract \in {"privilege", "persistence", "generic"}
         [] OTHER -> case = [contract |-> "privilege", agent |-> TRUE, field |-> TRUE]
    /\ Ssh!Init
    \* three alerts of a source and two users, which are alike, by the rules; of one user,
    \* without an archive, and with the model
    /\ part = "rules" => estate[1].user # "v"
    /\ part = "semantics" => ~archives /\ \A i \in DOMAIN estate : estate[i].user # "v"
    /\ part \notin {"rules", "semantics"} =>
          /\ \A i \in DOMAIN estate : estate[i] = [at |-> 0, ip |-> "A", user |-> "u", ok |-> TRUE]
          /\ ~archives
    /\ Gate!Init
    /\ Request!Init /\ (part # "request" => ~asks /\ ~trusted /\ hinted = {})

\* Of the gate: all threads while Redis and the provider answer, two that may fail, and two
\* of any size.
Threads == IF part = "gate" THEN Calls ELSE {"t1", "t2"}
Sizes == CASE part = "gate" -> {2} [] part = "refusing gate" -> {3} [] OTHER -> {3, 5}
GateNext ==
    \/ Gate!Tick
    \/ part = "refusing gate" /\ Gate!Redis
    \/ \E c \in Threads :
           \/ Gate!Step(c) /\ (part = "gate" /\ call[c].at = "sent" => Gate!Answer(c))
           \/ \E cost \in Sizes : Gate!Begin(c, cost)

\* Of the evidence: one pass for the capability of the case; two passes, and one of each of
\* two investigations, in which no source but the related alerts has more than it returns.
EvidenceNext ==
    /\ Evidence!Next
    /\ part = "evidence" =>
           diagnoses = 0 /\ inv' = inv /\ correlated'.top \in {"none", case.contract}
    /\ part \in {"cached evidence", "repeated evidence"} =>
           /\ correlated'.top \in {"none", "privilege"}
           /\ \A i \in DOMAIN answers' : answers'[i].status = "truncated" => i = 1
    /\ part = "cached evidence" => inv' = inv
    /\ part = "repeated evidence" => (next = "monitor" => diagnoses = 0) /\ inv' >= inv

PartsNext ==
    /\ \/ part = "workflow" /\ Next /\ UNCHANGED <<gateVars, requestVars, evidenceVars, sshVars>>
       \/ /\ part \in {"evidence", "cached evidence", "repeated evidence"}
          /\ EvidenceNext /\ UNCHANGED <<vars, gateVars, requestVars, sshVars>>
       \/ /\ \/ part = "rules" /\ IF at = "analyze" /\ Ssh!Declined THEN Ssh!GiveUp ELSE Ssh!Next
             \/ part = "semantics" /\ Ssh!Next /\ finding'.users \subseteq {"u"}
          /\ UNCHANGED <<vars, gateVars, requestVars, evidenceVars>>
       \/ /\ part \in {"gate", "refusing gate", "patient gate"} /\ GateNext
          /\ UNCHANGED <<vars, requestVars, evidenceVars, sshVars>>
       \/ /\ part = "request" /\ Request!Next
          /\ UNCHANGED <<vars, gateVars, evidenceVars, sshVars>>
    /\ UNCHANGED part

\* The fairness of the graph, and of the patient gate, when they move.
PartsFairSpec ==
    /\ PartsInit /\ [][PartsNext]_all
    /\ WF_vars(part = "workflow" /\ Run)
    /\ WF_gateVars(part = "patient gate" /\ Gate!Tick)
    /\ \A c \in {"t1", "t2"} : WF_gateVars(part = "patient gate" /\ Gate!Step(c))

-----------------------------------------------------------------------------
(* Liveness.                                                               *)

\* The graph comes to rest at an interrupt or at its end (GraphComesToRest of
\* MapeKWorkflow); a full window paces its callers and does not stop them (ProviderGate).
NodesGoOn ==
    /\ (part = "workflow" /\ node \notin Waiting \cup {"end"})
          ~> (node \in Waiting \cup {"end"})
    /\ part = "patient gate" => Gate!PacedNotStuck
=============================================================================
