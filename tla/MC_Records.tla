----------------------------- MODULE MC_Records -----------------------------
(***************************************************************************)
(* A small instance of the service, the audit trail, the retention job and *)
(* the conversations, with the fairness of the service's scheduling.       *)
(***************************************************************************)
EXTENDS Records, TLC

CONSTANTS w1, w2, a1

Free(words, names, follow) ==
    [slash |-> None, words |-> words, names |-> names, follow |-> follow]
Slash(command, names) == [slash |-> command, words |-> {}, names |-> names, follow |-> None]
\* Commands, follow-ups and the questions that resemble them.
Said == {
    Slash("investigate", "a1"), Slash("alerts", None), Slash("help", None),
    Free({"full mapek", "finding"}, None, None), Free({"explain"}, "a1", "plan"),
    Free({"collect"}, "i1", None), Slash("investigate", "i1"), Slash("plan", None),
    Free({"this alert"}, None, None), Free({}, None, "continue")}
Represented == [f \in {"f1"} |-> "a1"]
Listings == {<<"f1">>, <<>>}

PartsInit ==
    /\ part \in {"service", "trail", "retention", "talk"}
    /\ RecordsInit /\ (part # "retention" => ~beside)

\* The service's fairness, when it moves.
PartsFairSpec ==
    /\ PartsInit /\ [][RecordsNext]_records
    /\ \A w \in Worker : WF_vars(part = "service" /\ (WorkerStep(w) \/ Proceed(w)))
    /\ \A a \in Analyst : WF_vars(part = "service" /\ Proceed(a))
    /\ WF_vars(part = "service" /\ Expire)

-----------------------------------------------------------------------------
(* The parts' properties.                                                  *)

\* QueuedIsTakenUp of InvestigationService: a queued investigation is worked on, or given
\* up after MaxAttempts failures.
InvestigationIsTakenUp ==
    part = "service" /\ snap.status = "queued" ~> snap.status # "queued"
=============================================================================
