------------------------------- MODULE Records -------------------------------
(***************************************************************************)
(* The service that drives an investigation and the records around it: the *)
(* audit trail beside its checkpoints, the retention job that empties      *)
(* both, and the conversations about it.  The parts share no variable: one *)
(* of them moves in a behaviour, and the others stay as they begin.        *)
(***************************************************************************)
EXTENDS InvestigationService

CONSTANTS
    Drivers, NoDriver, Labels, Deep, Requested,            \* AuditTrail
    Window, Page, MaxEvents, MaxBeside, MaxSaves,
    Cases, Alerts, CheckpointAge, CaseAge, MaxTime,        \* RecordRetention
    Turn, Alert, Finding, Investigation, Indexed,          \* Conversation
    Represents, Message, Listing, ListLimit, Recent, RefLimit, Crowd, Address

VARIABLES part,
    events, table, channel, saved, lessee, driver, lapsed,
    now, case, graph, evidence, audit, worker, job, beside,
    stage, tracks, remembered, exists, messages, references, at, turn, calm

trailVars == <<events, table, channel, saved, lessee, driver, lapsed>>
retentionVars == <<now, case, graph, evidence, audit, worker, job, beside>>
talkVars == <<stage, tracks, remembered, exists, messages, references, at, turn, calm>>
records == <<part, vars, trailVars, retentionVars, talkVars>>

Trail == INSTANCE AuditTrail WITH
    clock <- events, rows <- table, thread <- channel, holder <- lessee

\* The job while the workers pause, or beside them.
Retention == INSTANCE RecordRetention WITH
    Overlap <- BOOLEAN, row <- case, thread <- graph, driver <- worker

Talk == INSTANCE Conversation WITH Window <- Recent, pc <- at

ASSUME RecordsAssumption == Trail!AuditAssumption /\ Retention!RetentionAssumption
ASSUME TalkAssumption ==
    Talk!BoundAssumption /\ Talk!WorldAssumption /\ Talk!ScenarioAssumption

RecordsInit == Init /\ Trail!Init /\ Retention!Init /\ Talk!Init

RecordsNext ==
    \/ part = "service" /\ Next /\ UNCHANGED <<part, trailVars, retentionVars, talkVars>>
    \/ part = "trail" /\ Trail!Next /\ UNCHANGED <<part, vars, retentionVars, talkVars>>
    \/ part = "retention" /\ Retention!Next /\ UNCHANGED <<part, vars, trailVars, talkVars>>
    \/ part = "talk" /\ Talk!Next /\ UNCHANGED <<part, vars, trailVars, retentionVars>>

RecordsSpec == RecordsInit /\ [][RecordsNext]_records

-----------------------------------------------------------------------------
(* The parts' properties.                                                  *)

\* AuditTrail: what a checkpoint holds is stored or about to be, also with two drivers; as
\* long as one drives after the other the first row alone has no predecessor, and, if no
\* save cut an event, an event has one row and events stored in time form one chain.
TrailIsWhole ==
    part = "trail" =>
        /\ Trail!TypeOK /\ Trail!CheckpointedIsStored
        /\ ~lapsed => Trail!OneRoot
        /\ ~lapsed /\ Trail!NothingCut => Trail!StoredOnce /\ Trail!TimelyEventsChain

\* RecordRetention: the job leaves a waiting case what it is resumed from, and a snapshot
\* says what its row says; an archived one says, even beside the workers, that its case is
\* over.
RetentionSparesTheLive ==
    part = "retention" =>
        /\ Retention!TypeOK /\ Retention!ArchivedSaysFinished
        /\ ~beside => Retention!WaitingKeepsItsState /\ Retention!SnapshotAgrees

\* Conversation: an exchange is stored with its question and its answer or not at all; in a
\* calm conversation the analyst is given the latest messages, and a follow-up is about the
\* last answer.
ConversationIsWhole ==
    part = "talk" =>
        /\ Talk!TypeOK /\ Talk!ExchangesAreWhole
        /\ calm => Talk!EarlyHistoryIsRecent /\ Talk!FollowUpIsAboutTheLastAnswer

\* An investigation is moved only for a message that asks for it (Conversation), and a
\* snapshot is saved only with its events (AuditTrail).
MovesAreAccountedFor == Talk!ActsOnlyWhenAsked /\ Trail!SavedIsKnown
=============================================================================
