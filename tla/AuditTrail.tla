----------------------------- MODULE AuditTrail -----------------------------
(***************************************************************************)
(* How the audit events of one investigation reach their table.  Every     *)
(* node of the graph returns events; the observing wrapper of the node      *)
(* (mape_k/graph.py, _observed_node) appends them to the table at once, in  *)
(* a transaction that locks nothing, and only then does the graph write its *)
(* checkpoint, whose reducer keeps the newest Window events.  When the      *)
(* graph stops, the service saves the checkpoint view, and the save writes  *)
(* the events of the view again (db/repositories/investigations.py).        *)
(*                                                                          *)
(* A row is found again by an identifier computed from the whole event, and *)
(* every new row carries the hash of the row that is latest BY TIME.  Two   *)
(* things make the two writers disagree: a save sanitizes the snapshot      *)
(* first, which keeps the first Page items of a list and cuts what lies too *)
(* deep, so that the event of a label in Deep gets another identifier; and  *)
(* an event that the service puts into the checkpoint itself (Requested)    *)
(* never passes the wrapper, so that only a save stores it, late.           *)
(***************************************************************************)
EXTENDS Naturals, Sequences

CONSTANTS
    Drivers,        \* processes that drive the investigation
    NoDriver,       \* nobody holds the lease of the incident
    Labels,         \* the nodes' events
    Deep,           \* labels whose payload a save cuts
    Requested,      \* additional_evidence_requested
    Window,         \* MAX_CHECKPOINT_AUDIT_EVENTS
    Page,           \* max_items of sanitize_for_storage
    MaxEvents,      \* bound on the events of a behaviour
    MaxBeside,      \* bound on the events of one in which a lease lapses under its driver
    MaxSaves        \* bound on the saves of a behaviour

AuditAssumption ==
    /\ NoDriver \notin Drivers
    /\ Deep \subseteq Labels
    /\ Requested \notin Labels
    /\ {Window, Page, MaxEvents, MaxBeside, MaxSaves} \subseteq Nat \ {0} /\ MaxBeside <= MaxEvents

VARIABLES
    clock,      \* time of the last event
    rows,       \* the table, in the order of insertion
    thread,     \* the audit_events channel of the latest checkpoint
    saved,      \* the stored snapshot: its version and its events
    holder,     \* who holds the lease of the incident
    driver,     \* where each process is, and what it read
    lapsed      \* whether a lease ended under its driver

vars == <<clock, rows, thread, saved, holder, driver, lapsed>>

Event == [label : Labels \cup {Requested}, at : 1..MaxEvents]

(* An event as an identifier sees it: whole, or cut by a save. *)
Stored(e) == {i \in DOMAIN rows : rows[i].event = e}

\* _json_value over the whole snapshot, where the event lies two levels deeper
Cut(e) == [event |-> e, form |-> IF e.label \in Deep THEN "cut" ELSE "whole"]
Whole(e) == [event |-> e, form |-> "whole"]
FirstPage(s) == SubSeq(s, 1, IF Len(s) > Page THEN Page ELSE Len(s))

\* merge_bounded_audit_events
Bounded_Never(s) == s
Bounded(s) == SubSeq(s, IF Len(s) > Window THEN Len(s) - Window + 1 ELSE 1, Len(s))

\* the row whose hash the next one carries: occurred_at, then event_id, descending
Latest_Oldest(n) == {i \in 1..n : \A j \in 1..n : rows[j].event.at >= rows[i].event.at}
Latest(n) == {i \in 1..n : \A j \in 1..n : rows[j].event.at <= rows[i].event.at}
Previous_Unlinked(n) == {0}
Previous(n) == IF n = 0 THEN {0} ELSE Latest(n)

\* session.get by identifier, among the rows the transaction saw
Missing_Always(found, n) == TRUE
Missing_ByLabel(found, n) == ~ \E i \in 1..n : rows[i].event.label = found.event.label
Missing(found, n) ==
    ~ \E i \in 1..n : rows[i].event = found.event /\ rows[i].form = found.form

\* _save_audit_events: the missing ones, each chained to the one before it
Link(found, before, latest) ==
    [event |-> found.event, form |-> found.form,
     prev |-> IF before = <<>> THEN latest ELSE Len(rows) + Len(before)]
Chain(found, n, latest) ==
    LET chain[k \in 0..Len(found)] ==
          IF k = 0 THEN <<>>
          ELSE IF Missing(found[k], n)
               THEN Append(chain[k - 1], Link(found[k], chain[k - 1], latest))
               ELSE chain[k - 1]
    IN  chain
Chained(found, n, latest) == Chain(found, n, latest)[Len(found)]

Idle == [pc |-> "idle", view |-> <<>>, event |-> <<>>, version |-> 0, base |-> 0, latest |-> 0]

Init ==
    /\ clock = 0
    /\ rows = <<>>
    /\ thread = <<>>
    /\ saved = [version |-> 1, events |-> <<>>]
    /\ holder = NoDriver
    /\ driver = [p \in Drivers |-> Idle]
    /\ lapsed = FALSE

EventBound == IF lapsed THEN MaxBeside ELSE MaxEvents
At(p, pc) == driver[p].pc = pc
Leave(p) == IF holder = p THEN NoDriver ELSE holder

(***************************************************************************)
(* A process takes the incident's lease and loads the checkpoint.           *)
(***************************************************************************)
Take(p) ==
    /\ At(p, "idle") /\ holder = NoDriver
    /\ saved.version < MaxSaves
    /\ holder' = p
    /\ driver' = [driver EXCEPT ![p].pc = "loaded", ![p].view = thread]
    /\ UNCHANGED <<clock, rows, thread, saved, lapsed>>

\* collect_more_evidence: update_state writes the checkpoint, no wrapper runs
Request(p) ==
    /\ At(p, "loaded") /\ driver[p].view = thread /\ thread # <<>>
    /\ clock < EventBound
    /\ clock' = clock + 1
    /\ thread' = Bounded(Append(driver[p].view, [label |-> Requested, at |-> clock + 1]))
    /\ driver' = [driver EXCEPT ![p].view = thread']
    /\ UNCHANGED <<rows, saved, holder, lapsed>>

\* a node returns its event, stamped with the time of now
Emit(p) ==
    /\ At(p, "loaded") /\ clock < EventBound
    /\ clock' = clock + 1
    /\ \E l \in Labels :
         driver' = [driver EXCEPT ![p].pc = "emitted",
                                  ![p].event = <<[label |-> l, at |-> clock + 1]>>]
    /\ UNCHANGED <<rows, thread, saved, holder, lapsed>>

\* append_audit_events: what is stored and what is latest, without a lock
BeginAppend(p) ==
    /\ At(p, "emitted")
    /\ \E l \in Previous(Len(rows)) :
         driver' = [driver EXCEPT ![p].pc = "append",
                                  ![p].base = Len(rows), ![p].latest = l]
    /\ UNCHANGED <<clock, rows, thread, saved, holder, lapsed>>

CommitAppend(p) ==
    /\ At(p, "append")
    /\ rows' = rows \o Chained(<<Whole(driver[p].event[1])>>, driver[p].base, driver[p].latest)
    /\ driver' = [driver EXCEPT ![p].pc = "appended"]
    /\ UNCHANGED <<clock, thread, saved, holder, lapsed>>

\* the graph writes the checkpoint of the step when the wrapper has returned
Ready_Early(p) == At(p, "emitted")
Ready(p) == At(p, "appended")
Checkpoint(p) ==
    /\ Ready(p)
    /\ thread' = Bounded(driver[p].view \o driver[p].event)
    /\ driver' = [driver EXCEPT ![p].pc = "loaded", ![p].view = thread', ![p].event = <<>>]
    /\ UNCHANGED <<clock, rows, saved, holder, lapsed>>

(***************************************************************************)
(* _sync_snapshot: the checkpoint view, the stored version, then the save.  *)
(***************************************************************************)
View(p) ==
    /\ At(p, "loaded") /\ thread # <<>>
    /\ driver' = [driver EXCEPT ![p].pc = "viewed", ![p].view = thread]
    /\ UNCHANGED <<clock, rows, thread, saved, holder, lapsed>>

ReadVersion(p) ==
    /\ At(p, "viewed")
    /\ driver' = [driver EXCEPT ![p].pc = "versioned", ![p].version = saved.version]
    /\ UNCHANGED <<clock, rows, thread, saved, holder, lapsed>>

\* with_for_update: one save at a time
Locked == \E q \in Drivers : At(q, "save")

BeginSave(p) ==
    /\ At(p, "versioned") /\ ~Locked
    /\ driver[p].version = saved.version
    /\ \E l \in Previous(Len(rows)) :
         driver' = [driver EXCEPT ![p].pc = "save",
                                  ![p].base = Len(rows), ![p].latest = l]
    /\ UNCHANGED <<clock, rows, thread, saved, holder, lapsed>>

CommitSave(p) ==
    LET page == FirstPage(driver[p].view) IN
    /\ At(p, "save")
    /\ rows' = rows \o Chained([k \in DOMAIN page |-> Cut(page[k])],
                               driver[p].base, driver[p].latest)
    /\ saved' = [version |-> saved.version + 1, events |-> page]
    /\ holder' = Leave(p)
    /\ driver' = [driver EXCEPT ![p] = Idle]
    /\ UNCHANGED <<clock, thread, lapsed>>

\* the snapshot is stale: nothing is written and the lease is given back
Conflict(p) ==
    /\ At(p, "versioned") /\ ~Locked
    /\ driver[p].version # saved.version
    /\ holder' = Leave(p)
    /\ driver' = [driver EXCEPT ![p] = Idle]
    /\ UNCHANGED <<clock, rows, thread, saved, lapsed>>

\* the process dies; its lease is free once it has run out
Crash(p) ==
    /\ ~At(p, "idle")
    /\ holder' = Leave(p)
    /\ driver' = [driver EXCEPT ![p] = Idle]
    /\ UNCHANGED <<clock, rows, thread, saved, lapsed>>

\* the lease runs out while its driver goes on
Lapse ==
    /\ holder # NoDriver /\ clock <= MaxBeside
    /\ holder' = NoDriver
    /\ lapsed' = TRUE
    /\ UNCHANGED <<clock, rows, thread, saved, driver>>

Next ==
    \/ \E p \in Drivers :
         \/ Take(p) \/ Request(p) \/ Emit(p) \/ BeginAppend(p) \/ CommitAppend(p)
         \/ Checkpoint(p) \/ View(p) \/ ReadVersion(p) \/ BeginSave(p) \/ CommitSave(p)
         \/ Conflict(p) \/ Crash(p)
    \/ Lapse

Spec == Init /\ [][Next]_vars

-----------------------------------------------------------------------------
(* The rows, the checkpoint and the snapshot hold events; a row points to a *)
(* row that was there before it.                                            *)
TypeOK ==
    /\ clock \in 0..MaxEvents
    /\ \A i \in DOMAIN rows : /\ rows[i].event \in Event
                              /\ rows[i].form \in {"whole", "cut"}
                              /\ rows[i].prev \in 0..(i - 1)
    /\ thread \in Seq(Event) /\ Len(thread) <= Window
    /\ saved.version \in Nat \ {0}
    /\ saved.events \in Seq(Event) /\ Len(saved.events) <= Page
    /\ holder \in Drivers \cup {NoDriver}
    /\ \A p \in Drivers : driver[p].base <= Len(rows)

(* What the checkpoint remembers of a node is in the table, whoever drove   *)
(* the node and wherever it died: the wrapper appends before the graph      *)
(* writes its checkpoint, and a node that is repeated only adds to it.      *)
CheckpointedIsStored ==
    \A k \in DOMAIN thread : thread[k].label # Requested => Stored(thread[k]) # {}

(* No event was cut by the save that stored it.                             *)
NothingCut == \A i \in DOMAIN rows : rows[i].form = "whole"

(* An event has one row, though two writers store it (the test              *)
(* test_audit_events_are_append_only_and_idempotent).                       *)
StoredOnce == \A e \in Event : \A i, j \in Stored(e) : i = j

(* Only the first event of an investigation has no predecessor (the same    *)
(* test: exactly one previous_hash is None).                                *)
OneRoot == \A i, j \in DOMAIN rows : rows[i].prev = 0 /\ rows[j].prev = 0 => i = j

(* The events that are stored in the order of their times form one chain:   *)
(* where the hash chain forks, a row was stored after a younger one.        *)
Timely(i) == \A j \in 1..(i - 1) : rows[j].event.at <= rows[i].event.at
TimelyEventsChain ==
    \A i, j \in DOMAIN rows :
        i # j /\ Timely(i) /\ Timely(j) => rows[i].prev # rows[j].prev

(* A save stores all the events of the view it was given: the table keeps   *)
(* the history of which the checkpoint keeps the recent part.               *)
SavedIsDurable ==
    [][\A p \in Drivers :
         At(p, "save") /\ saved' # saved =>
           \A k \in DOMAIN driver[p].view :
              \E i \in DOMAIN rows' : rows'[i].event = driver[p].view[k]]_vars

(* What a save may lose is an event that no wrapper stored and that lies    *)
(* beyond its page.                                                         *)
SavedIsKnown ==
    [][\A p \in Drivers :
         At(p, "save") /\ saved' # saved =>
           \A k \in DOMAIN driver[p].view :
              \/ driver[p].view[k].label = Requested /\ k > Page
              \/ \E i \in DOMAIN rows' : rows'[i].event = driver[p].view[k]]_vars
=============================================================================
