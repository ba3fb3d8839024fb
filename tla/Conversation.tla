----------------------------- MODULE Conversation -----------------------------
(***************************************************************************)
(* The turns of one conversation with the SOC assistant.  A turn recalls   *)
(* the references the conversation left behind and its last messages,      *)
(* routes the message without a model, lets the context complete it,       *)
(* executes one command and stores question, answer and references, each   *)
(* in a transaction of its own; whatever storing raises is swallowed.      *)
(* A message is what the router can tell of it: its slash command, the     *)
(* groups of words it has, what it names, and the follow-up it is in full. *)
(***************************************************************************)
EXTENDS Integers, Sequences

CONSTANTS Turn, Alert, Finding, Investigation,
          Indexed,     \* the alerts Wazuh can return
          Represents,  \* finding -> its representative alert
          Message,     \* bound: [slash, words, names, follow]
          Listing,     \* bound: findings in the order an answer lists them
          ListLimit,   \* 200: messages list_messages returns
          Window,      \* 8: messages the analyst is given
          RefLimit,    \* 30: references that are looked at
          Crowd,       \* bound: the turns of a behaviour that is not calm
          Address,     \* source_ip, target_user or agent of an analyst's answer
          None

Command == {"chat", "help", "alerts", "triage", "summary", "hunt", "investigate",
            "status", "plan", "collect", "continue", "health"}
TakesInvestigation == {"status", "plan", "collect", "continue"}
Type == {"alert", "finding", "investigation", "address"}
Thing == Alert \cup Finding \cup Investigation \cup {Address}

BoundAssumption == {ListLimit, Window, RefLimit} \subseteq Nat \ {0} /\ Crowd \subseteq Turn
WorldAssumption ==
    /\ None \notin Thing
    /\ Indexed \subseteq Alert /\ Represents \in [Finding -> Alert]
ScenarioAssumption ==
    /\ \A m \in Message : /\ m.slash \in Command \cup {None} /\ m.names \in Thing \cup {None}
                          /\ m.follow \in TakesInvestigation \cup {None}
                          /\ m.follow # None => m.slash = None
    /\ Listing \subseteq Seq(Finding)

VARIABLES
    stage,      \* investigation -> "none", "active", "escalated" or "closed"
    tracks,     \* investigation -> its alert
    remembered, \* alerts in alert memory
    exists,     \* the row of the conversation is there
    messages,   \* rows of soc_conversation_messages by created_at
    references, \* rows of soc_conversation_references by created_at
    pc,
    turn,       \* what a turn works with
    calm        \* no turns overlapped, and nothing failed to be read or stored

world == <<stage, tracks, remembered>>
stored == <<exists, messages, references>>
vars == <<world, stored, pc, turn, calm>>

NoContext == [y \in Type |-> None]
NoTurn == [says |-> None, context |-> NoContext, history |-> <<>>, heard |-> 0,
           command |-> "chat", about |-> None, leaves |-> <<>>, given |-> 0, failed |-> FALSE]

Init ==
    /\ stage = [i \in Investigation |-> "none"] /\ tracks = [i \in Investigation |-> None]
    /\ remembered = {} /\ exists = FALSE /\ messages = <<>> /\ references = <<>>
    /\ pc = [t \in Turn |-> "new"] /\ turn = [t \in Turn |-> NoTurn]
    /\ calm = TRUE

Goto(t, p) == pc' = [pc EXCEPT ![t] = p]
\* The response or the exception goes out, and the turn is forgotten.
End(t, failed) == Goto(t, "over") /\ turn' = [turn EXCEPT ![t] = [NoTurn EXCEPT !.failed = failed]]
\* Bound: turns overlap, and reads and writes fail, in a crowd of turns.
Crowded == \A t \in Turn : pc[t] # "new" => t \in Crowd
Alone == \A t \in Turn : pc[t] \in {"new", "over"}
Least(a, b) == IF a < b THEN a ELSE b
LastOf(s, n) == SubSeq(s, IF Len(s) > n THEN Len(s) - n + 1 ELSE 1, Len(s))

-----------------------------------------------------------------------------
(* What a turn knows.                                                      *)

\* Newest first, the first reference of a type is the one that counts.
ContextOf_OldestWins(refs) ==
    LET recent == LastOf(refs, RefLimit)
        of(y) == {k \in 1..Len(recent) : recent[k][1] = y}
    IN [y \in Type |-> IF of(y) = {} THEN None
                       ELSE recent[CHOOSE k \in of(y) : \A j \in of(y) : k <= j][2]]
ContextOf(refs) ==
    LET recent == LastOf(refs, RefLimit)
        of(y) == {k \in 1..Len(recent) : recent[k][1] = y}
    IN [y \in Type |-> IF of(y) = {} THEN None
                       ELSE recent[CHOOSE k \in of(y) : \A j \in of(y) : k >= j][2]]

Recall(t) ==
    /\ pc[t] = "new" /\ ((calm /\ Alone) \/ (Crowded /\ t \in Crowd))
    /\ \E m \in Message, c \in {ContextOf(references)} \cup (IF Crowded /\ t \in Crowd THEN {NoContext} ELSE {}) :
          /\ turn' = [turn EXCEPT ![t] = [@ EXCEPT !.says = m, !.context = c]]
          /\ calm' = (calm /\ Alone /\ c = ContextOf(references))
    /\ Goto(t, "history")
    /\ UNCHANGED <<world, stored>>

\* Oldest first up to the limit of the query, of which the last are taken.
Recited_FirstOnes(rows) == SubSeq(rows, 1, Least(Len(rows), Window))
Recited(rows) == LastOf(SubSeq(rows, 1, Least(Len(rows), ListLimit)), Window)
ReadHistory(t) ==
    /\ pc[t] = "history"
    /\ LET recited == IF exists THEN Recited(messages) ELSE <<>> IN
       \E h \in {recited} \cup (IF Crowded THEN {<<>>} ELSE {}) :
          /\ turn' = [turn EXCEPT ![t] = [@ EXCEPT !.history = h, !.heard = Len(messages)]]
          /\ calm' = (calm /\ h = recited)
    /\ Goto(t, "route")
    /\ UNCHANGED <<world, stored>>

-----------------------------------------------------------------------------
(* Which command a message asks for.  The first rule that applies decides; *)
(* the context may turn a chat into a follow-up, never anything else.      *)

Rules == <<
    [word |-> "vague", needs |-> "nothing", command |-> "summary"],
    [word |-> "greeting", needs |-> "nothing", command |-> "chat"],
    [word |-> "collect", needs |-> "investigation", command |-> "collect"],
    [word |-> "continue", needs |-> "investigation", command |-> "continue"],
    [word |-> "plan", needs |-> "investigation", command |-> "plan"],
    [word |-> "status", needs |-> "investigation", command |-> "status"],
    [word |-> "this alert", needs |-> "nothing", command |-> "status"],
    [word |-> "full mapek", needs |-> "nothing", command |-> "investigate"],
    [word |-> "contain", needs |-> "nothing", command |-> "chat"],
    [word |-> "explain", needs |-> "nothing", command |-> "chat"],
    [word |-> "hunt", needs |-> "nothing", command |-> "hunt"],
    [word |-> "triage", needs |-> "nothing", command |-> "triage"],
    [word |-> "changed", needs |-> "no alert", command |-> "alerts"],
    [word |-> "overview", needs |-> "nothing", command |-> "summary"],
    [word |-> "health", needs |-> "nothing", command |-> "health"],
    [word |-> "help", needs |-> "nothing", command |-> "help"]>>

Applies(r, m) ==
    /\ r.word \in m.words
    /\ r.needs = "investigation" => m.names \in Investigation
    /\ r.needs = "no alert" => m.names \notin Alert

Deterministic_FirstWord(m) ==
    IF "explain" \in m.words THEN "investigate"
    ELSE LET firing == {k \in 1..Len(Rules) : Applies(Rules[k], m)}
         IN IF firing = {} THEN "chat" ELSE Rules[CHOOSE k \in firing : \A j \in firing : k <= j].command
Deterministic(m) ==
    LET firing == {k \in 1..Len(Rules) : Applies(Rules[k], m)}
    IN IF firing = {} THEN "chat" ELSE Rules[CHOOSE k \in firing : \A j \in firing : k <= j].command

Routed(m) == IF m.slash # None THEN m.slash ELSE Deterministic(m)

FollowsUp(m, context) ==
    Routed(m) = "chat" /\ m.follow # None /\ context["investigation"] # None

CommandOf(m, context) == IF FollowsUp(m, context) THEN m.follow ELSE Routed(m)

\* What the command is about: named, or completed from the context.
TargetOf(m, context) ==
    CASE FollowsUp(m, context) -> context["investigation"]
      [] m.names # None -> m.names
      [] Routed(m) = "investigate" /\ "finding" \in m.words /\ context["finding"] # None -> context["finding"]
      [] Routed(m) = "investigate" -> context["alert"]
      [] Routed(m) = "status" -> context["investigation"]
      [] OTHER -> None

Unparsable(m) ==
    \/ m.slash \in {"hunt", "investigate"} \cup TakesInvestigation /\ m.names = None
    \/ "bad option" \in m.words /\ m.slash # None

Route(t) ==
    /\ pc[t] = "route"
    /\ LET m == turn[t].says IN
       IF Unparsable(m) THEN End(t, FALSE)
       ELSE /\ turn' = [turn EXCEPT ![t] = [@ EXCEPT !.command = CommandOf(m, turn[t].context),
                                                    !.about = TargetOf(m, turn[t].context)]]
            /\ Goto(t, "execute")
    /\ UNCHANGED <<world, stored, calm>>

-----------------------------------------------------------------------------
(* What the commands do.                                                   *)

At(t, commands) == pc[t] = "execute" /\ turn[t].command \in commands
Active(a) == {i \in Investigation : stage[i] \in {"active", "escalated"} /\ tracks[i] = a}

\* An answer about investigation i (or None) that leaves the references of rs, each
\* once and in this order.
Reply(t, i, rs) ==
    /\ turn' = [turn EXCEPT ![t] = [@ EXCEPT !.about = i, !.leaves = rs]]
    /\ Goto(t, "conversation")

AboutInvestigation(t, i) == Reply(t, i, <<<<"alert", tracks[i]>>, <<"investigation", i>>>>)
Raise(t) == End(t, FALSE)

\* The analyst may look at an alert or mention an address.
Chat(t) ==
    /\ At(t, {"chat"})
    /\ \/ \E a \in Alert \cup {None}, d \in {Address, None} :
             Reply(t, None, <<<<"alert", a>>, <<"address", d>>>>)
       \/ Raise(t)
    /\ UNCHANGED <<world, stored, calm>>

\* Listed findings carry their representative alerts, triaged ones do not.
Listed(l) == [k \in 1..2 * Len(l) |->
    IF k % 2 = 1 THEN <<"finding", l[(k + 1) \div 2]>> ELSE <<"alert", Represents[l[k \div 2]]>>]
Enumerate(t) ==
    /\ At(t, {"alerts", "triage"})
    /\ \E l \in Listing : Reply(t, None, IF turn[t].command = "alerts" THEN Listed(l)
                                         ELSE [k \in 1..Len(l) |-> <<"finding", l[k]>>])
    /\ UNCHANGED <<world, stored, calm>>

Inform(t) ==
    /\ At(t, {"help", "summary", "hunt", "health"}) /\ Reply(t, None, <<>>)
    /\ UNCHANGED <<world, stored, calm>>

\* A Wazuh failure becomes an answer of its own; health reports it in any case.
Unavailable(t) ==
    /\ At(t, {"chat", "alerts", "summary", "hunt", "triage", "collect", "continue"})
    /\ Reply(t, None, <<>>)
    /\ UNCHANGED <<world, stored, calm>>

\* resolve_investigation_reference.  An alert that is not in memory is fetched and kept.
AlertNamed(x) == IF x \in Finding THEN Represents[x] ELSE x
Unresolved(t) ==
    /\ At(t, {"investigate"})
    /\ LET a == AlertNamed(turn[t].about)
       IN \/ a = None
          \/ a \in Alert \ remembered           \* not indexed, or Wazuh does not answer
          \/ a \in Investigation /\ stage[a] = "none"
    /\ Reply(t, None, <<>>)
    /\ UNCHANGED <<world, stored, calm>>

Tracked(t) ==
    /\ At(t, {"investigate"}) /\ turn[t].about \in Investigation /\ stage[turn[t].about] # "none"
    /\ AboutInvestigation(t, turn[t].about)
    /\ UNCHANGED <<world, stored, calm>>

\* One active investigation for an alert is joined, whoever opens it.
Investigate(t) ==
    /\ At(t, {"investigate"})
    /\ LET a == AlertNamed(turn[t].about) IN
       /\ a \in remembered \cup Indexed
       /\ remembered' = remembered \cup {a}
       /\ \/ \E i \in Active(a) : AboutInvestigation(t, i) /\ UNCHANGED <<stage, tracks>>
          \/ /\ Active(a) = {}
             /\ \E i \in Investigation :
                   /\ stage[i] = "none"
                   /\ stage' = [stage EXCEPT ![i] = "active"] /\ tracks' = [tracks EXCEPT ![i] = a]
                   /\ Reply(t, i, <<<<"alert", a>>, <<"investigation", i>>>>)
    /\ UNCHANGED <<stored, calm>>

\* Without an investigation, status tries the active one of the recent alert.
Subject(t) ==
    IF turn[t].about # None THEN turn[t].about
    ELSE LET open == Active(turn[t].context["alert"])
         IN IF turn[t].command = "status" /\ open # {} THEN CHOOSE i \in open : TRUE ELSE None

NotFound(i) == i # None /\ (i \notin Investigation \/ stage[i] = "none")

Look(t) ==
    /\ At(t, {"status", "plan"})
    /\ LET i == Subject(t) IN
       \/ i = None /\ Reply(t, None, <<>>)
       \/ i \in Investigation /\ stage[i] # "none" /\ AboutInvestigation(t, i)
       \/ NotFound(i) /\ Raise(t)
    /\ UNCHANGED <<world, stored, calm>>

\* Only what is escalated is resumed; a conflict is answered, and is about it too.
Resume(t) ==
    /\ At(t, {"collect", "continue"})
    /\ LET i == turn[t].about IN
       \/ i = None /\ Reply(t, None, <<>>) /\ UNCHANGED stage
       \/ /\ i \in Investigation /\ stage[i] = "escalated"
          /\ \E s \in {"active", "escalated", "closed"} : stage' = [stage EXCEPT ![i] = s]
          /\ AboutInvestigation(t, i)
       \/ /\ i \in Investigation /\ stage[i] \in {"active", "closed"}
          /\ Reply(t, i, <<<<"investigation", i>>>>) /\ UNCHANGED stage
       \/ NotFound(i) /\ Raise(t) /\ UNCHANGED stage
    /\ UNCHANGED <<tracks, remembered, stored, calm>>

\* The workflow.
Settle(i) ==
    /\ stage[i] = "active" /\ \E s \in {"escalated", "closed"} : stage' = [stage EXCEPT ![i] = s]
    /\ UNCHANGED <<tracks, remembered, stored, pc, turn, calm>>

-----------------------------------------------------------------------------
(* _persist.                                                               *)

LookUp(t) ==
    /\ pc[t] = "conversation" /\ Goto(t, IF exists THEN "question" ELSE "create")
    /\ UNCHANGED <<world, stored, turn, calm>>

\* The insert of one of two first turns is refused, unless it has seen the other's row.
Create_Continues(t) ==
    /\ pc[t] = "create"
    /\ \/ exists' = TRUE /\ Goto(t, "question")
       \/ exists /\ UNCHANGED exists /\ Goto(t, "answer")
    /\ UNCHANGED <<world, messages, references, turn, calm>>
Create(t) ==
    /\ pc[t] = "create"
    /\ \/ exists' = TRUE /\ Goto(t, "question") /\ UNCHANGED turn
       \/ exists /\ UNCHANGED exists /\ End(t, FALSE)
    /\ UNCHANGED <<world, messages, references, calm>>

Says(t, role, i) == messages' = Append(messages, [turn |-> t, role |-> role, about |-> i])

AppendQuestion(t) ==
    /\ pc[t] = "question" /\ Says(t, "user", None) /\ Goto(t, "answer")
    /\ UNCHANGED <<world, exists, references, turn, calm>>

AppendAnswer(t) ==
    /\ pc[t] = "answer" /\ Says(t, "assistant", turn[t].about) /\ Goto(t, "references")
    /\ UNCHANGED <<world, exists, references, turn, calm>>

\* The references still to be stored: those with a value, the first of equal ones.
Due(rs, given) ==
    {k \in given + 1..Len(rs) : rs[k][2] # None /\ \A j \in 1..k - 1 : rs[j] # rs[k]}

AddReference(t) ==
    /\ pc[t] = "references"
    /\ LET due == Due(turn[t].leaves, turn[t].given) IN
       \E k \in due :
          /\ \A j \in due : k <= j
          /\ references' = Append(references, turn[t].leaves[k])
          /\ turn' = [turn EXCEPT ![t].given = k]
    /\ UNCHANGED <<world, exists, messages, pc, calm>>

Return(t) ==
    /\ pc[t] = "references" /\ Due(turn[t].leaves, turn[t].given) = {} /\ End(t, FALSE)
    /\ UNCHANGED <<world, stored, calm>>

\* Conversation persistence must not hide a successful SOC operation.
Swallow(t) ==
    /\ Crowded /\ pc[t] \in {"conversation", "create", "question", "answer", "references"}
    /\ End(t, TRUE) /\ calm' = FALSE
    /\ UNCHANGED <<world, stored>>

-----------------------------------------------------------------------------

Respond(t) ==
    \/ Recall(t) \/ ReadHistory(t) \/ Route(t)
    \/ Chat(t) \/ Enumerate(t) \/ Inform(t) \/ Unavailable(t)
    \/ Unresolved(t) \/ Tracked(t) \/ Investigate(t) \/ Look(t) \/ Resume(t)
    \/ LookUp(t) \/ Create(t) \/ AppendQuestion(t) \/ AppendAnswer(t)
    \/ AddReference(t) \/ Return(t) \/ Swallow(t)

Next == (\E t \in Turn : Respond(t)) \/ (\E i \in Investigation : Settle(i))

Spec == Init /\ [][Next]_vars

-----------------------------------------------------------------------------
(* Properties.                                                             *)

Row == [turn : Turn, role : {"user", "assistant"}, about : Investigation \cup {None}]

\* Every variable has its type.
TypeOK ==
    /\ stage \in [Investigation -> {"none", "active", "escalated", "closed"}]
    /\ tracks \in [Investigation -> Alert \cup {None}]
    /\ remembered \subseteq Indexed /\ exists \in BOOLEAN
    /\ \A k \in DOMAIN messages : messages[k] \in Row
    /\ \A k \in DOMAIN references : references[k] \in Type \X Thing
    /\ pc \in [Turn -> {"new", "history", "route", "execute", "conversation", "create",
                        "question", "answer", "references", "over"}]
    /\ \A t \in Turn :
          /\ turn[t].says \in Message \cup {None}
          /\ turn[t].context \in [Type -> Thing \cup {None}]
          /\ turn[t].command \in Command /\ turn[t].about \in Thing \cup {None}
          /\ \A k \in DOMAIN turn[t].history : turn[t].history[k] \in Row
          /\ \A k \in DOMAIN turn[t].leaves : turn[t].leaves[k] \in Type \X (Thing \cup {None})
    /\ calm \in BOOLEAN

\* A turn whose storing did not fail has left its question and its answer, in this
\* order and once, or neither: not one half of an exchange.
Told(t, role) == {k \in DOMAIN messages : messages[k].turn = t /\ messages[k].role = role}
ExchangesAreWhole ==
    \A t \in Turn : pc[t] = "over" /\ ~turn[t].failed =>
        \/ Told(t, "user") = {} /\ Told(t, "assistant") = {}
        \/ \E q, a \in DOMAIN messages :
              q < a /\ Told(t, "user") = {q} /\ Told(t, "assistant") = {a}

\* An investigation is opened or resumed for a message that asks for it in so many
\* words: by a command, by "full mapek", by naming it with the verb, or by a message
\* that is nothing but a follow-up.  A question that merely mentions it changes nothing.
Asks(m) ==
    \/ m.slash \in {"investigate", "collect", "continue"}
    \/ m.slash = None /\ "full mapek" \in m.words
    \/ m.slash = None /\ m.words \cap {"collect", "continue"} # {} /\ m.names \in Investigation
    \/ m.slash = None /\ m.follow \in {"collect", "continue"}
ActsOnlyWhenAsked ==
    [][\A t \in Turn : turn'[t] # turn[t] /\ stage' # stage => Asks(turn[t].says)]_vars

\* The analyst is given the last messages of the conversation;
HistoryIsOf(t) == turn[t].history = LastOf(SubSeq(messages, 1, turn[t].heard), Window)
HistoryIsRecent == \A t \in Turn : pc[t] \notin {"new", "history", "over"} => HistoryIsOf(t)
\* while the conversation fits into a page of list_messages.
EarlyHistoryIsRecent ==
    \A t \in Turn :
        pc[t] \notin {"new", "history", "over"} /\ turn[t].heard <= ListLimit => HistoryIsOf(t)

\* A follow-up is about the investigation of the last answer that had one: what the
\* references say and what the messages say agree.
LastAbout(n) ==
    LET of == {k \in 1..n : messages[k].about # None}
    IN IF of = {} THEN None ELSE messages[CHOOSE k \in of : \A j \in of : k >= j].about
FollowUpIsAboutTheLastAnswer ==
    \A t \in Turn : turn[t].context["investigation"] # None /\ pc[t] \notin {"new", "history"} =>
        turn[t].context["investigation"] = LastAbout(turn[t].heard)

\* In a conversation about an investigation a message that is a follow-up in full is
\* treated as one.
FollowUpIsUnderstood ==
    \A t \in Turn :
        pc[t] = "execute" /\ turn[t].says.slash = None /\ turn[t].says.follow # None
        /\ turn[t].context["investigation"] # None => turn[t].command = turn[t].says.follow
=============================================================================
