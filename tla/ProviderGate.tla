----------------------------- MODULE ProviderGate -----------------------------
(***************************************************************************)
(* Calls to the model provider: LLMProvider.invoke_structured with its two *)
(* attempts and its fallback, and the sliding token window every real call *)
(* passes (LLMRateLimiter): the window in Redis when it answers, and the   *)
(* window of the caller's own process when it does not.                    *)
(*                                                                         *)
(* Time is a number of ticks.  A window holds the age of what it was       *)
(* charged, and forgets it at the age of Period, as both implementations   *)
(* do when they are next asked.                                            *)
(***************************************************************************)
EXTENDS Integers, FiniteSets, FiniteSetsExt, Sums

CONSTANTS Calls,        \* threads that call the provider
          Procs,        \* worker processes
          Proc,         \* the process of each thread
          Shared,       \* the window in Redis
          Budget,       \* LLM_RATE_LIMIT_MAX_TOKENS
          Period,       \* LLM_RATE_LIMIT_WINDOW_SECONDS
          MaxWait,      \* LLM_RATE_LIMIT_MAX_WAIT_SECONDS
          Costs,        \* estimated tokens of a prompt, its output reserve included
          Fallback,     \* a secondary provider is configured
          Flaky,        \* Redis may become unreachable
          LosesReplies  \* ... and may be lost between the charge and its answer

ProcAssumption == Shared \notin Procs /\ Proc \in [Calls -> Procs]
BudgetAssumption ==
    /\ Budget \in Nat \ {0} /\ Period \in Nat \ {0} /\ MaxWait \in Nat
    /\ Costs \subseteq Nat \ {0}
SwitchAssumption == {Fallback, Flaky, LosesReplies} \subseteq BOOLEAN

VARIABLES
    up,       \* does Redis answer?
    steady,   \* history: it has answered so far
    window,   \* what each window was charged in the last Period, oldest first
    call      \* each thread's invocation

vars == <<up, steady, window, call>>

Windows == Procs \cup {Shared}
Idle == [at |-> "idle", cost |-> 0, attempt |-> 0, failed |-> 0, wait |-> 0,
         charged |-> {}, reached |-> <<>>, counted |-> 0]

Init ==
    /\ up = TRUE /\ steady = TRUE
    /\ window = [w \in Windows |-> <<>>]
    /\ call = [c \in Calls |-> Idle]

-----------------------------------------------------------------------------
(* The window.                                                             *)

Spent(entries) == SumOf([i \in DOMAIN entries |-> entries[i].cost])

\* A call larger than the whole budget is let through when nothing else is held.
Admits_Unmetered(entries, cost) == Spent(entries) <= Budget \/ entries = <<>>
Admits(entries, cost) == Spent(entries) + cost <= Budget \/ entries = <<>>

\* Until the oldest entry ages out.
WaitFor(entries) == Period - Head(entries).age

Charge(entries, c) == Append(entries, [age |-> 0, cost |-> call[c].cost, by |-> c])

\* One tick later: what has reached Period is pruned, and what is younger stays.
Older(entries) == [i \in DOMAIN entries |-> [entries[i] EXCEPT !.age = @ + 1]]
Fresh(entries) == {i \in DOMAIN entries : entries[i].age + 1 < Period}
Aged(entries) ==
    IF Fresh(entries) = {} THEN <<>>
    ELSE SubSeq(Older(entries), Min(Fresh(entries)), Len(entries))

-----------------------------------------------------------------------------
(* invoke_structured                                                       *)

\* Attempts 1 and 2 go to the primary, and what would be the third to the fallback.
Endpoint_Eager(attempt) == IF attempt = 1 THEN "primary" ELSE "fallback"
Endpoint(attempt) == IF attempt <= 2 THEN "primary" ELSE "fallback"

Begin(c, cost) ==
    /\ call[c].at \in {"idle", "answered", "failed"}
    /\ call' = [call EXCEPT ![c] = [Idle EXCEPT !.at = "gate", !.cost = cost, !.attempt = 1]]
    /\ UNCHANGED <<up, steady, window>>

\* A failure of attempt k: retried once, then handed to the fallback, whose own failure is final.
MayGoOn(c) == call[c].attempt = 1 \/ (call[c].attempt = 2 /\ Fallback)

AfterFailure_Longer(c, retryable) ==
    [call[c] EXCEPT !.at = IF retryable THEN "gate" ELSE "failed", !.failed = call[c].attempt,
                    !.attempt = @ + 1, !.wait = 0, !.charged = {}]
AfterFailure(c, retryable) ==
    IF retryable /\ MayGoOn(c)
    THEN [call[c] EXCEPT !.at = "gate", !.failed = call[c].attempt,
                         !.attempt = @ + 1, !.wait = 0, !.charged = {}]
    ELSE [call[c] EXCEPT !.at = "failed", !.wait = 0]

\* What acquire does with the answer of the one window that governs the call.
Governed(c, w, entries) ==
    \/ /\ Admits(entries, call[c].cost)
       /\ window' = [window EXCEPT ![w] = Charge(entries, c)]
       /\ call' = [call EXCEPT ![c].at = "sent", ![c].wait = 0,
                       ![c].charged = @ \cup {w},
                       ![c].reached = Append(@, Endpoint(call[c].attempt))]
    \/ /\ ~Admits(entries, call[c].cost)
       /\ WaitFor(entries) <= MaxWait
       /\ call' = [call EXCEPT ![c].at = "asleep", ![c].wait = WaitFor(entries)]
       /\ UNCHANGED window
    \* LLMRateLimitedError: to the retry logic it is one more rate limit of the provider.
    \/ /\ ~Admits(entries, call[c].cost)
       /\ WaitFor(entries) > MaxWait
       /\ call' = [call EXCEPT ![c] = AfterFailure(c, TRUE)]
       /\ UNCHANGED window

Ask(c) ==
    /\ call[c].at = "gate"
    /\ LET w == IF up THEN Shared ELSE Proc[c] IN Governed(c, w, window[w])
    /\ UNCHANGED <<up, steady>>

\* The script runs and its answer is lost: acquire_rate_slot returns None...
LoseReply(c) ==
    /\ LosesReplies /\ up /\ call[c].at = "gate"
    /\ IF Admits(window[Shared], call[c].cost)
       THEN /\ window' = [window EXCEPT ![Shared] = Charge(@, c)]
            /\ call' = [call EXCEPT ![c].at = "local", ![c].charged = @ \cup {Shared}]
       ELSE /\ call' = [call EXCEPT ![c].at = "local"]
            /\ UNCHANGED window
    /\ steady' = FALSE /\ UNCHANGED up

\* ... and the caller asks the window of its process.
AskLocal(c) ==
    /\ call[c].at = "local"
    /\ Governed(c, Proc[c], window[Proc[c]])
    /\ UNCHANGED <<up, steady>>

Wake(c) ==
    /\ call[c].at = "asleep" /\ call[c].wait = 0
    /\ call' = [call EXCEPT ![c].at = "gate"]
    /\ UNCHANGED <<up, steady, window>>

\* usage["model_calls"] is last_error.attempt + 1.
Counted_Retries(c) == call[c].failed
Counted(c) == call[c].failed + 1

Answer(c) ==
    /\ call[c].at = "sent"
    /\ call' = [call EXCEPT ![c].at = "answered", ![c].counted = Counted(c)]
    /\ UNCHANGED <<up, steady, window>>

\* A timeout, a 429 or a 5xx may be retried; an answer that does not parse may not.
Fail(c) ==
    /\ call[c].at = "sent"
    /\ \E retryable \in BOOLEAN : call' = [call EXCEPT ![c] = AfterFailure(c, retryable)]
    /\ UNCHANGED <<up, steady, window>>

-----------------------------------------------------------------------------

Tick ==
    /\ window' = [w \in Windows |-> Aged(window[w])]
    /\ call' = [c \in Calls |-> [call[c] EXCEPT !.wait = IF @ > 0 THEN @ - 1 ELSE 0]]
    /\ UNCHANGED <<up, steady>>

Redis == Flaky /\ up' = ~up /\ steady' = FALSE /\ UNCHANGED <<window, call>>

Step(c) == Ask(c) \/ LoseReply(c) \/ AskLocal(c) \/ Wake(c) \/ Answer(c) \/ Fail(c)

Next ==
    \/ Tick \/ Redis
    \/ \E c \in Calls : Step(c) \/ \E cost \in Costs : Begin(c, cost)

Spec == Init /\ [][Next]_vars

\* A thread that may go on does (the provider's client has a timeout), and time passes.
FairSpec == Spec /\ WF_vars(Tick) /\ \A c \in Calls : WF_vars(Step(c))

-----------------------------------------------------------------------------
(* Properties.                                                             *)

TypeOK ==
    /\ up \in BOOLEAN /\ steady \in BOOLEAN
    /\ window \in [Windows -> Seq([age : 0..Period - 1, cost : Costs, by : Calls])]
    /\ call \in [Calls -> [at : {"idle", "gate", "local", "asleep", "sent", "answered", "failed"},
                           cost : Costs \cup {0}, attempt : 0..3, failed : 0..2,
                           wait : 0..MaxWait, charged : SUBSET Windows,
                           reached : Seq({"primary", "fallback"}), counted : 0..3]]

\* Neither implementation of the window ever holds more than the budget, however the calls
\* of several threads and processes interleave, but for one call that is larger than it.
Within(entries) == Spent(entries) <= Budget \/ Len(entries) = 1
WindowHolds == \A w \in Windows : Within(window[w])

\* While Redis answers, all of the processes together stay within one budget.
WorkersShareBudget == steady => Within(window[Shared]) /\ \A p \in Procs : window[p] = <<>>

\* A woken call finds the entry it waited for gone: it is never put to sleep again by it.
SleepIsEnough ==
    \A c \in Calls : call[c].at = "asleep" /\ steady /\ window[Shared] # <<>> =>
        call[c].wait <= Period - Head(window[Shared]).age

\* The calls of one invocation are two to the primary at most and then one to the fallback,
\* and a fallback's answer is the last thing an invocation does.
FallbackIsLast ==
    \A c \in Calls : LET r == call[c].reached IN
        \A i \in DOMAIN r : /\ r[i] = "primary" => i <= 2
                            /\ r[i] = "fallback" => i = Len(r)

\* The model calls an investigation is charged for are never fewer than those that were made.
UsageCoversCalls == \A c \in Calls : call[c].at = "answered" => call[c].counted >= Len(call[c].reached)

\* A full window paces its callers and does not stop them: while a thread waits, some
\* thread is let through again and again.
Waiting(c) == call[c].at \in {"gate", "local", "asleep"}
Admitted(c) == Waiting(c) /\ call'[c].at = "sent"
PacedNotStuck ==
    (\A c \in Calls : []<>(~Waiting(c))) \/ []<><<\E c \in Calls : Admitted(c)>>_vars

\* "admits a single call larger than the whole budget instead of waiting forever": a call
\* that waits for the window is let through, or refused.
WaitEnds == \A c \in Calls : Waiting(c) ~> ~Waiting(c)

\* "when it is not, the in-process deque keeps a single worker paced": what one process
\* sends within a period is within the budget, or is one call.
ByProc(w, p) == SelectSeq(window[w], LAMBDA e : Proc[e.by] = p)
SingleWorkerIsPaced ==
    \A p \in Procs :
        LET own == ByProc(Shared, p) \o ByProc(p, p) IN Spent(own) <= Budget \/ Len(own) <= 1

\* "Exactly one window governs a given call": it is charged to one of them only.
ChargedOnce == \A c \in Calls : Cardinality(call[c].charged) <= 1

=============================================================================
