------------------------------ MODULE AgentRun ------------------------------
(* One run of the agent in the web application: lib/agent/task-agent.ts with the tools of
   lib/agent/tools.ts, the signed calls of lib/agent/backend.ts, the development runtime
   of lib/local-codex.ts, and the two callers of runTaskAgent (api/chat/route.ts in the
   foreground, api/internal/agent/continue/route.ts for a continuation).

   The model is free: it calls tools, in parallel, streams text and ends or fails when it
   likes.  Tool calls and the finishing call are requests to the backend that may be
   answered late, or carried out after the run stopped waiting for them.  The turn may be
   cancelled, lapse or go to another run meanwhile (module AgentTurns has these actors in
   full; here they only take the turn away).                                            *)
EXTENDS Integers, FiniteSets, FiniteSetsExt

CONSTANTS
  MaxCalls,        \* calls > 16 are answered without running the tool
  MaxSteps,        \* isStepCount(8)
  Budget, PerCall, \* remainingCharacters 32_000, at most 12_000 for one call
  Lengths,         \* lengths of the material a call finds
  Segments,        \* segments one call returns, at most
  PublicSources,   \* sources.size <= 48
  MaxParts         \* the backend's limit on a message, 80

\* The text, the public sources and one receipt for every call fit into a message.
ASSUME AgentRunAssumption ==
  /\ MaxCalls \in Nat /\ MaxSteps \in Nat \ {0} /\ Budget \in Nat /\ PerCall \in Nat
  /\ Lengths \subseteq Nat /\ Segments \in Nat /\ PublicSources \in Nat
  /\ MaxParts \in Nat /\ 1 + PublicSources + MaxCalls <= MaxParts

VARIABLES
  runTurn,     \* the agent_turns row: status, lease, whether the execution token is this run's
  kept,     \* what the database keeps of this run: "handoff", "reply"
  run,      \* runTaskAgent and its tool bundle
  call,     \* the tool calls: tool and state of each
  cache,    \* sourceCache: the promise of the source, one source
  post,     \* the finishing calls, "save" and "fail"
  aborted,  \* request.signal
  given,    \* history: characters of material handed to the model
  told      \* history: how the caller's stream or response ended

runVars == <<runTurn, kept, run, call, cache, post, aborted, given, told>>

Calls == 1..MaxCalls
Tools == {"context", "source", "action"}
CallStates == {"idle", "asking", "late", "handoff", "quota", "refused", "done"}
Waiting == {"asking", "handoff", "quota", "refused"}   \* the run still awaits the answer
PostStates == {"unsent", "sent", "late", "true", "false", "done"}

AgentRunTypeOK ==
  /\ runTurn.status \in {"running", "waiting_task", "finalizing", "completed", "failed", "cancelled"}
  /\ runTurn.leased \in BOOLEAN /\ runTurn.mine \in BOOLEAN
  /\ kept \subseteq {"handoff", "reply"}
  /\ run.pc \in {"history", "loop", "finish", "fail", "over"}
  /\ run.calls \in 0..MaxCalls /\ run.step \in 1..MaxSteps
  /\ run.left \in Int /\ run.sources \in Nat /\ run.chips \in Nat /\ run.receipts \in 0..MaxCalls
  /\ run.error \in {"none", "cancelled", "quota_exceeded", "model_unavailable"}
  /\ call \in [Calls -> [tool : Tools, state : CallStates]]
  /\ cache \in {"none", "reading", "ready", "rejected"}
  /\ post \in [{"save", "fail"} -> PostStates]
  /\ aborted \in BOOLEAN
  /\ told \in {"nothing", "completed", "waiting_task", "error", "quota"}

\* A foreground run of a new turn, or a continuation that has just claimed its turn.
AgentRunInit ==
  /\ \E runtime \in {"api", "codex_local"}, continuation \in BOOLEAN :
       /\ run = [pc |-> "history", runtime |-> runtime, readOnly |-> continuation,
                 text |-> FALSE, calls |-> 0, step |-> 1, stopped |-> FALSE, left |-> Budget,
                 sources |-> 0, chips |-> 0, receipts |-> 0, waiting |-> FALSE,
                 quota |-> FALSE, error |-> "none"]
       /\ runTurn = [status |-> IF continuation THEN "finalizing" ELSE "running",
                  leased |-> TRUE, mine |-> TRUE]
  /\ kept = {}
  /\ call = [i \in Calls |-> [tool |-> "context", state |-> "idle"]]
  /\ cache = "none"
  /\ post = [k \in {"save", "fail"} |-> "unsent"]
  /\ aborted = FALSE /\ given = 0 /\ told = "nothing"

-----------------------------------------------------------------------------
(* The turn in the database, as other actors change it.                         *)

Others(t) == runTurn' = t /\ UNCHANGED <<kept, run, call, cache, post, aborted, given, told>>

LeaseLapses ==
  runTurn.mine /\ runTurn.leased /\ runTurn.status \in {"running", "waiting_task", "finalizing"}
  /\ Others([runTurn EXCEPT !.leased = FALSE])

TurnCancelled ==
  runTurn.mine /\ runTurn.status \in {"running", "waiting_task", "finalizing"}
  /\ Others([runTurn EXCEPT !.status = "cancelled"])

\* claim_agent_continuation of a turn whose task ended, accept_agent_turn of a retry: a
\* new execution token.
ClaimedElsewhere ==
  /\ runTurn.mine
  /\ \/ runTurn.status \in {"waiting_task", "failed"}
     \/ runTurn.status \in {"running", "finalizing"} /\ ~runTurn.leased
  /\ Others([runTurn EXCEPT !.mine = FALSE, !.leased = TRUE, !.status = "finalizing"])

-----------------------------------------------------------------------------
(* Failing: the catch of runTaskAgent.                                          *)

\* Mutant: the stream's signal is stored as the error code.
ErrorCodeSignal ==
  IF aborted THEN "cancelled"
  ELSE IF run.quota THEN "VIBEDIGEST_QUOTA_EXCEEDED" ELSE "model_unavailable"

\* The errorCode of the finishing call.
ErrorCode ==
  IF aborted THEN "cancelled" ELSE IF run.quota THEN "quota_exceeded" ELSE "model_unavailable"

\* An exception is caught: the failing call is sent, after the finishing calls `posts`.
Throw(posts) ==
  /\ run' = [run EXCEPT !.pc = "fail", !.error = ErrorCode]
  /\ post' = [posts EXCEPT !["fail"] = "sent"]

-----------------------------------------------------------------------------
(* The loop.                                                                    *)

\* client.history() and the input message; the other runtime, a missing input or a failed
\* call end the run.
ReadHistory ==
  /\ run.pc = "history"
  /\ \/ run' = [run EXCEPT !.pc = "loop"] /\ UNCHANGED post
     \/ Throw(post)
  /\ UNCHANGED <<runTurn, kept, call, cache, aborted, given, told>>

StreamText ==
  /\ run.pc = "loop" /\ ~run.stopped
  /\ run' = [run EXCEPT !.text = TRUE]
  /\ UNCHANGED <<runTurn, kept, call, cache, post, aborted, given, told>>

\* The local tool server refuses calls of a cancelled turn.
ServerTakes == ~(run.runtime = "codex_local" /\ aborted)

\* The model calls a tool.
StartCall(tool) ==
  /\ run.pc = "loop" /\ ~run.stopped /\ run.calls < MaxCalls
  /\ tool = "action" => ~run.readOnly
  /\ ServerTakes
  /\ run' = [run EXCEPT !.calls = @ + 1]
  /\ call' = [call EXCEPT ![run.calls + 1] = [tool |-> tool, state |-> "asking"]]
  /\ cache' = IF tool = "source" /\ cache = "none" THEN "reading" ELSE cache
  /\ UNCHANGED <<runTurn, kept, post, aborted, given, told>>

Settled == \A i \in Calls : call[i].state \notin Waiting

\* stopWhen, after every step that called tools; the local runtime has no such condition.
StepEnds ==
  /\ run.pc = "loop" /\ run.runtime = "api" /\ ~run.stopped /\ run.calls > 0 /\ Settled
  /\ run' = IF run.waiting \/ run.quota \/ run.step = MaxSteps
              THEN [run EXCEPT !.stopped = TRUE] ELSE [run EXCEPT !.step = @ + 1]
  /\ UNCHANGED <<runTurn, kept, call, cache, post, aborted, given, told>>

-----------------------------------------------------------------------------
(* Reading tools.                                                               *)

\* Mutant: only the limit of one call counts.
AllowancePerCall == PerCall

\* Math.min(remainingCharacters, 12_000), after the material arrived.
Allowance == Min({run.left, PerCall})

\* Mutant: every new source becomes a part of the message.
PublicEvery(sources, chips, n) == chips + n

\* addReference: the first PublicSources sources are shown.
Public(sources, chips, n) == Min({sources + n, PublicSources})

\* A call gets n new references and as much of the material as the budget allows.
Deliver(i, length, n) ==
  LET part == Min({length, Allowance})
  IN  /\ run' = [run EXCEPT !.left = @ - part, !.sources = @ + n,
                            !.chips = Public(run.sources, @, n)]
      /\ given' = given + part
      /\ call' = [call EXCEPT ![i].state = "done"]
      /\ UNCHANGED <<runTurn, kept, cache, post, aborted, told>>

\* get_task_context
ReadContext(i, length, n) ==
  /\ call[i] = [tool |-> "context", state |-> "asking"] /\ n <= 1
  /\ Deliver(i, length, n)

\* The one read of the source every search and every source read awaits.
SourceArrives ==
  /\ cache = "reading" /\ cache' \in {"ready", "rejected"}
  /\ UNCHANGED <<runTurn, kept, run, call, post, aborted, given, told>>

\* search_source, read_source: no reference without a segment, no segment without text.
ReadSegments(i, length, n) ==
  /\ call[i] = [tool |-> "source", state |-> "asking"] /\ cache = "ready"
  /\ Min({length, Allowance}) = 0 => n = 0
  /\ Deliver(i, length, n)

\* A rejected source stays in the cache.
ReadRejected(i) ==
  /\ call[i] = [tool |-> "source", state |-> "asking"] /\ cache = "rejected"
  /\ call' = [call EXCEPT ![i].state = "done"]
  /\ UNCHANGED <<runTurn, kept, run, cache, post, aborted, given, told>>

-----------------------------------------------------------------------------
(* create_video_task and continue_when_ready.                                   *)

MayAct == runTurn.mine /\ runTurn.leased /\ runTurn.status \in {"running", "waiting_task"}

\* The backend carries the command out, also when the run no longer waits for it.
Act(i) ==
  /\ call[i].tool = "action" /\ call[i].state \in {"asking", "late"}
  /\ \E answer \in IF MayAct THEN {"handoff", "quota", "refused"} ELSE {"refused"} :
       /\ runTurn' = IF answer = "handoff" THEN [runTurn EXCEPT !.status = "waiting_task"] ELSE runTurn
       /\ kept' = IF answer = "handoff" THEN kept \cup {"handoff"} ELSE kept
       /\ call' = [call EXCEPT ![i].state = IF @ = "late" THEN "done" ELSE answer]
  /\ UNCHANGED <<run, cache, post, aborted, given, told>>

\* handoff(), or the catch of a tool's run.
ActAnswered(i) ==
  /\ \/ call[i].state = "handoff" /\ run' = [run EXCEPT !.waiting = TRUE, !.receipts = @ + 1]
     \/ call[i].state = "quota" /\ run' = [run EXCEPT !.quota = TRUE]
     \/ call[i].state = "refused" /\ UNCHANGED run
  /\ call' = [call EXCEPT ![i].state = "done"]
  /\ UNCHANGED <<runTurn, kept, cache, post, aborted, given, told>>

\* The 20 s limit or the abort signal ends the wait of any call, not the request itself.
CallLost(i) ==
  /\ call[i].state \in Waiting
  /\ call' = [call EXCEPT ![i].state =
                IF call[i].tool = "action" /\ @ = "asking" THEN "late" ELSE "done"]
  /\ UNCHANGED <<runTurn, kept, run, cache, post, aborted, given, told>>

-----------------------------------------------------------------------------
(* The end of the loop, and finishing.                                          *)

\* The browser disconnects, or the worker's request ends.
Abort ==
  /\ ~aborted /\ run.pc /= "over" /\ aborted' = TRUE
  /\ UNCHANGED <<runTurn, kept, run, call, cache, post, given, told>>

\* Provider errors, the agent's timeouts, an abort; the child's exit, output limits and
\* invalid events.  Calls in flight go on.
ModelFails ==
  /\ run.pc = "loop" /\ Throw(post)
  /\ UNCHANGED <<runTurn, kept, call, cache, aborted, given, told>>

Parts == run.chips + run.receipts + (IF run.text THEN 1 ELSE 0)

\* Mutant: the allowance failure a tool met is not looked at.
PublishableAnyway == Parts > 0 /\ (run.runtime = "codex_local" => run.text)

\* No quota failure, something to publish; the local runtime asks for text.
Publishable == ~run.quota /\ Parts > 0 /\ (run.runtime = "codex_local" => run.text)

\* The model has said its last word: finish, or fail.
ModelEnds ==
  /\ run.pc = "loop" /\ Settled
  /\ IF Publishable
       THEN /\ run' = [run EXCEPT !.pc = "finish"]
            /\ post' = [post EXCEPT !["save"] = "sent"]
       ELSE Throw(post)
  /\ UNCHANGED <<runTurn, kept, call, cache, aborted, given, told>>

MayFinish ==
  /\ runTurn.mine /\ runTurn.status \in {"running", "waiting_task", "finalizing"}
  /\ runTurn.status = "waiting_task" \/ runTurn.leased

Answered(k, result) == [post EXCEPT ![k] = IF @ = "late" THEN "done" ELSE result]

\* finish_agent_turn with parts.
FinishSaves ==
  /\ post["save"] \in {"sent", "late"}
  /\ IF MayFinish
       THEN /\ kept' = kept \cup {"reply"}
            /\ runTurn' = IF runTurn.status = "waiting_task" THEN runTurn
                       ELSE [runTurn EXCEPT !.status = "completed"]
            /\ post' = Answered("save", "true")
       ELSE UNCHANGED <<kept, runTurn>> /\ post' = Answered("save", "false")
  /\ UNCHANGED <<run, call, cache, aborted, given, told>>

\* Mutant: a failing run fails its turn whatever the tools did.
FinishFailsAlways ==
  /\ post["fail"] \in {"sent", "late"}
  /\ runTurn' = IF MayFinish THEN [runTurn EXCEPT !.status = "failed"] ELSE runTurn
  /\ post' = Answered("fail", "true")
  /\ UNCHANGED <<kept, run, call, cache, aborted, given, told>>

\* finish_agent_turn with an error code: "A stream failure must not discard a committed
\* task handoff."
FinishFails ==
  /\ post["fail"] \in {"sent", "late"}
  /\ runTurn' = IF MayFinish /\ runTurn.status /= "waiting_task"
               THEN [runTurn EXCEPT !.status = "failed"] ELSE runTurn
  /\ post' = Answered("fail", "true")
  /\ UNCHANGED <<kept, run, call, cache, aborted, given, told>>

\* A reply the database did not take is an error, unless the task's receipt is there.
Returns == post["save"] = "true" \/ (post["save"] = "false" /\ run.waiting)

\* The saving call was answered.
Saved ==
  /\ run.pc = "finish" /\ post["save"] \in {"true", "false"}
  /\ IF Returns
       THEN /\ run' = [run EXCEPT !.pc = "over"]
            /\ told' = IF run.waiting THEN "waiting_task" ELSE "completed"
            /\ post' = [post EXCEPT !["save"] = "done"]
       ELSE Throw([post EXCEPT !["save"] = "done"]) /\ UNCHANGED told
  /\ UNCHANGED <<runTurn, kept, call, cache, aborted, given>>

\* It was refused, or not answered in 20 s; it may still be carried out.
SaveLost ==
  /\ run.pc = "finish" /\ post["save"] \in {"sent", "true", "false"}
  /\ Throw([post EXCEPT !["save"] = IF @ = "sent" THEN "late" ELSE "done"])
  /\ UNCHANGED <<runTurn, kept, call, cache, aborted, given, told>>

\* finish(...).catch(() => undefined), then the error is thrown to the caller.
Failed ==
  /\ run.pc = "fail"
  /\ run' = [run EXCEPT !.pc = "over"]
  /\ post' = [post EXCEPT !["fail"] = IF @ = "sent" THEN "late" ELSE "done"]
  /\ told' = IF run.error = "quota_exceeded" THEN "quota" ELSE "error"
  /\ UNCHANGED <<runTurn, kept, call, cache, aborted, given>>

AgentRunNext ==
  \/ LeaseLapses \/ TurnCancelled \/ ClaimedElsewhere
  \/ ReadHistory \/ StreamText \/ StepEnds \/ SourceArrives
  \/ \E t \in Tools : StartCall(t)
  \/ \E i \in Calls :
       \/ \E length \in Lengths, n \in 0..Segments :
            ReadContext(i, length, n) \/ ReadSegments(i, length, n)
       \/ ReadRejected(i) \/ Act(i) \/ ActAnswered(i) \/ CallLost(i)
  \/ Abort \/ ModelFails \/ ModelEnds
  \/ FinishSaves \/ FinishFails \/ Saved \/ SaveLost \/ Failed

AgentRunSpec == AgentRunInit /\ [][AgentRunNext]_runVars

-----------------------------------------------------------------------------
(* Properties.                                                                  *)

\* Parallel calls share one budget: together they hand the model at most Budget characters
\* of the source, although each awaits its material before it looks at the budget.
EvidenceWithinBudget == given <= Budget

\* "Keep the public message below the 80-part persistence contract" (tools.ts:55-57): the
\* finishing call never carries more parts than the backend accepts.
AnswerFits == post["save"] /= "unsent" => Parts <= MaxParts

\* A run that met an exhausted allowance never publishes an answer of its own.
NoAnswerWithoutAllowance ==
  ("reply" \in kept => ~run.quota) /\ (told \in {"completed", "waiting_task"} => ~run.quota)

\* The run keeps the promise of TurnOutcome.
Promise == INSTANCE TurnOutcome WITH
  outcome <- IF ~runTurn.mine \/ runTurn.status = "cancelled" THEN "elsewhere"
             ELSE CASE runTurn.status \in {"running", "finalizing"} -> "open"
                    [] runTurn.status = "waiting_task" -> "handedOff"
                    [] runTurn.status = "completed" -> "answered"
                    [] runTurn.status = "failed" -> "failed",
  durable <- kept,
  told <- told

\* Every step of the run and of its late requests is a step of TurnOutcome or none: one
\* outcome per turn, no handoff undone, nothing told that is not durable.
KeepsPromise == Promise!TurnSpec

\* A run reads no more than its allowance, and stores an answer the database accepts
\* (tools.ts:70-80, task-agent.ts:121-180, finish_agent_turn).
AnswersWithinAllowance ==
  AgentRunTypeOK /\ EvidenceWithinBudget /\ AnswerFits /\ NoAnswerWithoutAllowance
=============================================================================
