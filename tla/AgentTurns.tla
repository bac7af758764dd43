------------------------------ MODULE AgentTurns ------------------------------
(***************************************************************************)
(* Agent turns of VibeDigest: a chat request runs the agent for one user    *)
(* message; the agent may hand its goal over to a video task, and when the *)
(* task is terminal a queued continuation makes a worker ask the web       *)
(* application to claim the turn and write the final answer.               *)
(*                                                                         *)
(* Every action is one committed Postgres transaction, or one decision of  *)
(* a process.  An execution token is modelled by the request that knows    *)
(* it, a delivery's read count by whether a request's copy is still the    *)
(* current one: both are only ever compared for equality with the row.     *)
(***************************************************************************)
EXTENDS Naturals

CONSTANTS
    Threads,     \* chat threads
    MaxTurns,    \* bound: user messages of a thread
    MaxGens,     \* bound: continuations sent for a turn (one, and one per user retry)
    Tasks,       \* video tasks, each with at most one summary output
    Workers,     \* AgentAnswerWorker processes
    Requests,    \* concurrent requests of the web application
    Nobody,      \* no worker, no request, no task
    MaxAttempts, \* TASK_QUEUE_MAX_ATTEMPTS
    FaultKinds,  \* which of "crash", "raise", "stall" may happen
    MaxFaults,   \* bound: faults in one behaviour
    MaxRedo      \* bound: user retries of a task or of its summary

ASSUME AgentAssumption ==
    /\ MaxTurns \in Nat /\ MaxFaults \in Nat /\ MaxRedo \in Nat
    /\ MaxAttempts \in Nat \ {0} /\ MaxGens \in Nat \ {0}
    /\ FaultKinds \subseteq {"crash", "raise", "stall"}
    /\ Nobody \notin Tasks \cup Workers \cup Requests
    /\ Workers \cap Requests = {}     \* processes of two services

Turns  == Threads \X (1..MaxTurns)
Jobs   == Turns \X (1..MaxGens)      \* a continuation: its message and its handoff
NoTurn == <<>>
NoJob  == <<>>

Open == {"running", "waiting_task", "finalizing", "failed"}   \* what a later message supersedes

VARIABLES
    \* vibedigest_private.agent_turns
    turn, lease, holder, watched, waits, attempts,
    \* agent_actions; the two chat_messages a turn may write; chat_threads.task_id
    acted, reply, answered, threadTask,
    \* public.tasks, the summary in public.task_outputs, user retries so far
    task, out, redo,
    \* the agent_answers queue and its handoffs
    queue, handoff, reads,
    gen,         \* continuations sent for each turn
    \* the workers, and the request each one waits for
    pc, job, post, count,
    \* requests: what they are doing, for which turn, with which delivery
    run, goal, delivery,
    \* whether a worker's or a request's delivery is the message's last one
    current,
    faults

turnVars   == <<turn, lease, holder, watched, waits, attempts, acted>>
chatVars   == <<reply, answered, threadTask>>
taskVars   == <<task, out, redo>>
queueVars  == <<queue, handoff, reads, gen>>
workerVars == <<pc, job, post, count>>
reqVars    == <<run, goal, delivery, current>>
vars       == <<turnVars, chatVars, taskVars, queueVars, workerVars, reqVars, faults>>

TypeOK ==
    /\ turn     \in [Turns -> Open \cup {"none", "completed", "cancelled"}]
    /\ lease    \in [Turns -> BOOLEAN]
    /\ holder   \in [Turns -> Requests \cup {Nobody}]
    /\ watched  \in [Turns -> Tasks \cup {Nobody}]
    /\ waits    \in [Turns -> BOOLEAN]
    /\ attempts \in [Turns -> Nat]
    /\ acted    \in [Turns -> BOOLEAN]
    /\ reply    \in [Turns -> {"none", "receipt", "failure", "answer"}]
    /\ answered \in [Turns -> BOOLEAN]
    /\ threadTask \in [Threads -> Tasks \cup {Nobody}]
    /\ task     \in [Tasks -> {"pending", "completed", "error"}]
    /\ out      \in [Tasks -> {"none", "pending", "completed", "error"}]
    /\ redo     \in 0..MaxRedo
    /\ queue    \in [Jobs -> {"unsent", "visible", "hidden", "archived"}]
    /\ handoff  \in [Jobs -> {"none", "queued", "completed", "failed"}]
    /\ reads    \in [Jobs -> 0..MaxAttempts]
    /\ gen      \in [Turns -> 0..MaxGens]
    /\ pc       \in [Workers -> {"idle", "validate", "dispatch", "posted", "confirm", "failed",
                                 "defer", "reject", "done", "buried", "ackDone", "ackBuried"}]
    /\ job      \in [Workers -> Jobs \cup {NoJob}]
    /\ post     \in [Workers -> Requests \cup {Nobody}]
    /\ count    \in [Workers -> 0..MaxAttempts]
    /\ run      \in [Requests -> {"idle", "chat", "claim", "answer"}]
    /\ goal     \in [Requests -> Turns \cup {NoTurn}]
    /\ delivery \in [Requests -> Jobs \cup {NoJob}]
    /\ current  \in [Workers \cup Requests -> BOOLEAN]
    /\ faults   \in 0..MaxFaults

\* Tasks may be older than the thread: in progress, with or without a summary row, or terminal.
Init ==
    /\ turn     = [t \in Turns |-> "none"]
    /\ lease    = [t \in Turns |-> FALSE]
    /\ holder   = [t \in Turns |-> Nobody]
    /\ watched  = [t \in Turns |-> Nobody]
    /\ waits    = [t \in Turns |-> FALSE]
    /\ attempts = [t \in Turns |-> 0]
    /\ acted    = [t \in Turns |-> FALSE]
    /\ reply    = [t \in Turns |-> "none"]
    /\ answered = [t \in Turns |-> FALSE]
    /\ threadTask = [h \in Threads |-> Nobody]
    /\ task     \in [Tasks -> {"pending", "completed", "error"}]
    /\ out      \in [Tasks -> {"none", "pending", "completed", "error"}]
    /\ redo     = 0
    /\ queue    = [j \in Jobs |-> "unsent"]
    /\ handoff  = [j \in Jobs |-> "none"]
    /\ reads    = [j \in Jobs |-> 0]
    /\ gen      = [t \in Turns |-> 0]
    /\ pc       = [w \in Workers |-> "idle"]
    /\ job      = [w \in Workers |-> NoJob]
    /\ post     = [w \in Workers |-> Nobody]
    /\ run      = [r \in Requests |-> "idle"]
    /\ goal     = [r \in Requests |-> NoTurn]
    /\ delivery = [r \in Requests |-> NoJob]
    /\ count    = [w \in Workers |-> 0]
    /\ current  = [a \in Workers \cup Requests |-> FALSE]
    /\ faults   = 0

-----------------------------------------------------------------------------
(* Readiness and continuations. *)

\* agent_turn_ready, for a turn that watches task k (and its summary, if wo) in the state ts, os.
ReadyOn(k, wo, ts, os) ==
    /\ k # Nobody
    /\ \/ ts[k] = "error"
       \/ wo /\ os[k] \in {"completed", "error"}
       \/ ~wo /\ ts[k] = "completed"

Ready(t) == ReadyOn(watched[t], waits[t], task, out)

Delivering(t) == \E j \in Jobs : j[1] = t /\ handoff[j] = "queued"
Sent(t)       == gen[t] > 0

\* A message and its handoff for each turn of S.
Send(S) ==
    LET N == {<<t, gen[t] + 1>> : t \in S} IN
    /\ queue'   = [j \in Jobs |-> IF j \in N THEN "visible" ELSE queue[j]]
    /\ handoff' = [j \in Jobs |-> IF j \in N THEN "queued" ELSE handoff[j]]
    /\ gen'     = [t \in Turns |-> IF t \in S THEN gen[t] + 1 ELSE gen[t]]
    /\ UNCHANGED reads

\* enqueue_agent_continuation: not for a turn that has a queued message. (The second condition is
\* a bound: a turn that waits without a delivery is never at it.)
Enqueue(S) == Send({t \in S : ~Delivering(t) /\ gen[t] < MaxGens})

-----------------------------------------------------------------------------
(* The watched tasks: what the video pipeline and its users write, with the wake-up trigger. *)

\* Mutant: only the trigger on tasks wakes turns.
WakeOnTask(k, ts, os) ==
    Enqueue({t \in Turns : turn[t] = "waiting_task" /\ watched[t] = k /\ ReadyOn(k, waits[t], ts, os)
                           /\ ts[k] # task[k]})

\* wake_agent_turns_on_terminal, on either table: turns that wait for task k and are ready now.
Wake(k, ts, os) ==
    Enqueue({t \in Turns : turn[t] = "waiting_task" /\ watched[t] = k /\ ReadyOn(k, waits[t], ts, os)})

TaskEnds(k, s) ==
    /\ task[k] = "pending"
    /\ task' = [task EXCEPT ![k] = s]
    /\ Wake(k, task', out)
    /\ UNCHANGED <<turnVars, chatVars, out, redo, workerVars, reqVars, faults>>

OutputEnds(k, s) ==
    /\ out[k] = "pending" \/ (out[k] = "none" /\ s = "completed")
    /\ out' = [out EXCEPT ![k] = s]
    /\ Wake(k, task, out')
    /\ UNCHANGED <<turnVars, chatVars, task, redo, workerVars, reqVars, faults>>

\* retry_video_task and submit_output_retry take a terminal task or summary back to pending.
Redo(k) ==
    /\ redo < MaxRedo /\ redo' = redo + 1
    /\ \/ /\ task[k] = "error"
          /\ task' = [task EXCEPT ![k] = "pending"]
          /\ out'  = [out EXCEPT ![k] = IF @ = "error" THEN "pending" ELSE @]
       \/ /\ out[k] \in {"completed", "error"}
          /\ out' = [out EXCEPT ![k] = "pending"]
          /\ UNCHANGED task
    /\ UNCHANGED <<turnVars, chatVars, queueVars, workerVars, reqVars, faults>>

-----------------------------------------------------------------------------
(* Requests. *)

\* The request ends; the worker that waits for it, if any, goes on at p. A token only the
\* request knew is lost with it.
Answer(r, p) ==
    /\ run'      = [run EXCEPT ![r] = "idle"]
    /\ goal'     = [goal EXCEPT ![r] = NoTurn]
    /\ delivery' = [delivery EXCEPT ![r] = NoJob]
    /\ current'  = [current EXCEPT ![r] = FALSE]
    /\ pc'       = [w \in Workers |-> IF post[w] = r THEN p ELSE pc[w]]
    /\ post'     = [w \in Workers |-> IF post[w] = r THEN Nobody ELSE post[w]]
    /\ UNCHANGED <<job, count>>

Forget(r) == [t \in Turns |-> IF holder[t] = r THEN Nobody ELSE holder[t]]

Begin(r, t) ==
    /\ run'  = [run EXCEPT ![r] = "chat"]
    /\ goal' = [goal EXCEPT ![r] = t]
    /\ UNCHANGED <<delivery, current, workerVars>>

Busy(t) == turn[t] = "running" /\ lease[t]

\* Mutant: a later message leaves a failed turn open.
SupersededButFailed(t) == {s \in Turns : s[1] = t[1] /\ turn[s] \in Open \ {"failed"}}

\* The turns a new message of the same thread cancels.
Superseded(t) == {s \in Turns : s[1] = t[1] /\ turn[s] \in Open}

\* accept_agent_turn, for a message not seen before. k is coalesce(p_task_id, v_thread.task_id).
AcceptNew(r, t, k) ==
    /\ run[r] = "idle"
    /\ turn[t] = "none"
    /\ \A s \in Turns : s[1] = t[1] /\ s[2] < t[2] => turn[s] # "none"
    /\ \A s \in Turns : s[1] = t[1] => ~Busy(s)
    /\ k \in Tasks \cup {threadTask[t[1]]}
    /\ turn'    = [s \in Turns |-> IF s = t THEN "running"
                                   ELSE IF s \in Superseded(t) THEN "cancelled" ELSE turn[s]]
    /\ holder'  = [s \in Turns |-> IF s = t THEN r
                                   ELSE IF s \in Superseded(t) THEN Nobody ELSE holder[s]]
    /\ lease'   = [lease EXCEPT ![t] = TRUE]
    /\ watched' = [watched EXCEPT ![t] = k]
    \* a new thread takes p_task_id, an old one keeps its task
    /\ threadTask' = [threadTask EXCEPT ![t[1]] = IF t[2] = 1 THEN k ELSE @]
    /\ Begin(r, t)
    /\ UNCHANGED <<waits, attempts, acted, reply, answered, taskVars, queueVars, faults>>

\* Mutant: a failed turn always runs again, its committed task handoff included.
RetriableNever(t) == FALSE

\* A failed turn whose goal was already handed over to its task.
Retriable(t) == turn[t] = "failed" /\ watched[t] # Nobody /\ Sent(t)

\* The same message again, while the agent's own run failed or its lease lapsed: it runs again.
AcceptRerun(r, t) ==
    /\ run[r] = "idle"
    /\ turn[t] = "failed" \/ (turn[t] = "running" /\ ~lease[t])
    /\ ~Retriable(t)
    /\ turn'   = [turn EXCEPT ![t] = "running"]
    /\ holder' = [holder EXCEPT ![t] = r]
    /\ lease'  = [lease EXCEPT ![t] = TRUE]
    /\ Begin(r, t)
    /\ UNCHANGED <<watched, waits, attempts, acted, chatVars, taskVars, queueVars, faults>>

\* Otherwise a failed continuation is retried by a new delivery: the old one is retired.
AcceptRetry(t) ==
    /\ Retriable(t)
    /\ gen[t] < MaxGens
    /\ turn'     = [turn EXCEPT ![t] = "waiting_task"]
    /\ holder'   = [holder EXCEPT ![t] = Nobody]
    /\ attempts' = [attempts EXCEPT ![t] = 0]
    /\ LET n == IF Ready(t) THEN gen[t] + 1 ELSE 0
           retired(j) == j[1] = t /\ handoff[j] = "queued"
       IN
       /\ queue'   = [j \in Jobs |-> IF j = <<t, n>> THEN "visible"
                                     ELSE IF retired(j) THEN "archived" ELSE queue[j]]
       /\ handoff' = [j \in Jobs |-> IF j = <<t, n>> THEN "queued"
                                     ELSE IF retired(j) THEN "failed" ELSE handoff[j]]
       /\ gen'     = [gen EXCEPT ![t] = IF Ready(t) THEN @ + 1 ELSE @]
    /\ UNCHANGED <<lease, watched, waits, acted, chatVars, taskVars, reads, workerVars, reqVars, faults>>

\* AgentTurns.cancel
Cancel(t) ==
    /\ turn[t] \in Open
    /\ turn'   = [turn EXCEPT ![t] = "cancelled"]
    /\ holder' = [holder EXCEPT ![t] = Nobody]
    /\ UNCHANGED <<lease, watched, waits, attempts, acted, chatVars, taskVars, queueVars,
                   workerVars, reqVars, faults>>

\* The three minutes of a turn's lease pass.
LeaseLapses(t) ==
    /\ lease[t]
    /\ lease' = [lease EXCEPT ![t] = FALSE]
    /\ UNCHANGED <<turn, holder, watched, waits, attempts, acted, chatVars, taskVars, queueVars,
                   workerVars, reqVars, faults>>

-----------------------------------------------------------------------------
(* The agent's tools and the end of its run. *)

\* Both tools demand the current token, a live lease and a turn that has not moved on.
MayAct(r) ==
    LET t == goal[r] IN
    run[r] = "chat" /\ holder[t] = r /\ turn[t] \in {"running", "waiting_task"} /\ lease[t]

\* The subscriber, if what it subscribes to is already terminal.
ReadyAtOnce(t, k, os) == IF ReadyOn(k, os[k] # "none", task, os) THEN {t} ELSE {}

\* watch_agent_task: subscription, receipt and readiness check in one transaction.
Register(t, k, os) ==
    /\ turn'    = [turn EXCEPT ![t] = "waiting_task"]
    /\ watched' = [watched EXCEPT ![t] = k]
    /\ waits'   = [waits EXCEPT ![t] = os[k] # "none"]
    /\ threadTask' = [threadTask EXCEPT ![t[1]] = k]
    /\ reply'   = [reply EXCEPT ![t] = IF @ = "none" THEN "receipt" ELSE @]
    /\ Enqueue(ReadyAtOnce(t, k, os))

Watch(r, k) ==
    /\ MayAct(r)
    /\ Register(goal[r], k, out)
    /\ UNCHANGED <<lease, holder, attempts, acted, answered, taskVars, workerVars, reqVars, faults>>

\* submit_agent_video_task, the first time: submit_user_video_task finds k in progress or creates it,
\* or takes over its transcript and has an unfinished summary made again. A second call only
\* returns the receipt.
Submit(r, k) ==
    /\ MayAct(r)
    /\ ~acted[goal[r]]
    /\ out' = [out EXCEPT ![k] = IF task[k] = "pending" \/ @ = "completed" THEN @ ELSE "pending"]
    /\ Register(goal[r], k, out')
    /\ acted' = [acted EXCEPT ![goal[r]] = TRUE]
    /\ UNCHANGED <<lease, holder, attempts, answered, task, redo, workerVars, reqVars, faults>>

\* finish_agent_turn: the token is current and the lease live, except for a task receipt.
MaySave(r) ==
    LET t == goal[r] IN
    /\ holder[t] = r
    /\ turn[t] = "waiting_task" \/ (turn[t] \in {"running", "finalizing"} /\ lease[t])

Finish(r) ==
    LET t == goal[r] IN
    /\ run[r] \in {"chat", "answer"}
    /\ IF MaySave(r)
       THEN /\ turn'     = [turn EXCEPT ![t] = IF @ = "waiting_task" THEN @ ELSE "completed"]
            /\ answered' = [answered EXCEPT ![t] = IF turn[t] = "finalizing" THEN TRUE ELSE @]
            /\ reply'    = [reply EXCEPT ![t] = IF turn[t] = "finalizing" THEN @ ELSE "answer"]
       ELSE UNCHANGED <<turn, answered, reply>>
    /\ Answer(r, IF MaySave(r) THEN "confirm" ELSE "failed")
    /\ holder' = Forget(r)
    /\ UNCHANGED <<lease, watched, waits, attempts, acted, threadTask, taskVars, queueVars, faults>>

\* Mutant: the word tasks use for a failure.
FailTurnAsTask(t) == turn' = [turn EXCEPT ![t] = "error"]

FailTurn(t) == turn' = [turn EXCEPT ![t] = "failed"]

\* The model, a tool or the provider failed; a committed task handoff is not discarded.
FinishError(r) ==
    LET t == goal[r] IN
    /\ run[r] \in {"chat", "answer"}
    /\ IF MaySave(r) /\ turn[t] # "waiting_task"
       THEN /\ FailTurn(t)
            /\ reply' = [reply EXCEPT ![t] = IF @ = "none" THEN "failure" ELSE @]
       ELSE UNCHANGED <<turn, reply>>
    /\ Answer(r, "failed")
    /\ holder' = Forget(r)
    /\ UNCHANGED <<lease, watched, waits, attempts, acted, answered, threadTask, taskVars, queueVars, faults>>

-----------------------------------------------------------------------------
(* The continuation request: claim, then run, then finish. *)

\* Mutant: any delivery whose handoff is queued may claim.
ValidDeliveryStale(r) == handoff[delivery[r]] = "queued"

\* The delivery is the message's last one, not yet due again, and its handoff is queued.
ValidDelivery(r) ==
    LET j == delivery[r] IN
    handoff[j] = "queued" /\ current[r] /\ queue[j] = "hidden"

\* claim_agent_continuation
Claim(r) ==
    LET t == goal[r] IN
    /\ run[r] = "claim"
    /\ ValidDelivery(r)
    /\ turn[t] \in {"waiting_task", "finalizing", "failed"}
    /\ ~(turn[t] = "finalizing" /\ lease[t])
    /\ Ready(t)
    /\ turn'     = [turn EXCEPT ![t] = "finalizing"]
    /\ attempts' = [attempts EXCEPT ![t] = @ + 1]
    /\ holder'   = [holder EXCEPT ![t] = r]
    /\ lease'    = [lease EXCEPT ![t] = TRUE]
    /\ run'      = [run EXCEPT ![r] = "answer"]
    /\ UNCHANGED <<watched, waits, acted, chatVars, taskVars, queueVars, workerVars,
                   goal, delivery, current, faults>>

\* The turn has ended meanwhile: the delivery is reported as done.
ClaimSkipped(r) ==
    /\ run[r] = "claim"
    /\ ValidDelivery(r)
    /\ turn[goal[r]] \in {"completed", "cancelled"}
    /\ Answer(r, "confirm")
    /\ UNCHANGED <<turnVars, chatVars, taskVars, queueVars, faults>>

\* The delivery is not the current one, or the task went back to work, or another run of this
\* turn holds a live lease: then the worker comes back when it has lapsed.
ClaimRefused(r) ==
    LET t == goal[r]
        leased == ValidDelivery(r) /\ turn[t] = "finalizing" /\ lease[t] IN
    /\ run[r] = "claim"
    /\ ValidDelivery(r) =>
          /\ turn[t] \notin {"completed", "cancelled"}
          /\ turn[t] \in {"waiting_task", "finalizing", "failed"} /\ Ready(t) => leased
    /\ Answer(r, IF leased THEN "defer" ELSE "failed")
    /\ UNCHANGED <<turnVars, chatVars, taskVars, queueVars, faults>>

-----------------------------------------------------------------------------
(* The queue and the worker. *)

Fault(kind) == kind \in FaultKinds /\ faults < MaxFaults /\ faults' = faults + 1

Holds(w, j) == pc[w] # "idle" /\ job[w] = j

\* The visibility timeout passes after a deferral or the death of the worker ...
Expire(j) ==
    /\ queue[j] = "hidden"
    /\ \A w \in Workers : ~Holds(w, j)
    /\ queue' = [queue EXCEPT ![j] = "visible"]
    /\ UNCHANGED <<turnVars, chatVars, taskVars, handoff, reads, gen, workerVars, reqVars, faults>>

\* ... or under a worker that missed its heartbeats.
Stall(j) ==
    /\ queue[j] = "hidden"
    /\ \E w \in Workers : Holds(w, j)
    /\ Fault("stall")
    /\ queue' = [queue EXCEPT ![j] = "visible"]
    /\ UNCHANGED <<turnVars, chatVars, taskVars, handoff, reads, gen, workerVars, reqVars>>

Goto(w, p) == pc' = [pc EXCEPT ![w] = p]

\* Back to polling; a request still under way goes on without its client.
Release(w) ==
    /\ pc'    = [pc EXCEPT ![w] = "idle"]
    /\ job'   = [job EXCEPT ![w] = NoJob]
    /\ post'  = [post EXCEPT ![w] = Nobody]
    /\ count' = [count EXCEPT ![w] = 0]
    /\ current' = [current EXCEPT ![w] = FALSE]

Capped(n) == IF n < MaxAttempts THEN n + 1 ELSE n     \* only ever compared with MaxAttempts

\* A new read of the message makes every earlier delivery of it stale.
Read(w, j) ==
    /\ pc[w] = "idle"
    /\ queue[j] = "visible"
    /\ queue'   = [queue EXCEPT ![j] = "hidden"]
    /\ reads'   = [reads EXCEPT ![j] = Capped(@)]
    /\ job'     = [job EXCEPT ![w] = j]
    /\ count'   = [count EXCEPT ![w] = Capped(reads[j])]
    /\ current' = [a \in Workers \cup Requests |->
                      IF a = w THEN TRUE
                      ELSE IF a \in Requests THEN current[a] /\ delivery[a] # j
                      ELSE current[a] /\ job[a] # j]
    /\ Goto(w, "validate")
    /\ UNCHANGED <<turnVars, chatVars, taskVars, handoff, gen, post, run, goal, delivery, faults>>

Validate(w) ==
    /\ pc[w] = "validate"
    /\ handoff[job[w]] = "queued"
    /\ Goto(w, "dispatch")
    /\ UNCHANGED <<turnVars, chatVars, taskVars, queueVars, job, post, count, reqVars, faults>>

ArchiveInvalid(w) ==
    /\ pc[w] = "validate"
    /\ handoff[job[w]] # "queued"
    /\ queue' = [queue EXCEPT ![job[w]] = "archived"]
    /\ Release(w)
    /\ UNCHANGED <<turnVars, chatVars, taskVars, handoff, reads, gen, run, goal, delivery, faults>>

Spent(t) == attempts[t] >= MaxAttempts

\* AgentAnswerWorker._dispatch, up to the request it makes.
Dispatch(w) ==
    LET t == job[w][1] IN
    /\ pc[w] = "dispatch"
    /\ turn[t] \in {"completed", "cancelled"} \/ (turn[t] = "finalizing" /\ lease[t]) \/ Spent(t)
    /\ Goto(w, CASE turn[t] \in {"completed", "cancelled"} -> "done"
                 [] turn[t] = "finalizing" /\ lease[t] -> "defer"
                 [] OTHER -> "reject")
    /\ UNCHANGED <<turnVars, chatVars, taskVars, queueVars, job, post, count, reqVars, faults>>

Post(w, r) ==
    LET t == job[w][1] IN
    /\ pc[w] = "dispatch"
    /\ turn[t] \notin {"completed", "cancelled"}
    /\ ~(turn[t] = "finalizing" /\ lease[t])
    /\ ~Spent(t)
    /\ run[r] = "idle"
    /\ run'      = [run EXCEPT ![r] = "claim"]
    /\ goal'     = [goal EXCEPT ![r] = t]
    /\ delivery' = [delivery EXCEPT ![r] = job[w]]
    /\ current'  = [current EXCEPT ![r] = current[w]]
    /\ post'     = [post EXCEPT ![w] = r]
    /\ Goto(w, "posted")
    /\ UNCHANGED <<turnVars, chatVars, taskVars, queueVars, job, count, faults>>

\* The answer was 200: the worker looks for itself.
Confirm(w) ==
    /\ pc[w] = "confirm"
    /\ Goto(w, IF turn[job[w][1]] \in {"completed", "cancelled"} THEN "done" ELSE "failed")
    /\ UNCHANGED <<turnVars, chatVars, taskVars, queueVars, job, post, count, reqVars, faults>>

Heartbeat(w) ==
    /\ pc[w] \in {"dispatch", "posted", "confirm"}
    /\ queue[job[w]] = "visible"
    /\ queue' = [queue EXCEPT ![job[w]] = "hidden"]
    /\ UNCHANGED <<turnVars, chatVars, taskVars, handoff, reads, gen, workerVars, reqVars, faults>>

\* The message was archived meanwhile.
HeartbeatLost(w) ==
    /\ pc[w] \in {"dispatch", "posted", "confirm"}
    /\ queue[job[w]] = "archived"
    /\ Release(w)
    /\ UNCHANGED <<turnVars, chatVars, taskVars, queueVars, run, goal, delivery, faults>>

\* AgentAnswerWorker._has_exhausted_attempts
Exhausted(w) ==
    LET t == job[w][1] IN
    \/ turn[t] = "failed" /\ Spent(t)
    \/ turn[t] \in {"running", "waiting_task"} /\ count[w] >= MaxAttempts

HandleFailure(w) ==
    /\ pc[w] = "failed"
    /\ Goto(w, IF Exhausted(w) THEN "reject" ELSE "defer")
    /\ UNCHANGED <<turnVars, chatVars, taskVars, queueVars, job, post, count, reqVars, faults>>

\* Mutant: drops the message instead of deferring it.
DeferDrops(w) ==
    /\ pc[w] = "defer"
    /\ queue' = [queue EXCEPT ![job[w]] = "archived"]
    /\ Release(w)
    /\ UNCHANGED <<turnVars, chatVars, taskVars, handoff, reads, gen, run, goal, delivery, faults>>

Defer(w) ==
    /\ pc[w] = "defer"
    /\ queue' = [queue EXCEPT ![job[w]] = IF @ = "archived" THEN @ ELSE "hidden"]
    /\ Release(w)
    /\ UNCHANGED <<turnVars, chatVars, taskVars, handoff, reads, gen, run, goal, delivery, faults>>

\* Mutant: the late failure of a retired delivery still counts.
MayFailAnyDelivery(j) == turn[j[1]] \notin {"completed", "cancelled"}

\* Mutant: a rejected delivery fails its turn even when that has ended.
MayFailEnded(j) == handoff[j] = "queued"

\* fail_agent_continuation acts for a queued delivery of a turn that has not ended.
MayFail(j) == handoff[j] = "queued" /\ turn[j[1]] \notin {"completed", "cancelled"}

FailContinuation(w) ==
    LET j == job[w] IN
    /\ pc[w] = "reject"
    /\ IF MayFail(j)
       THEN FailTurn(j[1]) /\ holder' = [holder EXCEPT ![j[1]] = Nobody]
       ELSE UNCHANGED <<turn, holder>>
    /\ Goto(w, "buried")
    /\ UNCHANGED <<lease, watched, waits, attempts, acted, chatVars, taskVars, queueVars,
                   job, post, count, reqVars, faults>>

\* complete_queue_job looks at the handoff and at the turn, without locking either ...
MayAck(j) == handoff[j] = "queued" /\ turn[j[1]] \in {"completed", "cancelled", "failed"}

AckCheck(w) ==
    /\ pc[w] \in {"done", "buried"}
    /\ IF MayAck(job[w])
       THEN Goto(w, IF pc[w] = "done" THEN "ackDone" ELSE "ackBuried")
            /\ UNCHANGED <<job, post, count, current>>
       ELSE Release(w)
    /\ UNCHANGED <<turnVars, chatVars, taskVars, queueVars, run, goal, delivery, faults>>

\* ... and then archives the message and closes the handoff, unless the message is gone.
Ack(w) ==
    LET j == job[w] IN
    /\ pc[w] \in {"ackDone", "ackBuried"}
    /\ IF queue[j] # "archived"
       THEN /\ queue'   = [queue EXCEPT ![j] = "archived"]
            /\ handoff' = [handoff EXCEPT ![j] = IF pc[w] = "ackDone" THEN "completed" ELSE "failed"]
       ELSE UNCHANGED <<queue, handoff>>
    /\ Release(w)
    /\ UNCHANGED <<turnVars, chatVars, taskVars, reads, gen, run, goal, delivery, faults>>

-----------------------------------------------------------------------------
(* Faults. *)

\* The request to the web application times out, or a database call raises.
Raise(w) ==
    /\ pc[w] \in {"dispatch", "posted", "confirm", "done", "reject"}
    /\ Fault("raise")
    /\ Goto(w, "failed")
    /\ post' = [post EXCEPT ![w] = Nobody]
    /\ UNCHANGED <<turnVars, chatVars, taskVars, queueVars, job, count, reqVars>>

\* The worker dies or abandons the delivery.
Crash(w) ==
    /\ pc[w] # "idle"
    /\ Fault("crash")
    /\ Release(w)
    /\ UNCHANGED <<turnVars, chatVars, taskVars, queueVars, run, goal, delivery>>

\* The web application's process dies with the request.
RequestDies(r) ==
    /\ run[r] # "idle"
    /\ Fault("crash")
    /\ Answer(r, "failed")
    /\ holder' = Forget(r)
    /\ UNCHANGED <<turn, lease, watched, waits, attempts, acted, chatVars, taskVars, queueVars>>

-----------------------------------------------------------------------------

User ==
    \/ \E r \in Requests, t \in Turns : \E k \in Tasks \cup {Nobody} : AcceptNew(r, t, k)
    \/ \E r \in Requests, t \in Turns : AcceptRerun(r, t)
    \/ \E t \in Turns : AcceptRetry(t) \/ Cancel(t)
    \/ \E k \in Tasks : Redo(k)

Tool(r) == \E k \in Tasks : Watch(r, k) \/ Submit(r, k)

EndRun(r) ==
    \/ Claim(r) \/ ClaimSkipped(r) \/ ClaimRefused(r)
    \/ Finish(r) \/ FinishError(r)

WorkerStep(w) ==
    \/ \E j \in Jobs : Read(w, j)
    \/ Validate(w) \/ ArchiveInvalid(w)
    \/ Dispatch(w) \/ (\E r \in Requests : Post(w, r)) \/ Confirm(w) \/ HeartbeatLost(w)
    \/ HandleFailure(w) \/ Defer(w) \/ FailContinuation(w) \/ AckCheck(w) \/ Ack(w)

TaskWork(k) == \E s \in {"completed", "error"} : TaskEnds(k, s) \/ OutputEnds(k, s)

Faulty ==
    \/ \E j \in Jobs : Stall(j)
    \/ \E w \in Workers : Raise(w) \/ Crash(w)
    \/ \E r \in Requests : RequestDies(r)

Next ==
    \/ User
    \/ \E r \in Requests : Tool(r) \/ EndRun(r)
    \/ \E k \in Tasks : TaskWork(k)
    \/ \E t \in Turns : LeaseLapses(t)
    \/ \E j \in Jobs : Expire(j)
    \/ \E w \in Workers : WorkerStep(w) \/ Heartbeat(w)
    \/ Faulty

Spec == Init /\ [][Next]_vars

\* Time passes, processes keep running, the pipeline finishes its tasks. A user need do nothing.
Fairness ==
    /\ \A k \in Tasks : WF_vars(TaskWork(k))
    /\ \A t \in Turns : WF_vars(LeaseLapses(t))
    /\ \A j \in Jobs : WF_vars(Expire(j))
    /\ \A r \in Requests : WF_vars(EndRun(r))
    /\ \A w \in Workers : WF_vars(WorkerStep(w))

FairSpec == Spec /\ Fairness

-----------------------------------------------------------------------------
(* Properties. *)

\* No lost wake-up: a turn that waits for a task that is already terminal has a queued
\* continuation, however the subscription races the task's last write.
NoLostWakeup ==
    \A t \in Turns : turn[t] = "waiting_task" /\ Ready(t) => Delivering(t)

\* A thread has one open goal: later messages supersede earlier turns, and no retry or late
\* delivery of a superseded turn brings it back.
OneOpenTurn ==
    \A s, t \in Turns : s[1] = t[1] /\ turn[s] \in Open /\ turn[t] \in Open => s = t

\* A turn that has created a video task never runs its tools again, whatever fails later:
\* one user message submits at most one video.
SubmittedNeverReruns ==
    \A t \in Turns : acted[t] => turn[t] # "running"

\* What a step leaves alone of a turn that has ended.
EndedStays ==
    \A t \in Turns : turn[t] \in {"completed", "cancelled"} =>
        turn'[t] = turn[t] /\ reply'[t] = reply[t] /\ answered'[t] = answered[t]

\* A completed or cancelled turn is final, and so are the messages it has written: no late run,
\* stale delivery, retry or failure of it has an effect.
EndedIsFinal == [][EndedStays]_<<turn, reply, answered>>

\* The model is called at most MaxAttempts times for one generation of a continuation, stale
\* workers and detached requests included.
ClaimsBounded ==
    \A t \in Turns : attempts[t] <= MaxAttempts

\* A waiting turn fails only when its own queued delivery has used up its reads: the late failure of
\* a delivery that a user's retry has retired does not count against the new one.
RetryGetsItsAttempts ==
    [][\A t \in Turns : turn[t] = "waiting_task" /\ turn'[t] = "failed" =>
            \E j \in Jobs : j[1] = t /\ handoff[j] = "queued" /\ reads[j] = MaxAttempts]_turn

\* Every queued continuation is eventually acknowledged, and a turn whose task is terminal
\* does not wait for ever.
EveryContinuationResolves ==
    /\ \A j \in Jobs : handoff[j] = "queued" ~> handoff[j] # "queued"
    /\ \A t \in Turns : turn[t] = "waiting_task" ~> turn[t] # "waiting_task"

=============================================================================
