--------------------------- MODULE AgentTurnsProofs ---------------------------
(***************************************************************************)
(* Safety of agent turns for any number of threads, turns, tasks, workers, *)
(* requests and faults of every kind.                                      *)
(***************************************************************************)
EXTENDS AgentTurns, TLAPS

\* A request under way works for a turn; a claiming one carries a delivery of that turn.
RequestGoal ==
    \A r \in Requests :
        /\ run[r] # "idle" => goal[r] \in Turns
        /\ run[r] = "claim" => delivery[r] \in Jobs /\ delivery[r][1] = goal[r]

\* A busy worker holds a message, and only a worker that has posted waits for a request.
WorkerJob ==
    \A w \in Workers :
        /\ pc[w] # "idle" => job[w] \in Jobs
        /\ post[w] # Nobody => pc[w] = "posted"

WellTyped == TypeOK /\ RequestGoal /\ WorkerJob

-----------------------------------------------------------------------------
(* Types. *)

\* The components of a job are a turn and a generation.
LEMMA JobParts ==
    ASSUME NEW j \in Jobs
    PROVE  j[1] \in Turns /\ j[2] \in 1..MaxGens /\ j = <<j[1], j[2]>>
BY DEF Jobs

\* A turn and a generation make a job.
LEMMA MakeJob ==
    ASSUME NEW t \in Turns, NEW g \in 1..MaxGens
    PROVE  /\ <<t, g>> \in Jobs
           /\ <<t, g>>[1] = t /\ <<t, g>>[2] = g
           /\ \A j \in Jobs : j = <<t, g>> <=> j[1] = t /\ j[2] = g
BY DEF Jobs

\* The empty database is well typed.
LEMMA InitTyped == Init => WellTyped
BY AgentAssumption DEF Init, WellTyped, TypeOK, RequestGoal, WorkerJob, Open

\* Sending keeps the queue well typed.
LEMMA SendType ==
    ASSUME TypeOK, NEW S, Send(S), \A t \in S : gen[t] < MaxGens
    PROVE  /\ queue' \in [Jobs -> {"unsent", "visible", "hidden", "archived"}]
           /\ handoff' \in [Jobs -> {"none", "queued", "completed", "failed"}]
           /\ gen' \in [Turns -> 0..MaxGens]
           /\ reads' = reads
BY AgentAssumption DEF TypeOK, Send

\* So does the queueing of continuations.
LEMMA EnqueueType ==
    ASSUME TypeOK, NEW S, Enqueue(S)
    PROVE  /\ queue' \in [Jobs -> {"unsent", "visible", "hidden", "archived"}]
           /\ handoff' \in [Jobs -> {"none", "queued", "completed", "failed"}]
           /\ gen' \in [Turns -> 0..MaxGens]
           /\ reads' = reads
<1> DEFINE T == {t \in S : ~Delivering(t) /\ gen[t] < MaxGens}
<1>1. Send(T) /\ \A t \in T : gen[t] < MaxGens
  BY DEF Enqueue
<1> HIDE DEF T
<1> QED
  BY <1>1, SendType

\* What the pipeline and its users write.
LEMMA TaskTyped ==
    ASSUME WellTyped, NEW k \in Tasks, TaskWork(k) \/ Redo(k)
    PROVE  WellTyped'
<1> USE DEF WellTyped
<1>1. ASSUME NEW s \in {"completed", "error"}, TaskEnds(k, s) PROVE WellTyped'
  <2>1. TypeOK'
    BY <1>1, EnqueueType DEF TaskEnds, Wake, TypeOK, turnVars, chatVars, workerVars, reqVars
  <2> QED
    BY <1>1, <2>1 DEF TaskEnds, RequestGoal, WorkerJob, workerVars, reqVars
<1>2. ASSUME NEW s \in {"completed", "error"}, OutputEnds(k, s) PROVE WellTyped'
  <2>1. TypeOK'
    BY <1>2, EnqueueType DEF OutputEnds, Wake, TypeOK, turnVars, chatVars, workerVars, reqVars
  <2> QED
    BY <1>2, <2>1 DEF OutputEnds, RequestGoal, WorkerJob, workerVars, reqVars
<1>3. CASE Redo(k)
  <2>1. TypeOK'
    BY <1>3, AgentAssumption DEF Redo, TypeOK, turnVars, chatVars, queueVars, workerVars, reqVars
  <2> QED
    BY <1>3, <2>1 DEF Redo, RequestGoal, WorkerJob, workerVars, reqVars
<1> QED
  BY <1>1, <1>2, <1>3 DEF TaskWork

\* The end of a request keeps requests and workers well typed; no worker gets to acknowledge.
LEMMA AnswerTyped ==
    ASSUME WellTyped, NEW r \in Requests, NEW p \in {"confirm", "failed", "defer"}, Answer(r, p)
    PROVE  /\ run' \in [Requests -> {"idle", "chat", "claim", "answer"}]
           /\ goal' \in [Requests -> Turns \cup {NoTurn}]
           /\ delivery' \in [Requests -> Jobs \cup {NoJob}]
           /\ current' \in [Workers \cup Requests -> BOOLEAN]
           /\ pc' \in [Workers -> {"idle", "validate", "dispatch", "posted", "confirm", "failed",
                                   "defer", "reject", "done", "buried", "ackDone", "ackBuried"}]
           /\ post' \in [Workers -> Requests \cup {Nobody}]
           /\ job' = job /\ count' = count
           /\ RequestGoal' /\ WorkerJob'
           /\ \A w \in Workers : pc'[w] \in {"ackDone", "ackBuried"} => pc[w] = pc'[w]
<1> USE DEF WellTyped
<1>1. run' \in [Requests -> {"idle", "chat", "claim", "answer"}] /\ goal' \in [Requests -> Turns \cup {NoTurn}]
  BY DEF Answer, TypeOK
<1>2. delivery' \in [Requests -> Jobs \cup {NoJob}] /\ current' \in [Workers \cup Requests -> BOOLEAN]
  BY DEF Answer, TypeOK
<1>3. \A w \in Workers : pc'[w] = IF post[w] = r THEN p ELSE pc[w]
  BY DEF Answer
<1>4. \A w \in Workers : post'[w] = IF post[w] = r THEN Nobody ELSE post[w]
  BY DEF Answer
<1>5. pc' \in [Workers -> {"idle", "validate", "dispatch", "posted", "confirm", "failed",
                                   "defer", "reject", "done", "buried", "ackDone", "ackBuried"}]
  BY DEF Answer, TypeOK
<1>6. post' \in [Workers -> Requests \cup {Nobody}]
  BY DEF Answer, TypeOK
<1>7. RequestGoal'
  BY DEF Answer, TypeOK, RequestGoal
<1>8. WorkerJob'
  BY <1>3, <1>4, AgentAssumption DEF Answer, TypeOK, WorkerJob
<1>9. \A w \in Workers : pc'[w] \in {"ackDone", "ackBuried"} => pc[w] = pc'[w]
  BY <1>3
<1> QED
  BY <1>1, <1>2, <1>5, <1>6, <1>7, <1>8, <1>9 DEF Answer

\* What a user asks for keeps the types.
LEMMA UserTyped ==
    ASSUME WellTyped, User
    PROVE  WellTyped'
<1> USE DEF WellTyped
<1>1. ASSUME NEW r \in Requests, NEW t \in Turns, NEW k \in Tasks \cup {Nobody}, AcceptNew(r, t, k)
      PROVE  WellTyped'
  <2>1. TypeOK'
    BY <1>1 DEF AcceptNew, Begin, TypeOK, Open, taskVars, queueVars, workerVars
  <2>2. RequestGoal' /\ WorkerJob'
    BY <1>1 DEF AcceptNew, Begin, TypeOK, RequestGoal, WorkerJob, workerVars
  <2> QED
    BY <2>1, <2>2
<1>2. ASSUME NEW r \in Requests, NEW t \in Turns, AcceptRerun(r, t) PROVE WellTyped'
  <2>1. TypeOK'
    BY <1>2 DEF AcceptRerun, Begin, TypeOK, Open, taskVars, chatVars, queueVars, workerVars
  <2>2. RequestGoal' /\ WorkerJob'
    BY <1>2 DEF AcceptRerun, Begin, TypeOK, RequestGoal, WorkerJob, workerVars
  <2> QED
    BY <2>1, <2>2
<1>3. ASSUME NEW t \in Turns, AcceptRetry(t) PROVE WellTyped'
  <2>1. TypeOK'
    BY <1>3, AgentAssumption DEF AcceptRetry, TypeOK, Open, chatVars, taskVars, workerVars, reqVars
  <2>2. RequestGoal' /\ WorkerJob'
    BY <1>3 DEF AcceptRetry, RequestGoal, WorkerJob, workerVars, reqVars
  <2> QED
    BY <2>1, <2>2
<1>4. ASSUME NEW t \in Turns, Cancel(t) PROVE WellTyped'
  <2>1. TypeOK'
    BY <1>4 DEF Cancel, TypeOK, Open, chatVars, taskVars, queueVars, workerVars, reqVars
  <2>2. RequestGoal' /\ WorkerJob'
    BY <1>4 DEF Cancel, RequestGoal, WorkerJob, workerVars, reqVars
  <2> QED
    BY <2>1, <2>2
<1> QED
  BY <1>1, <1>2, <1>3, <1>4, TaskTyped DEF User

\* A subscription keeps the types.
LEMMA RegisterType ==
    ASSUME TypeOK, NEW t \in Turns, NEW k \in Tasks, NEW os, Register(t, k, os)
    PROVE  /\ turn' \in [Turns -> Open \cup {"none", "completed", "cancelled"}]
           /\ watched' \in [Turns -> Tasks \cup {Nobody}]
           /\ waits' \in [Turns -> BOOLEAN]
           /\ threadTask' \in [Threads -> Tasks \cup {Nobody}]
           /\ reply' \in [Turns -> {"none", "receipt", "failure", "answer"}]
           /\ queue' \in [Jobs -> {"unsent", "visible", "hidden", "archived"}]
           /\ handoff' \in [Jobs -> {"none", "queued", "completed", "failed"}]
           /\ gen' \in [Turns -> 0..MaxGens]
           /\ reads' = reads
<1>1. Enqueue(ReadyAtOnce(t, k, os))
  BY DEF Register
<1>2. turn' \in [Turns -> Open \cup {"none", "completed", "cancelled"}]
  BY DEF Register, TypeOK, Open
<1>3. /\ watched' \in [Turns -> Tasks \cup {Nobody}] /\ waits' \in [Turns -> BOOLEAN]
      /\ threadTask' \in [Threads -> Tasks \cup {Nobody}]
      /\ reply' \in [Turns -> {"none", "receipt", "failure", "answer"}]
  BY DEF Register, TypeOK
<1> QED
  BY <1>1, <1>2, <1>3, EnqueueType

\* The steps of a request keep the types.
LEMMA RequestTyped ==
    ASSUME WellTyped, NEW r \in Requests, Tool(r) \/ EndRun(r) \/ RequestDies(r)
    PROVE  WellTyped'
<1> USE DEF WellTyped
<1>0. run[r] # "idle" => goal[r] \in Turns
  BY DEF RequestGoal
<1>1. ASSUME NEW k \in Tasks, Watch(r, k) PROVE WellTyped'
  <2>1. TypeOK'
    BY <1>0, <1>1, RegisterType DEF Watch, MayAct, TypeOK, taskVars, workerVars, reqVars
  <2> QED
    BY <1>1, <2>1 DEF Watch, RequestGoal, WorkerJob, workerVars, reqVars
<1>2. ASSUME NEW k \in Tasks, Submit(r, k) PROVE WellTyped'
  <2>1. goal[r] \in Turns /\ out' \in [Tasks -> {"none", "pending", "completed", "error"}]
    BY <1>0, <1>2 DEF Submit, MayAct, TypeOK
  <2>2. acted' \in [Turns -> BOOLEAN]
    BY <1>2 DEF Submit, TypeOK
  <2>3. TypeOK'
    BY <1>2, <2>1, <2>2, RegisterType DEF Submit, TypeOK, workerVars, reqVars
  <2> QED
    BY <1>2, <2>3 DEF Submit, RequestGoal, WorkerJob, workerVars, reqVars
<1>3. CASE Claim(r)
  <2>1. TypeOK'
    BY <1>0, <1>3 DEF Claim, TypeOK, Open, chatVars, taskVars, queueVars, workerVars
  <2>2. RequestGoal' /\ WorkerJob'
    BY <1>3 DEF Claim, TypeOK, RequestGoal, WorkerJob, workerVars
  <2> QED
    BY <2>1, <2>2
<1>4. CASE ClaimSkipped(r) \/ ClaimRefused(r)
  <2>1. \E p \in {"confirm", "failed", "defer"} : Answer(r, p)
    BY <1>4 DEF ClaimSkipped, ClaimRefused
  <2>2. UNCHANGED <<turnVars, chatVars, taskVars, queueVars, faults>>
    BY <1>4 DEF ClaimSkipped, ClaimRefused
  <2>3. TypeOK'
    BY <2>1, <2>2, AnswerTyped DEF TypeOK, turnVars, chatVars, taskVars, queueVars
  <2> QED
    BY <2>1, <2>3, AnswerTyped
<1>5. CASE Finish(r)
  <2>1. \E p \in {"confirm", "failed", "defer"} : Answer(r, p)
    BY <1>5 DEF Finish
  <2>2. /\ turn' \in [Turns -> Open \cup {"none", "completed", "cancelled"}]
        /\ reply' \in [Turns -> {"none", "receipt", "failure", "answer"}]
        /\ answered' \in [Turns -> BOOLEAN]
    <3> DEFINE t == goal[r]
    <3>1. t \in Turns
      BY <1>0, <1>5 DEF Finish
    <3>2. CASE MaySave(r)
      <4>1. /\ turn'     = [turn EXCEPT ![t] = IF @ = "waiting_task" THEN @ ELSE "completed"]
            /\ answered' = [answered EXCEPT ![t] = IF turn[t] = "finalizing" THEN TRUE ELSE @]
            /\ reply'    = [reply EXCEPT ![t] = IF turn[t] = "finalizing" THEN @ ELSE "answer"]
        BY <1>5, <3>2 DEF Finish
      <4> HIDE DEF t
      <4>2. answered' \in [Turns -> BOOLEAN]
        BY <3>1, <4>1 DEF TypeOK
      <4> QED
        BY <3>1, <4>1, <4>2 DEF TypeOK
    <3>3. CASE ~MaySave(r)
      <4>1. UNCHANGED <<turn, answered, reply>>
        BY <1>5, <3>3 DEF Finish
      <4> QED
        BY <4>1 DEF TypeOK
    <3> QED
      BY <3>2, <3>3
  <2>3. holder' \in [Turns -> Requests \cup {Nobody}]
    BY <1>5 DEF Finish, Forget, TypeOK
  <2>4. TypeOK'
    BY <1>5, <2>1, <2>2, <2>3, AnswerTyped DEF Finish, TypeOK, taskVars, queueVars
  <2> QED
    BY <2>1, <2>4, AnswerTyped
<1>6. CASE FinishError(r)
  <2>1. \E p \in {"confirm", "failed", "defer"} : Answer(r, p)
    BY <1>6 DEF FinishError
  <2>2. /\ turn' \in [Turns -> Open \cup {"none", "completed", "cancelled"}]
        /\ reply' \in [Turns -> {"none", "receipt", "failure", "answer"}]
    BY <1>6 DEF FinishError, FailTurn, TypeOK, Open
  <2>3. holder' \in [Turns -> Requests \cup {Nobody}]
    BY <1>6 DEF FinishError, Forget, TypeOK
  <2>4. TypeOK'
    BY <1>6, <2>1, <2>2, <2>3, AnswerTyped DEF FinishError, TypeOK, taskVars, queueVars
  <2> QED
    BY <2>1, <2>4, AnswerTyped
<1>7. CASE RequestDies(r)
  <2>1. Answer(r, "failed") /\ faults' \in 0..MaxFaults
    BY <1>7, AgentAssumption DEF RequestDies, Fault, TypeOK
  <2>2. holder' \in [Turns -> Requests \cup {Nobody}]
    BY <1>7 DEF RequestDies, Forget, TypeOK
  <2>3. TypeOK'
    BY <1>7, <2>1, <2>2, AnswerTyped DEF RequestDies, TypeOK, chatVars, taskVars, queueVars
  <2> QED
    BY <2>1, <2>3, AnswerTyped
<1> QED
  BY <1>1, <1>2, <1>3, <1>4, <1>5, <1>6, <1>7 DEF Tool, EndRun

\* A released worker is idle.
LEMMA ReleaseTyped ==
    ASSUME WellTyped, NEW w \in Workers, Release(w), UNCHANGED <<run, goal, delivery>>
    PROVE  /\ pc' \in [Workers -> {"idle", "validate", "dispatch", "posted", "confirm", "failed",
                                   "defer", "reject", "done", "buried", "ackDone", "ackBuried"}]
           /\ job' \in [Workers -> Jobs \cup {NoJob}]
           /\ post' \in [Workers -> Requests \cup {Nobody}]
           /\ count' \in [Workers -> 0..MaxAttempts]
           /\ current' \in [Workers \cup Requests -> BOOLEAN]
           /\ RequestGoal' /\ WorkerJob'
<1> USE DEF WellTyped
<1>1. current' \in [Workers \cup Requests -> BOOLEAN]
  BY DEF Release, TypeOK
<1>2. RequestGoal' /\ WorkerJob'
  BY DEF Release, TypeOK, RequestGoal, WorkerJob
<1> QED
  BY <1>1, <1>2, AgentAssumption DEF Release, TypeOK

\* The steps of the queue and of the workers keep the types.
LEMMA WorkerTyped ==
    ASSUME WellTyped, NEW w \in Workers, WorkerStep(w) \/ Heartbeat(w) \/ Raise(w) \/ Crash(w)
    PROVE  WellTyped'
<1> USE DEF WellTyped
<1>0. pc[w] # "idle" => job[w] \in Jobs
  BY DEF WorkerJob
<1>1. ASSUME NEW j \in Jobs, Read(w, j) PROVE WellTyped'
  <2>1. current' \in [Workers \cup Requests -> BOOLEAN]
    BY <1>1 DEF Read, TypeOK
  <2>2. count' \in [Workers -> 0..MaxAttempts] /\ reads' \in [Jobs -> 0..MaxAttempts]
    BY <1>1, AgentAssumption DEF Read, Capped, TypeOK
  <2>3. TypeOK'
    BY <1>1, <2>1, <2>2 DEF Read, Goto, TypeOK, turnVars, chatVars, taskVars
  <2>4. RequestGoal' /\ WorkerJob'
    BY <1>1 DEF Read, Goto, TypeOK, RequestGoal, WorkerJob
  <2> QED
    BY <2>3, <2>4
<1>2. CASE Validate(w) \/ Dispatch(w) \/ Confirm(w) \/ HandleFailure(w)
  <2>1. \E p \in {"dispatch", "done", "defer", "reject", "failed"} : Goto(w, p)
    BY <1>2 DEF Validate, Dispatch, Confirm, HandleFailure
  <2>2. /\ UNCHANGED <<turnVars, chatVars, taskVars, queueVars, job, post, count, reqVars, faults>>
        /\ pc[w] \notin {"idle", "posted"}
    BY <1>2 DEF Validate, Dispatch, Confirm, HandleFailure
  <2>3. TypeOK'
    BY <2>1, <2>2 DEF Goto, TypeOK, turnVars, chatVars, taskVars, queueVars, reqVars
  <2>4. RequestGoal' /\ WorkerJob'
    BY <2>1, <2>2 DEF Goto, TypeOK, RequestGoal, WorkerJob, reqVars
  <2> QED
    BY <2>3, <2>4
<1>3. CASE ArchiveInvalid(w) \/ Defer(w) \/ HeartbeatLost(w) \/ Crash(w) \/ Ack(w)
  <2>1. /\ Release(w)
        /\ UNCHANGED <<turnVars, chatVars, taskVars, reads, gen, run, goal, delivery>>
    BY <1>3 DEF ArchiveInvalid, Defer, HeartbeatLost, Crash, Ack, queueVars
  <2>2. faults' \in 0..MaxFaults
    BY <1>3, AgentAssumption DEF ArchiveInvalid, Defer, HeartbeatLost, Crash, Ack, Fault, TypeOK
  <2>3. queue' \in [Jobs -> {"unsent", "visible", "hidden", "archived"}]
    BY <1>3 DEF ArchiveInvalid, Defer, HeartbeatLost, Crash, Ack, TypeOK, queueVars
  <2>4. handoff' \in [Jobs -> {"none", "queued", "completed", "failed"}]
    BY <1>3 DEF ArchiveInvalid, Defer, HeartbeatLost, Crash, Ack, TypeOK, queueVars
  <2>5. TypeOK'
    BY <2>1, <2>2, <2>3, <2>4, ReleaseTyped DEF TypeOK, turnVars, chatVars, taskVars
  <2> QED
    BY <2>1, <2>5, ReleaseTyped
<1>4. ASSUME NEW r \in Requests, Post(w, r) PROVE WellTyped'
  <2>1. job[w] \in Jobs /\ job[w][1] \in Turns
    BY <1>0, <1>4, JobParts DEF Post
  <2>2. current' \in [Workers \cup Requests -> BOOLEAN]
    BY <1>4 DEF Post, TypeOK
  <2>3. TypeOK'
    BY <1>4, <2>1, <2>2 DEF Post, Goto, TypeOK, turnVars, chatVars, taskVars, queueVars
  <2>4. RequestGoal'
    BY <1>4, <2>1 DEF Post, TypeOK, RequestGoal
  <2>5. WorkerJob'
    BY <1>4, <2>1 DEF Post, Goto, TypeOK, WorkerJob
  <2> QED
    BY <2>3, <2>4, <2>5
<1>5. CASE FailContinuation(w)
  <2>1. turn' \in [Turns -> Open \cup {"none", "completed", "cancelled"}]
    BY <1>5 DEF FailContinuation, FailTurn, TypeOK, Open
  <2>2. holder' \in [Turns -> Requests \cup {Nobody}]
    BY <1>5 DEF FailContinuation, TypeOK
  <2>3. TypeOK'
    BY <1>5, <2>1, <2>2 DEF FailContinuation, Goto, TypeOK, chatVars, taskVars, queueVars, reqVars
  <2>4. RequestGoal' /\ WorkerJob'
    BY <1>5 DEF FailContinuation, Goto, TypeOK, RequestGoal, WorkerJob, reqVars
  <2> QED
    BY <2>3, <2>4
<1>6. CASE AckCheck(w)
  <2>1. UNCHANGED <<turnVars, chatVars, taskVars, queueVars, run, goal, delivery, faults>>
    BY <1>6 DEF AckCheck
  <2>2. CASE Release(w)
    <3>1. TypeOK'
      BY <2>1, <2>2, ReleaseTyped DEF TypeOK, turnVars, chatVars, taskVars, queueVars
    <3> QED
      BY <2>1, <2>2, <3>1, ReleaseTyped
  <2>3. CASE ~Release(w)
    <3>1. /\ pc[w] \in {"done", "buried"}
          /\ \E p \in {"ackDone", "ackBuried"} : Goto(w, p)
          /\ UNCHANGED <<job, post, count, current>>
      BY <1>6, <2>3 DEF AckCheck
    <3>2. TypeOK'
      BY <2>1, <3>1 DEF Goto, TypeOK, turnVars, chatVars, taskVars, queueVars
    <3>3. RequestGoal' /\ WorkerJob'
      BY <2>1, <3>1 DEF Goto, TypeOK, RequestGoal, WorkerJob
    <3> QED
      BY <3>2, <3>3
  <2> QED
    BY <2>2, <2>3
<1>7. CASE Heartbeat(w)
  <2>1. TypeOK'
    BY <1>7 DEF Heartbeat, TypeOK, turnVars, chatVars, taskVars, workerVars, reqVars
  <2> QED
    BY <1>7, <2>1 DEF Heartbeat, RequestGoal, WorkerJob, workerVars, reqVars
<1>8. CASE Raise(w)
  <2>1. TypeOK'
    BY <1>8, AgentAssumption DEF Raise, Fault, Goto, TypeOK, turnVars, chatVars, taskVars, queueVars, reqVars
  <2>2. RequestGoal' /\ WorkerJob'
    BY <1>8 DEF Raise, Goto, TypeOK, RequestGoal, WorkerJob, reqVars
  <2> QED
    BY <2>1, <2>2
<1> QED
  BY <1>1, <1>2, <1>3, <1>4, <1>5, <1>6, <1>7, <1>8 DEF WorkerStep

\* So do a lease or a visibility timeout that passes.
LEMMA TimeTyped ==
    ASSUME WellTyped,
           \/ \E t \in Turns : LeaseLapses(t)
           \/ \E j \in Jobs : Expire(j) \/ Stall(j)
    PROVE  WellTyped'
<1> USE DEF WellTyped
<1>1. ASSUME NEW t \in Turns, LeaseLapses(t) PROVE WellTyped'
  <2>1. TypeOK'
    BY <1>1 DEF LeaseLapses, TypeOK, chatVars, taskVars, queueVars, workerVars, reqVars
  <2> QED
    BY <1>1, <2>1 DEF LeaseLapses, RequestGoal, WorkerJob, workerVars, reqVars
<1>2. ASSUME NEW j \in Jobs, Expire(j) \/ Stall(j) PROVE WellTyped'
  <2>1. faults' \in 0..MaxFaults
    BY <1>2, AgentAssumption DEF Expire, Stall, Fault, TypeOK
  <2>2. /\ queue' = [queue EXCEPT ![j] = "visible"]
        /\ UNCHANGED <<turnVars, chatVars, taskVars, handoff, reads, gen, workerVars, reqVars>>
    BY <1>2 DEF Expire, Stall
  <2>3. TypeOK'
    BY <2>1, <2>2 DEF TypeOK, turnVars, chatVars, taskVars, workerVars, reqVars
  <2> QED
    BY <2>2, <2>3 DEF RequestGoal, WorkerJob, workerVars, reqVars
<1> QED
  BY <1>1, <1>2

\* Every step keeps the types.
LEMMA NextTyped == WellTyped /\ [Next]_vars => WellTyped'
<1> SUFFICES ASSUME WellTyped, [Next]_vars PROVE WellTyped'
  OBVIOUS
<1>1. CASE UNCHANGED vars
  BY <1>1 DEF vars, turnVars, chatVars, taskVars, queueVars, workerVars, reqVars,
              WellTyped, TypeOK, RequestGoal, WorkerJob
<1>2. CASE Next
  BY <1>2, UserTyped, RequestTyped, TaskTyped, WorkerTyped, TimeTyped DEF Next, Faulty
<1> QED
  BY <1>1, <1>2

\* Turns, actions, messages, handoffs and processes only ever take the values that the schema's
\* checks and the code's branches know.
THEOREM TypeCorrect == Spec => []TypeOK
<1>1. WellTyped => TypeOK
  BY DEF WellTyped
<1> QED
  BY InitTyped, NextTyped, <1>1, PTL DEF Spec

-----------------------------------------------------------------------------
(***************************************************************************)
(* No lost wake-up, one open turn per thread, at most one submission per    *)
(* turn and final endings, for any number of threads, turns, tasks,        *)
(* workers, requests and faults of every kind.                             *)
(***************************************************************************)

\* Only sent continuations are queued, read or held by a worker.
SentJobs ==
    /\ \A j \in Jobs : handoff[j] # "none" => j[2] <= gen[j[1]]
    /\ \A j \in Jobs : queue[j] # "unsent" => handoff[j] # "none"
    /\ \A w \in Workers : pc[w] # "idle" => handoff[job[w]] # "none"

\* A turn with a continuation has handed its goal over to a task, and so has one that failed
\* after it had submitted a video.
SentTurns ==
    \A t \in Turns :
        /\ gen[t] > 0 => watched[t] # Nobody /\ turn[t] \notin {"none", "running"}
        /\ turn[t] = "finalizing" => gen[t] > 0
        /\ acted[t] => turn[t] \notin {"none", "running"}
        /\ acted[t] /\ turn[t] = "failed" => gen[t] > 0

Acking == {"ackDone", "ackBuried"}

\* A worker about to acknowledge a queued delivery cannot meet a turn that waits for it: a turn
\* goes back to waiting only by a retry, which retires the delivery first.
AckSafe ==
    \A w \in Workers : pc[w] \in Acking /\ handoff[job[w]] = "queued"
        => turn[job[w][1]] \notin {"running", "waiting_task"}

\* A waiting turn without a delivery can be sent one.
RoomToWake ==
    \A t \in Turns : turn[t] = "waiting_task" => Delivering(t) \/ gen[t] < MaxGens

AgentInv ==
    /\ WellTyped
    /\ SentJobs
    /\ SentTurns
    /\ AckSafe
    /\ RoomToWake
    /\ NoLostWakeup
    /\ OneOpenTurn

-----------------------------------------------------------------------------
(* Two kinds of steps that send nothing. *)

\* Nothing has been sent at first, and no turn is open.
LEMMA InitAgent == Init => AgentInv
<1> SUFFICES ASSUME Init PROVE AgentInv
  OBVIOUS
<1>1. WellTyped
  BY InitTyped
<1>2. SentJobs /\ SentTurns /\ AckSafe
  BY DEF Init, SentJobs, SentTurns, AckSafe, Acking
<1>3. RoomToWake /\ NoLostWakeup /\ OneOpenTurn
  BY DEF Init, RoomToWake, NoLostWakeup, OneOpenTurn, Open
<1> QED
  BY <1>1, <1>2, <1>3 DEF AgentInv

\* A step that leaves turns and handoffs alone and makes no turn ready.
LEMMA QuietStep ==
    ASSUME AgentInv, WellTyped', UNCHANGED <<turn, watched, waits, acted, handoff, gen>>,
           \A j \in Jobs : queue'[j] # "unsent" => handoff[j] # "none",
           \A t \in Turns : Ready(t)' => Ready(t),
           \A w \in Workers : pc'[w] # "idle" => handoff[job'[w]] # "none",
           \A w \in Workers : pc'[w] \in Acking =>
               \/ pc[w] \in Acking /\ job'[w] = job[w]
               \/ turn[job'[w][1]] \notin {"running", "waiting_task"}
    PROVE  AgentInv'
<1> USE DEF AgentInv
<1>1. SentJobs' /\ SentTurns'
  BY DEF SentJobs, SentTurns
<1>2. AckSafe'
  BY DEF AckSafe
<1>3. RoomToWake' /\ NoLostWakeup' /\ OneOpenTurn'
  BY DEF RoomToWake, NoLostWakeup, OneOpenTurn, Delivering
<1> QED
  BY <1>1, <1>2, <1>3

\* A turn with a delivery, past or present, has enqueued a continuation.
LEMMA SentHasGen ==
    ASSUME WellTyped, SentJobs, NEW j \in Jobs, handoff[j] = "queued"
    PROVE  gen[j[1]] > 0
<1>1. j[1] \in Turns /\ j[2] \in 1..MaxGens
  BY JobParts
<1>2. j[2] <= gen[j[1]]
  BY Zenon DEF SentJobs
<1>3. gen[j[1]] \in Nat
  BY <1>1 DEF WellTyped, TypeOK
<1>4. MaxGens \in Nat
  BY AgentAssumption
<1> QED
  BY <1>1, <1>2, <1>3, <1>4

\* A step that moves one open turn on, neither back to running nor to waiting.
LEMMA TurnStep ==
    ASSUME AgentInv, WellTyped', NEW t \in Turns, NEW s \in {"completed", "cancelled", "finalizing", "failed"},
           turn[t] \in Open, turn' = [turn EXCEPT ![t] = s],
           UNCHANGED <<watched, waits, acted, handoff, gen, queue, task, out, job>>,
           s = "finalizing" => gen[t] > 0,
           s = "failed" /\ acted[t] => gen[t] > 0,
           \A w \in Workers : pc'[w] # "idle" => pc[w] # "idle",
           \A w \in Workers : pc'[w] \in Acking => pc[w] \in Acking
    PROVE  AgentInv'
<1> USE DEF AgentInv
<1>0. \A u \in Turns : turn'[u] = IF u = t THEN s ELSE turn[u]
  BY DEF WellTyped, TypeOK
<1>1. SentJobs'
  BY DEF SentJobs
<1>2. SentTurns'
  BY <1>0 DEF SentTurns
<1>3. AckSafe'
  <2> SUFFICES ASSUME NEW w \in Workers, pc'[w] \in Acking, handoff[job[w]] = "queued"
               PROVE  turn'[job[w][1]] \notin {"running", "waiting_task"}
    BY DEF AckSafe
  <2>1. job[w][1] \in Turns
    BY JobParts DEF WellTyped, WorkerJob, Acking
  <2> QED
    BY <1>0, <2>1 DEF AckSafe
<1>4. RoomToWake' /\ NoLostWakeup'
  BY <1>0 DEF RoomToWake, NoLostWakeup, Delivering, Ready
<1>5. OneOpenTurn'
  BY <1>0 DEF OneOpenTurn, Open
<1> QED
  BY <1>1, <1>2, <1>3, <1>4, <1>5

-----------------------------------------------------------------------------
(* What the continuation queue guarantees to those who enqueue. *)

\* Enqueueing touches no handoff but new ones, and gives every turn of S that had room a delivery.
LEMMA EnqueueEffect ==
    ASSUME TypeOK, SentJobs, NEW S \in SUBSET Turns, Enqueue(S)
    PROVE  /\ \A j \in Jobs : handoff'[j] = handoff[j]
                              \/ (handoff[j] = "none" /\ handoff'[j] = "queued" /\ j[1] \in S)
           /\ \A j \in Jobs : handoff'[j] # "none" => j[2] <= gen'[j[1]]
           /\ \A j \in Jobs : queue'[j] # "unsent" => handoff'[j] # "none"
           /\ \A t \in Turns : gen'[t] >= gen[t] /\ (t \notin S => gen'[t] = gen[t])
           /\ \A t \in Turns : Delivering(t) => Delivering(t)'
           /\ \A t \in Turns : ~Delivering(t)' => gen'[t] = gen[t]
           /\ \A t \in S : gen[t] < MaxGens \/ Delivering(t) => Delivering(t)'
<1> DEFINE T == {t \in S : ~Delivering(t) /\ gen[t] < MaxGens}
           N == {<<t, gen[t] + 1>> : t \in T}
<1>1. /\ queue'   = [j \in Jobs |-> IF j \in N THEN "visible" ELSE queue[j]]
      /\ handoff' = [j \in Jobs |-> IF j \in N THEN "queued" ELSE handoff[j]]
      /\ gen'     = [t \in Turns |-> IF t \in T THEN gen[t] + 1 ELSE gen[t]]
  BY DEF Enqueue, Send
<1>2. \A j \in Jobs : j[1] \in Turns /\ j[2] \in 1..MaxGens
  BY JobParts
<1>3. \A j \in Jobs : j \in N <=> j[1] \in T /\ j[2] = gen[j[1]] + 1
  <2> TAKE j \in Jobs
  <2>1. j = <<j[1], j[2]>>
    BY JobParts
  <2> QED
    BY <2>1
<1>4. \A t \in Turns : gen[t] \in 0..MaxGens
  BY DEF TypeOK
<1>5. \A t \in T : t \in Turns /\ t \in S /\ gen[t] < MaxGens
  OBVIOUS
<1>6. ASSUME NEW t \in T PROVE Delivering(t)'
  <2>1. gen[t] + 1 \in 1..MaxGens
    BY <1>4, <1>5, AgentAssumption
  <2>2. <<t, gen[t] + 1>> \in Jobs /\ <<t, gen[t] + 1>>[1] = t
    BY <1>5, <2>1, MakeJob
  <2>3. <<t, gen[t] + 1>> \in N
    OBVIOUS
  <2>4. handoff'[<<t, gen[t] + 1>>] = "queued"
    BY <1>1, <2>2, <2>3
  <2> QED
    BY <2>2, <2>4 DEF Delivering
<1>7. \A t \in S : t \in T \/ Delivering(t) \/ ~(gen[t] < MaxGens)
  OBVIOUS
<1> HIDE DEF T, N
<1>8. \A j \in Jobs : handoff'[j] = IF j \in N THEN "queued" ELSE handoff[j]
  BY <1>1
<1>9. \A t \in Turns : gen'[t] = IF t \in T THEN gen[t] + 1 ELSE gen[t]
  BY <1>1
<1>10. \A j \in Jobs : j \in N => handoff[j] = "none"
  BY <1>2, <1>3, <1>4 DEF SentJobs
<1>11. \A j \in Jobs : handoff'[j] = handoff[j] \/ (handoff[j] = "none" /\ handoff'[j] = "queued" /\ j[1] \in S)
  BY <1>3, <1>5, <1>8, <1>10
<1>12. \A j \in Jobs : handoff'[j] # "none" => j[2] <= gen'[j[1]]
  BY <1>2, <1>3, <1>4, <1>8, <1>9 DEF SentJobs
<1>13. \A j \in Jobs : queue'[j] # "unsent" => handoff'[j] # "none"
  BY <1>1, <1>8 DEF SentJobs
<1>14. \A t \in Turns : gen'[t] >= gen[t] /\ (t \notin S => gen'[t] = gen[t])
  BY <1>4, <1>5, <1>9
<1>15. \A t \in Turns : Delivering(t) => Delivering(t)'
  BY <1>8 DEF Delivering
<1>16. \A t \in Turns : ~Delivering(t)' => gen'[t] = gen[t]
  BY <1>6, <1>9
<1>17. \A t \in S : gen[t] < MaxGens \/ Delivering(t) => Delivering(t)'
  BY <1>6, <1>7, <1>15
<1> QED
  BY <1>11, <1>12, <1>13, <1>14, <1>15, <1>16, <1>17

-----------------------------------------------------------------------------
(* The steps that send continuations, or put a turn back to work. *)

\* A terminal write wakes every turn it makes ready.
LEMMA WakeStep ==
    ASSUME AgentInv, WellTyped', NEW k \in Tasks, Wake(k, task', out'),
           \A i \in Tasks : i # k => task'[i] = task[i] /\ out'[i] = out[i],
           UNCHANGED <<turn, watched, waits, acted, pc, job>>
    PROVE  AgentInv'
<1> USE DEF AgentInv
<1> DEFINE S == {t \in Turns : turn[t] = "waiting_task" /\ watched[t] = k /\ ReadyOn(k, waits[t], task', out')}
<1>1. S \in SUBSET Turns /\ Enqueue(S)
  BY DEF Wake
<1>2. \A t \in S : turn[t] = "waiting_task"
  OBVIOUS
<1>3. \A t \in Turns : turn[t] = "waiting_task" /\ Ready(t)' => t \in S \/ Ready(t)
  BY DEF Ready, ReadyOn, WellTyped, TypeOK
<1> HIDE DEF S
<1>4. /\ \A j \in Jobs : handoff'[j] = handoff[j]
                         \/ (handoff[j] = "none" /\ handoff'[j] = "queued" /\ j[1] \in S)
      /\ \A j \in Jobs : handoff'[j] # "none" => j[2] <= gen'[j[1]]
      /\ \A j \in Jobs : queue'[j] # "unsent" => handoff'[j] # "none"
      /\ \A t \in Turns : gen'[t] >= gen[t] /\ (t \notin S => gen'[t] = gen[t])
      /\ \A t \in Turns : Delivering(t) => Delivering(t)'
      /\ \A t \in Turns : ~Delivering(t)' => gen'[t] = gen[t]
      /\ \A t \in S : gen[t] < MaxGens \/ Delivering(t) => Delivering(t)'
  BY <1>1, EnqueueEffect DEF WellTyped
<1>5. \A w \in Workers : pc[w] # "idle" => job[w] \in Jobs
  BY DEF WellTyped, WorkerJob
<1>6. SentJobs'
  BY <1>4, <1>5 DEF SentJobs
<1>7. \A t \in Turns : gen[t] \in Nat /\ gen'[t] \in Nat
  BY AgentAssumption DEF WellTyped, TypeOK
<1>8. SentTurns'
  <2> SUFFICES ASSUME NEW t \in Turns
               PROVE  /\ gen'[t] > 0 => watched[t] # Nobody /\ turn[t] \notin {"none", "running"}
                      /\ turn[t] = "finalizing" => gen'[t] > 0
                      /\ acted[t] => turn[t] \notin {"none", "running"}
                      /\ acted[t] /\ turn[t] = "failed" => gen'[t] > 0
    BY DEF SentTurns
  <2>1. t \in S => watched[t] # Nobody
    BY DEF S, ReadyOn
  <2> QED
    BY <1>2, <1>4, <1>7, <2>1 DEF SentTurns
<1>9. AckSafe'
  BY <1>4, <1>5 DEF AckSafe, SentJobs, Acking
<1>10. RoomToWake'
  BY <1>4 DEF RoomToWake
<1>11. NoLostWakeup'
  BY <1>3, <1>4 DEF NoLostWakeup, RoomToWake
<1>12. OneOpenTurn'
  BY DEF OneOpenTurn
<1> QED
  BY <1>6, <1>8, <1>9, <1>10, <1>11, <1>12

\* A subscription by a running or waiting turn, in the transaction that may also put the summary
\* of its task back to work.
LEMMA RegisterStep ==
    ASSUME AgentInv, WellTyped', NEW t \in Turns, NEW k \in Tasks, Register(t, k, out'),
           turn[t] \in {"running", "waiting_task"},
           UNCHANGED <<task, pc, job>>,
           \A u \in Turns : ReadyOn(watched[u], waits[u], task, out') => Ready(u),
           acted' = acted \/ acted' = [acted EXCEPT ![t] = TRUE]
    PROVE  AgentInv'
<1> USE DEF AgentInv
<1> DEFINE S == ReadyAtOnce(t, k, out')
<1>0. S \in SUBSET {t}
  BY DEF ReadyAtOnce
<1>1. S \in SUBSET Turns /\ Enqueue(S)
  BY <1>0 DEF Register
<1>2. \A u \in Turns : /\ turn'[u] = (IF u = t THEN "waiting_task" ELSE turn[u])
                       /\ watched'[u] = (IF u = t THEN k ELSE watched[u])
  BY DEF Register, WellTyped, TypeOK
<1>3. /\ waits'[t] = (out'[k] # "none")
      /\ \A u \in Turns \ {t} : waits'[u] = waits[u] /\ acted'[u] = acted[u]
  BY DEF Register, WellTyped, TypeOK
<1>4. Ready(t)' => t \in S
  BY <1>2, <1>3 DEF Ready, ReadyAtOnce, ReadyOn
<1>5. \A u \in Turns \ {t} : Ready(u)' => Ready(u)
  BY <1>2, <1>3 DEF Ready, ReadyOn
<1> HIDE DEF S
<1>6. /\ \A j \in Jobs : handoff'[j] = handoff[j]
                         \/ (handoff[j] = "none" /\ handoff'[j] = "queued" /\ j[1] \in S)
      /\ \A j \in Jobs : handoff'[j] # "none" => j[2] <= gen'[j[1]]
      /\ \A j \in Jobs : queue'[j] # "unsent" => handoff'[j] # "none"
      /\ \A u \in Turns : gen'[u] >= gen[u] /\ (u \notin S => gen'[u] = gen[u])
      /\ \A u \in Turns : Delivering(u) => Delivering(u)'
      /\ \A u \in Turns : ~Delivering(u)' => gen'[u] = gen[u]
      /\ \A u \in S : gen[u] < MaxGens \/ Delivering(u) => Delivering(u)'
  BY <1>1, EnqueueEffect DEF WellTyped
<1>7. \A w \in Workers : pc[w] # "idle" => job[w] \in Jobs /\ job[w][1] \in Turns
  BY JobParts DEF WellTyped, WorkerJob
<1>8. SentJobs'
  BY <1>6, <1>7 DEF SentJobs
<1>9. \A u \in Turns : gen[u] \in 0..MaxGens /\ gen'[u] \in 0..MaxGens
  BY DEF WellTyped, TypeOK
<1>10. SentTurns'
  <2> SUFFICES ASSUME NEW u \in Turns
               PROVE  /\ gen'[u] > 0 => watched'[u] # Nobody /\ turn'[u] \notin {"none", "running"}
                      /\ turn'[u] = "finalizing" => gen'[u] > 0
                      /\ acted'[u] => turn'[u] \notin {"none", "running"}
                      /\ acted'[u] /\ turn'[u] = "failed" => gen'[u] > 0
    BY DEF SentTurns
  <2>1. CASE u = t
    BY <1>2, <2>1, AgentAssumption
  <2>2. CASE u # t
    <3>1. gen'[u] = gen[u] /\ turn'[u] = turn[u] /\ watched'[u] = watched[u] /\ acted'[u] = acted[u]
      BY <1>0, <1>2, <1>3, <1>6, <2>2
    <3> QED
      BY <3>1 DEF SentTurns
  <2> QED
    BY <2>1, <2>2
<1>12. AckSafe'
  <2> SUFFICES ASSUME NEW w \in Workers, pc[w] \in Acking, handoff'[job[w]] = "queued"
               PROVE  turn'[job[w][1]] \notin {"running", "waiting_task"}
    BY DEF AckSafe
  <2>1. job[w] \in Jobs /\ job[w][1] \in Turns /\ handoff[job[w]] # "none"
    BY <1>7 DEF Acking, SentJobs
  <2>2. handoff[job[w]] = "queued"
    BY <1>6, <2>1
  <2>3. turn[job[w][1]] \notin {"running", "waiting_task"}
    BY <2>2 DEF AckSafe
  <2> QED
    BY <1>2, <2>1, <2>3
<1>13. gen[t] < MaxGens \/ Delivering(t)
  BY <1>9, AgentAssumption DEF RoomToWake, SentTurns
<1>14. RoomToWake'
  BY <1>2, <1>6, <1>13 DEF RoomToWake
<1>15. NoLostWakeup'
  BY <1>2, <1>4, <1>5, <1>6, <1>13 DEF NoLostWakeup
<1>16. OneOpenTurn'
  BY <1>2 DEF OneOpenTurn, Open
<1> QED
  BY <1>8, <1>10, <1>12, <1>14, <1>15, <1>16

\* A message starts a turn, or lets one that has handed nothing over run again; the other turns
\* stay as they are or are cancelled.
LEMMA StartStep ==
    ASSUME AgentInv, WellTyped', NEW t \in Turns, gen[t] = 0, ~acted[t],
           \A u \in Turns : u # t => watched'[u] = watched[u]
                                     /\ (turn'[u] = turn[u] \/ turn'[u] = "cancelled"),
           turn'[t] = "running",
           \A u \in Turns : u # t /\ u[1] = t[1] => turn'[u] \notin Open,
           UNCHANGED <<waits, acted, task, out, queue, handoff, gen, pc, job>>
    PROVE  AgentInv'
<1> USE DEF AgentInv
<1>1. SentJobs'
  BY DEF SentJobs
<1>2. SentTurns'
  BY DEF SentTurns
<1>3. AckSafe'
  <2> SUFFICES ASSUME NEW w \in Workers, pc[w] \in Acking, handoff[job[w]] = "queued"
               PROVE  turn'[job[w][1]] \notin {"running", "waiting_task"}
    BY DEF AckSafe
  <2>1. job[w] \in Jobs /\ job[w][1] \in Turns /\ job[w][2] \in 1..MaxGens
    BY JobParts DEF Acking, WellTyped, WorkerJob
  <2>2. job[w][2] <= gen[job[w][1]]
    BY <2>1 DEF SentJobs
  <2>3. job[w][1] # t
    BY <2>1, <2>2
  <2> QED
    BY <2>1, <2>3 DEF AckSafe
<1>4. RoomToWake' /\ NoLostWakeup'
  BY DEF RoomToWake, NoLostWakeup, Ready, Delivering
<1>5. OneOpenTurn'
  BY DEF OneOpenTurn, Open
<1> QED
  BY <1>1, <1>2, <1>3, <1>4, <1>5

\* A user's retry of a failed continuation retires its delivery and, if the task is ready, sends another.
LEMMA RetryStep ==
    ASSUME AgentInv, WellTyped', NEW t \in Turns, AcceptRetry(t)
    PROVE  AgentInv'
<1> USE DEF AgentInv
<1> DEFINE n == IF Ready(t) THEN gen[t] + 1 ELSE 0
<1>0. turn[t] = "failed" /\ watched[t] # Nobody /\ gen[t] > 0 /\ gen[t] < MaxGens
  BY DEF AcceptRetry, Retriable, Sent
<1>1. /\ \A j \in Jobs : queue'[j] = IF j = <<t, n>> THEN "visible"
                            ELSE IF j[1] = t /\ handoff[j] = "queued" THEN "archived" ELSE queue[j]
      /\ \A j \in Jobs : handoff'[j] = IF j = <<t, n>> THEN "queued"
                            ELSE IF j[1] = t /\ handoff[j] = "queued" THEN "failed" ELSE handoff[j]
      /\ \A u \in Turns : gen'[u] = IF u = t /\ Ready(t) THEN gen[u] + 1 ELSE gen[u]
  BY DEF AcceptRetry, WellTyped, TypeOK
<1>2. \A u \in Turns : turn'[u] = IF u = t THEN "waiting_task" ELSE turn[u]
  BY DEF AcceptRetry, WellTyped, TypeOK
<1>3. UNCHANGED <<watched, waits, acted, task, out, pc, job>>
  BY DEF AcceptRetry, taskVars, workerVars
<1>4. \A u \in Turns : gen[u] \in 0..MaxGens
  BY DEF WellTyped, TypeOK
<1>5. n \in Nat /\ (n = 0 \/ n = gen[t] + 1) /\ n <= MaxGens
  BY <1>0, <1>4, AgentAssumption
<1>6. \A j \in Jobs : j[1] \in Turns /\ j[2] \in 1..MaxGens /\ (j = <<t, n>> <=> j[1] = t /\ j[2] = n)
  <2> TAKE j \in Jobs
  <2>1. j = <<j[1], j[2]>> /\ j[1] \in Turns /\ j[2] \in 1..MaxGens
    BY JobParts
  <2> QED
    BY <2>1
<1>7. Ready(t) => Delivering(t)' /\ n = gen[t] + 1
  <2> SUFFICES ASSUME Ready(t) PROVE Delivering(t)' /\ n = gen[t] + 1
    OBVIOUS
  <2>1. n = gen[t] + 1 /\ n \in 1..MaxGens
    BY <1>0, <1>4, AgentAssumption
  <2> HIDE DEF n
  <2>2. <<t, n>> \in Jobs /\ <<t, n>>[1] = t
    BY <2>1, MakeJob
  <2> QED
    BY <1>1, <2>1, <2>2 DEF Delivering
<1>8. ~Ready(t) => n = 0
  OBVIOUS
<1> HIDE DEF n
<1>9. \A j \in Jobs : handoff[j] # "none" => j # <<t, n>>
  BY <1>4, <1>5, <1>6 DEF SentJobs
<1>10. \A w \in Workers : pc[w] # "idle" => job[w] \in Jobs /\ job[w][1] \in Turns /\ handoff[job[w]] # "none"
  BY JobParts DEF WellTyped, WorkerJob, SentJobs
<1>11. SentJobs'
  <2>1. \A j \in Jobs : handoff'[j] # "none" => j[2] <= gen'[j[1]]
    BY <1>1, <1>4, <1>5, <1>6, <1>7, <1>8 DEF SentJobs
  <2>2. \A j \in Jobs : queue'[j] # "unsent" => handoff'[j] # "none"
    BY <1>1 DEF SentJobs
  <2>3. \A w \in Workers : pc'[w] # "idle" => handoff'[job'[w]] # "none"
    BY <1>1, <1>3, <1>10
  <2> QED
    BY <2>1, <2>2, <2>3 DEF SentJobs
<1>12. SentTurns'
  BY <1>0, <1>1, <1>2, <1>3, <1>4 DEF SentTurns
<1>13. AckSafe'
  <2> SUFFICES ASSUME NEW w \in Workers, pc[w] \in Acking, handoff'[job[w]] = "queued"
               PROVE  turn'[job[w][1]] \notin {"running", "waiting_task"}
    BY <1>3 DEF AckSafe
  <2>1. job[w] \in Jobs /\ job[w][1] \in Turns /\ job[w] # <<t, n>>
    BY <1>9, <1>10 DEF Acking
  <2>2. job[w][1] # t /\ handoff[job[w]] = "queued"
    BY <1>1, <2>1
  <2> QED
    BY <1>2, <2>1, <2>2 DEF AckSafe
<1>14. \A u \in Turns \ {t} : Delivering(u) => Delivering(u)'
  BY <1>1, <1>6 DEF Delivering
<1>15. RoomToWake'
  BY <1>0, <1>1, <1>2, <1>7, <1>14 DEF RoomToWake
<1>16. NoLostWakeup'
  BY <1>2, <1>3, <1>7, <1>14 DEF NoLostWakeup, Ready
<1>17. OneOpenTurn'
  BY <1>0, <1>2 DEF OneOpenTurn, Open
<1> QED
  BY <1>11, <1>12, <1>13, <1>15, <1>16, <1>17

\* An acknowledgement closes a delivery that no turn waits for.
LEMMA AckStep ==
    ASSUME AgentInv, WellTyped', NEW w \in Workers, Ack(w)
    PROVE  AgentInv'
<1> USE DEF AgentInv
<1> DEFINE j == job[w]
<1>0. pc[w] \in Acking /\ j \in Jobs /\ j[1] \in Turns /\ handoff[j] # "none"
  BY JobParts DEF Ack, Acking, WellTyped, WorkerJob, SentJobs
<1>1. UNCHANGED <<turn, watched, waits, acted, task, out, gen>>
  BY DEF Ack, turnVars, taskVars
<1>2. \A i \in Jobs : /\ handoff'[i] = handoff[i] \/ (i = j /\ handoff'[i] \in {"completed", "failed"})
                      /\ queue'[i] = queue[i] \/ i = j
  BY DEF Ack, WellTyped, TypeOK
<1>3. \A v \in Workers : /\ pc'[v] = (IF v = w THEN "idle" ELSE pc[v])
                         /\ v # w => job'[v] = job[v]
  BY DEF Ack, Release, WellTyped, TypeOK
<1>4. \A v \in Workers : pc[v] # "idle" => job[v] \in Jobs
  BY DEF WellTyped, WorkerJob
<1>5. SentJobs'
  <2>1. \A i \in Jobs : handoff'[i] # "none" => i[2] <= gen'[i[1]]
    BY <1>0, <1>1, <1>2 DEF SentJobs
  <2>2. \A i \in Jobs : queue'[i] # "unsent" => handoff'[i] # "none"
    BY <1>0, <1>2 DEF SentJobs
  <2>3. \A v \in Workers : pc'[v] # "idle" => handoff'[job'[v]] # "none"
    BY <1>2, <1>3, <1>4 DEF SentJobs
  <2> QED
    BY <2>1, <2>2, <2>3 DEF SentJobs
<1>6. SentTurns' /\ OneOpenTurn'
  BY <1>1 DEF SentTurns, OneOpenTurn
<1>7. AckSafe'
  BY <1>1, <1>2, <1>3, <1>4 DEF AckSafe, Acking
<1>8. \A t \in Turns : turn[t] = "waiting_task" /\ Delivering(t) => Delivering(t)'
  BY <1>0, <1>2 DEF Delivering, AckSafe
<1>9. RoomToWake' /\ NoLostWakeup'
  BY <1>1, <1>8 DEF RoomToWake, NoLostWakeup, Ready
<1> QED
  BY <1>5, <1>6, <1>7, <1>9

-----------------------------------------------------------------------------
(* Every action is one of these steps. *)

\* What users ask for.
LEMMA UserAgent ==
    ASSUME AgentInv, WellTyped', User
    PROVE  AgentInv'
<1> USE DEF AgentInv
<1>1. ASSUME NEW r \in Requests, NEW t \in Turns, NEW k \in Tasks \cup {Nobody}, AcceptNew(r, t, k)
      PROVE  AgentInv'
  <2>1. turn[t] = "none" /\ UNCHANGED <<waits, acted, task, out, queue, handoff, gen, pc, job>>
    BY <1>1 DEF AcceptNew, Begin, taskVars, queueVars, workerVars
  <2>2. gen[t] = 0 /\ ~acted[t]
    BY <2>1, AgentAssumption DEF SentTurns, WellTyped, TypeOK
  <2>3. turn'[t] = "running" /\ \A u \in Turns : u # t => turn'[u] = turn[u] \/ turn'[u] = "cancelled"
    BY <1>1 DEF AcceptNew
  <2>4. \A u \in Turns : u # t => watched'[u] = watched[u]
    BY <1>1 DEF AcceptNew
  <2>5. \A u \in Turns : u # t /\ u[1] = t[1] => turn'[u] \notin Open
    BY <1>1 DEF AcceptNew, Superseded, Open
  <2> QED
    BY <2>1, <2>2, <2>3, <2>4, <2>5, StartStep
<1>2. ASSUME NEW r \in Requests, NEW t \in Turns, AcceptRerun(r, t) PROVE AgentInv'
  <2>1. UNCHANGED <<watched, waits, acted, task, out, queue, handoff, gen, pc, job>>
    BY <1>2 DEF AcceptRerun, Begin, taskVars, queueVars, workerVars
  <2>2. gen[t] = 0
    BY <1>2, AgentAssumption DEF AcceptRerun, Retriable, Sent, SentTurns, WellTyped, TypeOK
  <2>3. ~acted[t]
    BY <1>2, <2>2 DEF AcceptRerun, SentTurns
  <2>4. \A u \in Turns : turn'[u] = IF u = t THEN "running" ELSE turn[u]
    BY <1>2 DEF AcceptRerun, WellTyped, TypeOK
  <2>5. turn[t] \in Open
    BY <1>2 DEF AcceptRerun, Open
  <2>6. \A u \in Turns : u # t /\ u[1] = t[1] => turn'[u] \notin Open
    BY <2>4, <2>5 DEF OneOpenTurn
  <2> QED
    BY <2>1, <2>2, <2>3, <2>4, <2>6, StartStep
<1>3. ASSUME NEW t \in Turns, AcceptRetry(t) PROVE AgentInv'
  BY <1>3, RetryStep
<1>4. ASSUME NEW t \in Turns, Cancel(t) PROVE AgentInv'
  <2>1. /\ turn[t] \in Open /\ turn' = [turn EXCEPT ![t] = "cancelled"]
        /\ UNCHANGED <<watched, waits, acted, handoff, gen, queue, task, out, job, pc>>
    BY <1>4 DEF Cancel, taskVars, queueVars, workerVars
  <2> QED
    BY <2>1, TurnStep
<1>5. ASSUME NEW k \in Tasks, Redo(k) PROVE AgentInv'
  <2>1. UNCHANGED <<turn, watched, waits, acted, handoff, gen, queue, job, pc>>
    BY <1>5 DEF Redo, turnVars, queueVars, workerVars
  <2>2. \A i \in Tasks : /\ task'[i] = task[i] \/ task'[i] = "pending"
                         /\ out'[i] = out[i] \/ out'[i] = "pending"
    BY <1>5 DEF Redo, WellTyped, TypeOK
  <2>3. \A t \in Turns : watched[t] \in Tasks \cup {Nobody}
    BY DEF WellTyped, TypeOK
  <2>4. \A t \in Turns : Ready(t)' => Ready(t)
    BY <2>1, <2>2, <2>3 DEF Ready, ReadyOn
  <2> QED
    BY <2>1, <2>4, QuietStep DEF SentJobs
<1> QED
  BY <1>1, <1>2, <1>3, <1>4, <1>5 DEF User

\* What the pipeline writes.
LEMMA TaskAgent ==
    ASSUME AgentInv, WellTyped', NEW k \in Tasks, TaskWork(k)
    PROVE  AgentInv'
<1> USE DEF AgentInv
<1>1. PICK s \in {"completed", "error"} : TaskEnds(k, s) \/ OutputEnds(k, s)
  BY DEF TaskWork
<1>2. /\ Wake(k, task', out') /\ UNCHANGED <<turn, watched, waits, acted, pc, job>>
      /\ \A i \in Tasks : i # k => task'[i] = task[i] /\ out'[i] = out[i]
  <2>1. CASE TaskEnds(k, s)
    <3>1. out' = out
      BY <2>1 DEF TaskEnds
    <3> QED
      BY <2>1, <3>1 DEF TaskEnds, turnVars, workerVars
  <2>2. CASE OutputEnds(k, s)
    <3>1. task' = task
      BY <2>2 DEF OutputEnds
    <3> QED
      BY <2>2, <3>1 DEF OutputEnds, turnVars, workerVars
  <2> QED
    BY <1>1, <2>1, <2>2
<1> QED
  BY <1>2, WakeStep

\* The end of a request neither acknowledges anything nor hands out a message.
LEMMA AnswerFrame ==
    ASSUME WellTyped, NEW r \in Requests, NEW p \in {"confirm", "failed", "defer"}, Answer(r, p)
    PROVE  /\ job' = job
           /\ \A w \in Workers : pc'[w] # "idle" => pc[w] # "idle"
           /\ \A w \in Workers : pc'[w] \in Acking => pc[w] \in Acking
<1>1. \A w \in Workers : pc'[w] = IF post[w] = r THEN p ELSE pc[w]
  BY DEF Answer
<1>2. \A w \in Workers : post[w] = r => pc[w] = "posted"
  BY AgentAssumption DEF WellTyped, WorkerJob
<1> QED
  BY <1>1, <1>2 DEF Answer, Acking

\* The tools, the end of a run and the continuation requests.
LEMMA RequestAgent ==
    ASSUME AgentInv, WellTyped', NEW r \in Requests, Tool(r) \/ EndRun(r) \/ RequestDies(r)
    PROVE  AgentInv'
<1> USE DEF AgentInv
<1> DEFINE t == goal[r]
<1>0. run[r] # "idle" => t \in Turns
  BY DEF WellTyped, RequestGoal
<1>1. ASSUME NEW k \in Tasks, Watch(r, k) PROVE AgentInv'
  <2>1. t \in Turns /\ turn[t] \in {"running", "waiting_task"}
    BY <1>0, <1>1 DEF Watch, MayAct
  <2>2. UNCHANGED <<task, out, pc, job, acted>>
    BY <1>1 DEF Watch, taskVars, workerVars
  <2>3. Register(t, k, out')
    BY <1>1, <2>2 DEF Watch
  <2>4. \A u \in Turns : ReadyOn(watched[u], waits[u], task, out') => Ready(u)
    BY <2>2 DEF Ready
  <2> HIDE DEF t
  <2> QED
    BY <2>1, <2>2, <2>3, <2>4, RegisterStep
<1>2. ASSUME NEW k \in Tasks, Submit(r, k) PROVE AgentInv'
  <2>1. t \in Turns /\ turn[t] \in {"running", "waiting_task"}
    BY <1>0, <1>2 DEF Submit, MayAct
  <2>2. UNCHANGED <<task, pc, job>> /\ acted' = [acted EXCEPT ![t] = TRUE] /\ Register(t, k, out')
    BY <1>2 DEF Submit, workerVars
  <2>3. \A i \in Tasks : out'[i] = out[i] \/ out'[i] = "pending"
    BY <1>2 DEF Submit, WellTyped, TypeOK
  <2>4. \A u \in Turns : watched[u] \in Tasks \cup {Nobody}
    BY DEF WellTyped, TypeOK
  <2>5. \A u \in Turns : ReadyOn(watched[u], waits[u], task, out') => Ready(u)
    BY <2>3, <2>4 DEF Ready, ReadyOn
  <2> HIDE DEF t
  <2> QED
    BY <2>1, <2>2, <2>5, RegisterStep
<1>3. CASE Claim(r)
  <2>1. /\ t \in Turns /\ turn[t] \in Open /\ turn' = [turn EXCEPT ![t] = "finalizing"]
        /\ delivery[r] \in Jobs /\ delivery[r][1] = t /\ handoff[delivery[r]] = "queued"
    BY <1>0, <1>3 DEF Claim, Open, ValidDelivery, WellTyped, RequestGoal
  <2>2. UNCHANGED <<watched, waits, acted, handoff, gen, queue, task, out, job, pc>>
    BY <1>3 DEF Claim, taskVars, queueVars, workerVars
  <2>3. gen[t] > 0
    BY <2>1, SentHasGen
  <2> HIDE DEF t
  <2> QED
    BY <2>1, <2>2, <2>3, TurnStep
<1>4. ASSUME NEW p \in {"confirm", "failed", "defer"}, Answer(r, p),
             UNCHANGED <<turn, watched, waits, acted, handoff, gen, queue, task, out>>
      PROVE  AgentInv'
  <2>1. \A u \in Turns : Ready(u)' => Ready(u)
    BY <1>4 DEF Ready
  <2>2. /\ job' = job
        /\ \A w \in Workers : pc'[w] # "idle" => pc[w] # "idle"
        /\ \A w \in Workers : pc'[w] \in Acking => pc[w] \in Acking
    BY <1>4, AnswerFrame
  <2> QED
    BY <1>4, <2>1, <2>2, QuietStep DEF SentJobs
<1>5. CASE ClaimSkipped(r) \/ ClaimRefused(r)
  BY <1>4, <1>5 DEF ClaimSkipped, ClaimRefused, turnVars, taskVars, queueVars
<1>6. CASE RequestDies(r)
  BY <1>4, <1>6 DEF RequestDies, taskVars, queueVars
<1>7. CASE Finish(r)
  <2>1. t \in Turns /\ UNCHANGED <<watched, waits, acted, handoff, gen, queue, task, out>>
    BY <1>0, <1>7 DEF Finish, taskVars, queueVars
  <2>2. PICK p \in {"confirm", "failed", "defer"} : Answer(r, p)
    BY <1>7 DEF Finish
  <2>3. CASE turn' = turn
    BY <1>4, <2>1, <2>2, <2>3
  <2>4. CASE turn' # turn
    <3>1. turn[t] \in Open /\ turn' = [turn EXCEPT ![t] = "completed"]
      <4>1. MaySave(r) /\ turn' = [turn EXCEPT ![t] = IF @ = "waiting_task" THEN @ ELSE "completed"]
        BY <1>7, <2>4 DEF Finish
      <4>2. turn[t] \in Open
        BY <4>1 DEF MaySave, Open
      <4> HIDE DEF t
      <4>3. turn[t] # "waiting_task"
        BY <2>1, <2>4, <4>1 DEF WellTyped, TypeOK
      <4> QED
        BY <4>1, <4>2, <4>3
    <3>2. /\ job' = job
          /\ \A w \in Workers : pc'[w] # "idle" => pc[w] # "idle"
          /\ \A w \in Workers : pc'[w] \in Acking => pc[w] \in Acking
      BY <2>2, AnswerFrame
    <3> HIDE DEF t
    <3> QED
      BY <2>1, <3>1, <3>2, TurnStep
  <2> QED
    BY <2>3, <2>4
<1>8. CASE FinishError(r)
  <2>1. t \in Turns /\ Answer(r, "failed") /\ UNCHANGED <<watched, waits, acted, handoff, gen, queue, task, out>>
    BY <1>0, <1>8 DEF FinishError, taskVars, queueVars
  <2>2. CASE turn' = turn
    BY <1>4, <2>1, <2>2
  <2>3. CASE turn' # turn
    <3>1. turn[t] \in {"running", "finalizing"} /\ turn' = [turn EXCEPT ![t] = "failed"]
      BY <1>8, <2>3 DEF FinishError, FailTurn, MaySave
    <3>2. acted[t] => gen[t] > 0
      BY <2>1, <3>1 DEF SentTurns
    <3>3. /\ job' = job
          /\ \A w \in Workers : pc'[w] # "idle" => pc[w] # "idle"
          /\ \A w \in Workers : pc'[w] \in Acking => pc[w] \in Acking
      BY <2>1, AnswerFrame
    <3>4. turn[t] \in Open
      BY <3>1 DEF Open
    <3> HIDE DEF t
    <3> QED
      BY <2>1, <3>1, <3>2, <3>3, <3>4, TurnStep
  <2> QED
    BY <2>2, <2>3
<1> QED
  BY <1>1, <1>2, <1>3, <1>5, <1>6, <1>7, <1>8 DEF Tool, EndRun

\* The workers, the queue and their faults.
LEMMA WorkerAgent ==
    ASSUME AgentInv, WellTyped', NEW w \in Workers, WorkerStep(w) \/ Heartbeat(w) \/ Raise(w) \/ Crash(w)
    PROVE  AgentInv'
<1> USE DEF AgentInv
<1> DEFINE j == job[w]
<1>0. pc[w] # "idle" => j \in Jobs /\ j[1] \in Turns /\ handoff[j] # "none"
  BY JobParts DEF WellTyped, WorkerJob, SentJobs
\* A worker that goes on with its message, whatever happens to the message's visibility.
<1>1. ASSUME UNCHANGED <<turn, watched, waits, acted, handoff, gen, task, out, job>>, pc[w] # "idle",
             \A i \in Jobs : queue'[i] = queue[i] \/ i = j,
             \E p : /\ pc' = [pc EXCEPT ![w] = p]
                    /\ p \in Acking => turn[j[1]] \notin {"running", "waiting_task"}
      PROVE  AgentInv'
  <2>1. \A u \in Turns : Ready(u)' => Ready(u)
    BY <1>1 DEF Ready
  <2>2. \A v \in Workers : pc'[v] # "idle" => pc[v] # "idle"
    BY <1>1 DEF WellTyped, TypeOK
  <2>3. \A v \in Workers : pc'[v] \in Acking => \/ pc[v] \in Acking /\ job'[v] = job[v]
                                                \/ turn[job'[v][1]] \notin {"running", "waiting_task"}
    BY <1>1 DEF WellTyped, TypeOK
  <2> QED
    BY <1>0, <1>1, <2>1, <2>2, <2>3, QuietStep DEF SentJobs
\* A worker that lets go of its message.
<1>2. ASSUME UNCHANGED <<turn, watched, waits, acted, handoff, gen, task, out>>, pc[w] # "idle",
             \A i \in Jobs : queue'[i] = queue[i] \/ i = j, Release(w)
      PROVE  AgentInv'
  <2>1. \A u \in Turns : Ready(u)' => Ready(u)
    BY <1>2 DEF Ready
  <2>2. \A v \in Workers : pc'[v] # "idle" => pc'[v] = pc[v] /\ job'[v] = job[v]
    BY <1>2 DEF Release, WellTyped, TypeOK
  <2> QED
    BY <1>0, <1>2, <2>1, <2>2, QuietStep DEF SentJobs, Acking
<1>3. ASSUME NEW i \in Jobs, Read(w, i) PROVE AgentInv'
  <2>1. /\ UNCHANGED <<turn, watched, waits, acted, handoff, gen, task, out>>
        /\ queue[i] = "visible" /\ handoff[i] # "none"
    BY <1>3 DEF Read, turnVars, taskVars, SentJobs
  <2>2. \A v \in Workers : /\ pc'[v] = (IF v = w THEN "validate" ELSE pc[v])
                           /\ job'[v] = (IF v = w THEN i ELSE job[v])
    BY <1>3 DEF Read, Goto, WellTyped, TypeOK
  <2>3. \A n \in Jobs : queue'[n] = queue[n] \/ n = i
    BY <1>3 DEF Read, WellTyped, TypeOK
  <2>4. \A u \in Turns : Ready(u)' => Ready(u)
    BY <2>1 DEF Ready
  <2> QED
    BY <2>1, <2>2, <2>3, <2>4, QuietStep DEF SentJobs, Acking
<1>4. CASE Validate(w) \/ Dispatch(w) \/ Confirm(w) \/ HandleFailure(w)
  <2>1. /\ \E p \in {"dispatch", "done", "defer", "reject", "failed"} : Goto(w, p)
        /\ UNCHANGED <<turnVars, taskVars, queueVars, job>> /\ pc[w] # "idle"
    BY <1>4 DEF Validate, Dispatch, Confirm, HandleFailure
  <2> QED
    BY <1>1, <2>1 DEF Goto, Acking, turnVars, taskVars, queueVars
<1>5. ASSUME NEW r \in Requests, Post(w, r) PROVE AgentInv'
  <2>1. (\E p \in {"posted"} : Goto(w, p)) /\ UNCHANGED <<turnVars, taskVars, queueVars, job>> /\ pc[w] # "idle"
    BY <1>5 DEF Post
  <2> QED
    BY <1>1, <2>1 DEF Goto, Acking, turnVars, taskVars, queueVars
<1>6. CASE Raise(w)
  <2>1. (\E p \in {"failed"} : Goto(w, p)) /\ UNCHANGED <<turnVars, taskVars, queueVars, job>> /\ pc[w] # "idle"
    BY <1>6 DEF Raise
  <2> QED
    BY <1>1, <2>1 DEF Goto, Acking, turnVars, taskVars, queueVars
<1>7. CASE Heartbeat(w)
  <2>1. /\ UNCHANGED <<turnVars, taskVars, handoff, gen, workerVars>> /\ pc[w] # "idle"
        /\ pc[w] \notin Acking
    BY <1>7 DEF Heartbeat, Acking
  <2>2. \A i \in Jobs : queue'[i] = queue[i] \/ i = j
    BY <1>7 DEF Heartbeat, WellTyped, TypeOK
  <2>3. pc' = [pc EXCEPT ![w] = pc[w]]
    BY <2>1 DEF workerVars, WellTyped, TypeOK
  <2> QED
    BY <1>1, <2>1, <2>2, <2>3 DEF turnVars, taskVars, workerVars
<1>8. CASE ArchiveInvalid(w) \/ Defer(w) \/ HeartbeatLost(w) \/ Crash(w)
  <2>1. Release(w) /\ pc[w] # "idle" /\ UNCHANGED <<turnVars, taskVars, handoff, gen>>
    BY <1>8 DEF ArchiveInvalid, Defer, HeartbeatLost, Crash, queueVars
  <2>2. \A i \in Jobs : queue'[i] = queue[i] \/ i = j
    BY <1>8 DEF ArchiveInvalid, Defer, HeartbeatLost, Crash, queueVars, WellTyped, TypeOK
  <2> QED
    BY <1>2, <2>1, <2>2 DEF turnVars, taskVars
<1>9. CASE AckCheck(w)
  <2>1. pc[w] # "idle" /\ UNCHANGED <<turnVars, taskVars, queueVars>>
    BY <1>9 DEF AckCheck
  <2>2. CASE Release(w)
    BY <1>2, <2>1, <2>2 DEF turnVars, taskVars, queueVars
  <2>3. CASE ~Release(w)
    <3>1. /\ MayAck(j) /\ job' = job
          /\ \E p \in Acking : Goto(w, p)
      BY <1>9, <2>3 DEF AckCheck, Acking
    <3>2. turn[j[1]] \notin {"running", "waiting_task"}
      BY <3>1 DEF MayAck
    <3> QED
      BY <1>1, <2>1, <3>1, <3>2 DEF Goto, turnVars, taskVars, queueVars
  <2> QED
    BY <2>2, <2>3
<1>10. CASE Ack(w)
  BY <1>10, AckStep
<1>11. CASE FailContinuation(w)
  <2>1. /\ UNCHANGED <<watched, waits, acted, handoff, gen, queue, task, out, job>>
        /\ pc[w] # "idle" /\ \E p \in {"buried"} : Goto(w, p)
    BY <1>11 DEF FailContinuation, taskVars, queueVars
  <2>2. CASE turn' = turn
    BY <1>1, <2>1, <2>2 DEF Goto, Acking
  <2>3. CASE turn' # turn
    <3>1. MayFail(j) /\ turn' = [turn EXCEPT ![j[1]] = "failed"]
      BY <1>11, <2>3 DEF FailContinuation, FailTurn
    <3>2. j \in Jobs /\ j[1] \in Turns /\ j[2] \in 1..MaxGens /\ handoff[j] = "queued"
      BY <1>0, <2>1, <3>1, JobParts DEF MayFail
    <3>3. gen[j[1]] > 0
      BY <3>2, SentHasGen
    <3>4. turn[j[1]] \in Open
      <4>1. turn[j[1]] \notin {"none", "completed", "cancelled"}
        BY <3>1, <3>2, <3>3 DEF MayFail, SentTurns
      <4>2. turn[j[1]] \in Open \cup {"none", "completed", "cancelled"}
        BY <3>2 DEF WellTyped, TypeOK
      <4> QED
        BY <4>1, <4>2
    <3>5. \A v \in Workers : /\ pc'[v] # "idle" => pc[v] # "idle"
                             /\ pc'[v] \in Acking => pc[v] \in Acking
      BY <2>1 DEF Goto, Acking, WellTyped, TypeOK
    <3> HIDE DEF j
    <3> QED
      BY <2>1, <3>1, <3>2, <3>3, <3>4, <3>5, TurnStep
  <2> QED
    BY <2>2, <2>3
<1> QED
  BY <1>3, <1>4, <1>5, <1>6, <1>7, <1>8, <1>9, <1>10, <1>11 DEF WorkerStep

\* Leases and visibility timeouts that pass.
LEMMA TimeAgent ==
    ASSUME AgentInv, WellTyped',
           \/ \E t \in Turns : LeaseLapses(t)
           \/ \E j \in Jobs : Expire(j) \/ Stall(j)
    PROVE  AgentInv'
<1> USE DEF AgentInv
<1>1. UNCHANGED <<turn, watched, waits, acted, handoff, gen, task, out, pc, job>>
  BY DEF LeaseLapses, Expire, Stall, turnVars, taskVars, queueVars, workerVars
<1>2. \A j \in Jobs : queue'[j] # "unsent" => queue[j] # "unsent"
  BY DEF LeaseLapses, Expire, Stall, queueVars, WellTyped, TypeOK
<1>3. \A u \in Turns : Ready(u)' => Ready(u)
  BY <1>1 DEF Ready
<1> QED
  BY <1>1, <1>2, <1>3, QuietStep DEF SentJobs

\* The invariant is inductive.
LEMMA AgentInductive == AgentInv /\ [Next]_vars => AgentInv'
<1> SUFFICES ASSUME AgentInv, [Next]_vars PROVE AgentInv'
  OBVIOUS
<1>0. WellTyped'
  BY NextTyped DEF AgentInv
<1>1. CASE UNCHANGED vars
  <2>1. \A u \in Turns : Ready(u)' => Ready(u)
    BY <1>1 DEF vars, turnVars, taskVars, Ready
  <2> QED
    BY <1>0, <1>1, <2>1, QuietStep
       DEF vars, turnVars, taskVars, queueVars, workerVars, AgentInv, SentJobs
<1>2. CASE Next
  BY <1>0, <1>2, UserAgent, RequestAgent, TaskAgent, WorkerAgent, TimeAgent DEF Next, Faulty
<1> QED
  BY <1>1, <1>2

-----------------------------------------------------------------------------
(* Theorems. *)

\* The invariant holds in every reachable state.
THEOREM AgentInvariant == Spec => []AgentInv
BY InitAgent, AgentInductive, PTL DEF Spec

\* However subscriptions, retries and terminal writes interleave, whatever process dies: a turn that
\* waits for a task that is already terminal has a continuation queued (watch_agent_task and
\* wake_agent_turns_on_terminal).
THEOREM WakeupsAreNotLost == Spec => []NoLostWakeup
<1>1. AgentInv => NoLostWakeup
  BY DEF AgentInv
<1> QED
  BY AgentInvariant, <1>1, PTL

\* A thread never has two turns that could still write an answer (accept_agent_turn's supersession).
THEOREM ThreadHasOneGoal == Spec => []OneOpenTurn
<1>1. AgentInv => OneOpenTurn
  BY DEF AgentInv
<1> QED
  BY AgentInvariant, <1>1, PTL

\* A message whose turn has submitted a video is never run again (accept_agent_turn's retry branch):
\* the agent's tools submit at most once for one message.
THEOREM OneSubmissionPerMessage == Spec => []SubmittedNeverReruns
<1>1. AgentInv => SubmittedNeverReruns
  BY DEF AgentInv, SentTurns, SubmittedNeverReruns
<1> QED
  BY AgentInvariant, <1>1, PTL

\* Every writer of a turn or of its messages looks at the turn it writes.
LEMMA EndedStep == AgentInv /\ [Next]_vars => [EndedStays]_<<turn, reply, answered>>
<1> SUFFICES ASSUME AgentInv, Next, <<turn, reply, answered>>' # <<turn, reply, answered>>
             PROVE  EndedStays
  BY DEF vars, turnVars, chatVars
<1> USE DEF AgentInv, WellTyped
\* All that matters of a step: which turn it writes, and that this turn had not ended.
<1>1. ASSUME NEW t \in Turns, turn[t] \notin {"completed", "cancelled"},
             \A u \in Turns : u # t => turn'[u] = turn[u] \/ turn[u] \in Open,
             \A u \in Turns : u # t => reply'[u] = reply[u] /\ answered'[u] = answered[u]
      PROVE  EndedStays
  BY <1>1 DEF EndedStays, Open
<1>2. ASSUME NEW r \in Requests, NEW t \in Turns, NEW k \in Tasks \cup {Nobody}, AcceptNew(r, t, k)
      PROVE  EndedStays
  BY <1>1, <1>2 DEF AcceptNew, Superseded
<1>3. ASSUME NEW r \in Requests, NEW t \in Turns, AcceptRerun(r, t) PROVE EndedStays
  BY <1>1, <1>3 DEF AcceptRerun, chatVars, TypeOK
<1>4. ASSUME NEW t \in Turns, AcceptRetry(t) \/ Cancel(t) PROVE EndedStays
  BY <1>1, <1>4 DEF AcceptRetry, Retriable, Cancel, Open, chatVars, TypeOK
<1>5. ASSUME NEW r \in Requests, NEW k \in Tasks, Watch(r, k) \/ Submit(r, k) PROVE EndedStays
  <2>1. MayAct(r) /\ answered' = answered /\ \E os : Register(goal[r], k, os)
    BY <1>5 DEF Watch, Submit
  <2>2. goal[r] \in Turns /\ turn[goal[r]] \in {"running", "waiting_task"}
    BY <2>1 DEF MayAct, RequestGoal
  <2> QED
    BY <1>1, <2>1, <2>2 DEF Register, TypeOK
<1>6. ASSUME NEW r \in Requests, Claim(r) PROVE EndedStays
  BY <1>1, <1>6 DEF Claim, RequestGoal, chatVars, TypeOK
<1>7. ASSUME NEW r \in Requests, Finish(r) PROVE EndedStays
  <2>1. goal[r] \in Turns /\ MaySave(r)
    BY <1>7 DEF Finish, RequestGoal
  <2>2. turn[goal[r]] \notin {"completed", "cancelled"}
    BY <2>1 DEF MaySave
  <2> QED
    BY <1>1, <1>7, <2>1, <2>2 DEF Finish, TypeOK
<1>8. ASSUME NEW r \in Requests, FinishError(r) PROVE EndedStays
  <2>1. goal[r] \in Turns /\ MaySave(r)
    BY <1>8 DEF FinishError, RequestGoal
  <2>2. turn[goal[r]] \notin {"completed", "cancelled"}
    BY <2>1 DEF MaySave
  <2> QED
    BY <1>1, <1>8, <2>1, <2>2 DEF FinishError, FailTurn, TypeOK
<1>9. ASSUME NEW w \in Workers, FailContinuation(w) PROVE EndedStays
  <2>1. MayFail(job[w]) /\ job[w][1] \in Turns
    BY <1>9, JobParts DEF FailContinuation, WorkerJob, chatVars
  <2> QED
    BY <1>1, <1>9, <2>1 DEF FailContinuation, FailTurn, MayFail, chatVars, TypeOK
\* The others write neither.
<1>10. ASSUME NEW r \in Requests, ClaimSkipped(r) \/ ClaimRefused(r) \/ RequestDies(r)
       PROVE  FALSE
  BY <1>10 DEF ClaimSkipped, ClaimRefused, RequestDies, turnVars, chatVars
<1>11. ASSUME NEW k \in Tasks, TaskWork(k) \/ Redo(k) PROVE FALSE
  BY <1>11 DEF TaskWork, TaskEnds, OutputEnds, Redo, turnVars, chatVars
<1>12. ASSUME NEW w \in Workers, (\E j \in Jobs : Read(w, j)) \/ (\E r \in Requests : Post(w, r))
       PROVE  FALSE
  BY <1>12 DEF Read, Post, turnVars, chatVars
<1>13. ASSUME NEW w \in Workers,
              \/ Validate(w) \/ ArchiveInvalid(w) \/ Dispatch(w) \/ Confirm(w) \/ HeartbeatLost(w)
              \/ HandleFailure(w) \/ Defer(w) \/ AckCheck(w) \/ Ack(w) \/ Heartbeat(w)
              \/ Raise(w) \/ Crash(w)
       PROVE  FALSE
  BY <1>13 DEF Validate, ArchiveInvalid, Dispatch, Confirm, HeartbeatLost, HandleFailure, Defer,
               AckCheck, Ack, Heartbeat, Raise, Crash, turnVars, chatVars
<1>14. ASSUME (\E t \in Turns : LeaseLapses(t)) \/ (\E j \in Jobs : Expire(j) \/ Stall(j))
       PROVE  FALSE
  BY <1>14 DEF LeaseLapses, Expire, Stall, turnVars, chatVars
<1> QED
  BY <1>2, <1>3, <1>4, <1>5, <1>6, <1>7, <1>8, <1>9, <1>10, <1>11, <1>12, <1>13, <1>14
     DEF Next, User, Tool, EndRun, WorkerStep, Faulty

\* No late run, stale delivery, retry or failure changes a completed or cancelled turn, or the
\* messages it wrote (the fences of finish_agent_turn, fail_agent_continuation and accept_agent_turn).
THEOREM EndedTurnsAreFinal == Spec => EndedIsFinal
BY EndedStep, AgentInvariant, PTL DEF Spec, EndedIsFinal

-----------------------------------------------------------------------------
(***************************************************************************)
(* How often a continuation may call the model, and when it may give up,   *)
(* for any number of threads, turns, tasks, workers, requests and faults   *)
(* of every kind.                                                          *)
(***************************************************************************)

\* A turn has at most one queued continuation.
OneDelivery ==
    \A i, j \in Jobs : handoff[i] = "queued" /\ handoff[j] = "queued" /\ i[1] = j[1] => i = j

\* A claiming request carries a continuation that was sent.
ClaimSent == \A r \in Requests : run[r] = "claim" => handoff[delivery[r]] # "none"

Fetched == {"validate", "dispatch"}

\* At most one process may still turn the last read of a message into a claim: the worker that has
\* not posted it yet, or the one request it has posted it with.
OneCurrent ==
    /\ \A r, q \in Requests :
          run[r] = "claim" /\ run[q] = "claim" /\ current[r] /\ current[q] /\ delivery[r] = delivery[q] => r = q
    /\ \A v, w \in Workers :
          pc[v] \in Fetched /\ pc[w] \in Fetched /\ current[v] /\ current[w] /\ job[v] = job[w] => v = w
    /\ \A w \in Workers, r \in Requests :
          ~(pc[w] \in Fetched /\ run[r] = "claim" /\ current[w] /\ current[r] /\ delivery[r] = job[w])

\* A claim that may still succeed finds an attempt left.
FreshClaim ==
    \A r \in Requests : run[r] = "claim" /\ current[r] /\ handoff[delivery[r]] = "queued"
        => attempts[goal[r]] < MaxAttempts

Unclaimed == {"none", "running", "waiting_task"}

\* Attempts are counted only for a turn whose continuation has been claimed.
AttemptsKept ==
    \A t \in Turns :
        /\ attempts[t] <= MaxAttempts
        /\ turn[t] \in Unclaimed \/ gen[t] = 0 => attempts[t] = 0

\* A worker knows no more reads of its message than there were.
CountRead == \A w \in Workers : pc[w] # "idle" => count[w] <= reads[job[w]]

\* A worker about to reject a delivery that its turn still waits for has read it for the last time.
RejectFair ==
    \A w \in Workers :
        pc[w] = "reject" /\ handoff[job[w]] = "queued" /\ turn[job[w][1]] = "waiting_task"
            => reads[job[w]] = MaxAttempts

ClaimInv ==
    /\ AgentInv
    /\ OneDelivery
    /\ ClaimSent
    /\ OneCurrent
    /\ FreshClaim
    /\ AttemptsKept
    /\ CountRead
    /\ RejectFair

-----------------------------------------------------------------------------
(* Steps that claim, fetch and send nothing. *)

\* Nothing has been sent at first.
LEMMA InitClaims == Init => ClaimInv
<1> SUFFICES ASSUME Init PROVE ClaimInv
  OBVIOUS
<1>1. OneDelivery /\ ClaimSent /\ FreshClaim
  BY DEF Init, OneDelivery, ClaimSent, FreshClaim
<1>2. OneCurrent /\ CountRead /\ RejectFair
  BY DEF Init, OneCurrent, CountRead, RejectFair, Fetched
<1>3. AttemptsKept
  BY AgentAssumption DEF Init, AttemptsKept
<1> QED
  BY InitAgent, <1>1, <1>2, <1>3 DEF ClaimInv

\* Handoffs may be closed, claims may end and workers may go on or let go of their message; no turn
\* goes back to work except one that never had a continuation.
LEMMA KeepStep ==
    ASSUME ClaimInv, AgentInv', UNCHANGED <<attempts, gen, reads>>,
           \A j \in Jobs : handoff'[j] = handoff[j] \/ handoff'[j] \notin {"none", "queued"},
           \A t \in Turns : \/ turn'[t] = turn[t] \/ turn'[t] \notin Unclaimed
                            \/ turn'[t] = "running" /\ gen[t] = 0,
           \A r \in Requests : run'[r] = "claim" =>
               /\ run[r] = "claim" /\ delivery'[r] = delivery[r] /\ goal'[r] = goal[r]
               /\ current'[r] => current[r],
           \A w \in Workers : pc'[w] # "idle" =>
               /\ pc[w] # "idle" /\ job'[w] = job[w] /\ count'[w] = count[w]
               /\ current'[w] => current[w]
               /\ pc'[w] \in Fetched => pc[w] \in Fetched
               /\ pc'[w] = "reject" => \/ pc[w] = "reject"
                                       \/ turn[job[w][1]] # "waiting_task"
                                       \/ reads[job[w]] = MaxAttempts
    PROVE  ClaimInv'
<1> USE DEF ClaimInv
<1>1. \A w \in Workers : pc[w] # "idle" => job[w] \in Jobs /\ job[w][1] \in Turns
  BY JobParts DEF AgentInv, WellTyped, WorkerJob
<1>2. \A r \in Requests : run[r] = "claim" => delivery[r] \in Jobs
  BY DEF AgentInv, WellTyped, RequestGoal
<1>3. OneDelivery'
  BY DEF OneDelivery
<1>4. ClaimSent'
  BY <1>2 DEF ClaimSent
<1>5. OneCurrent'
  <2>1. \A w \in Workers : pc'[w] \in Fetched => pc[w] \in Fetched /\ job'[w] = job[w] /\ (current'[w] => current[w])
    BY DEF Fetched
  <2> QED
    BY <2>1 DEF OneCurrent
<1>6. FreshClaim'
  BY <1>2 DEF FreshClaim
<1>7. AttemptsKept'
  BY DEF AttemptsKept
<1>8. CountRead'
  BY DEF CountRead
<1>9. RejectFair'
  <2> SUFFICES ASSUME NEW w \in Workers, pc'[w] = "reject", handoff'[job'[w]] = "queued",
                      turn'[job'[w][1]] = "waiting_task"
               PROVE  reads[job'[w]] = MaxAttempts
    BY DEF RejectFair
  <2>1. job'[w] = job[w] /\ job[w] \in Jobs /\ job[w][1] \in Turns
    BY <1>1
  <2>2. handoff[job[w]] = "queued" /\ turn[job[w][1]] = "waiting_task"
    BY <2>1 DEF Unclaimed
  <2> QED
    BY <2>1, <2>2 DEF RejectFair
<1> QED
  BY <1>3, <1>4, <1>5, <1>6, <1>7, <1>8, <1>9

-----------------------------------------------------------------------------
(* Steps that send. *)

\* Enqueueing gives a turn a delivery only if it has none.
LEMMA EnqueueNew ==
    ASSUME TypeOK, NEW S \in SUBSET Turns, Enqueue(S)
    PROVE  \A j \in Jobs : handoff'[j] # handoff[j] =>
               handoff'[j] = "queued" /\ ~Delivering(j[1]) /\ j[2] = gen[j[1]] + 1
<1> DEFINE T == {t \in S : ~Delivering(t) /\ gen[t] < MaxGens}
           N == {<<t, gen[t] + 1>> : t \in T}
<1>1. \A j \in Jobs : handoff'[j] = IF j \in N THEN "queued" ELSE handoff[j]
  BY DEF Enqueue, Send
<1>2. \A j \in N : ~Delivering(j[1]) /\ j[2] = gen[j[1]] + 1
  OBVIOUS
<1> HIDE DEF N
<1> QED
  BY <1>1, <1>2

\* A step that sends continuations and may make a running turn wait.
LEMMA SendStep ==
    ASSUME ClaimInv, AgentInv', NEW S \in SUBSET Turns, Enqueue(S), attempts' = attempts,
           \A t \in Turns : turn'[t] = turn[t]
                            \/ (turn[t] \in {"running", "waiting_task"} /\ turn'[t] = "waiting_task"),
           UNCHANGED <<workerVars, reqVars>>
    PROVE  ClaimInv'
<1> USE DEF ClaimInv
<1>1. /\ \A j \in Jobs : handoff'[j] = handoff[j]
                         \/ (handoff[j] = "none" /\ handoff'[j] = "queued" /\ j[1] \in S)
      /\ \A t \in Turns : gen'[t] >= gen[t]
      /\ reads' = reads
  BY EnqueueEffect, EnqueueType DEF AgentInv, WellTyped
<1>2. \A j \in Jobs : handoff'[j] # handoff[j] =>
               handoff'[j] = "queued" /\ ~Delivering(j[1]) /\ j[2] = gen[j[1]] + 1
  BY EnqueueNew DEF AgentInv, WellTyped
<1>3. UNCHANGED <<pc, job, count, run, goal, delivery, current>>
  BY DEF workerVars, reqVars
<1>4. \A w \in Workers : pc[w] # "idle" => job[w] \in Jobs /\ job[w][1] \in Turns /\ handoff[job[w]] # "none"
  BY JobParts DEF AgentInv, WellTyped, WorkerJob, SentJobs
<1>5. \A r \in Requests : run[r] = "claim" => delivery[r] \in Jobs /\ handoff[delivery[r]] # "none"
  BY DEF AgentInv, WellTyped, RequestGoal, ClaimSent
<1>6. OneDelivery'
  <2> SUFFICES ASSUME NEW i \in Jobs, NEW j \in Jobs, handoff'[i] = "queued", handoff'[j] = "queued", i[1] = j[1]
               PROVE  i = j
    BY DEF OneDelivery
  <2>1. CASE handoff[i] = "queued" \/ handoff[j] = "queued"
    BY <1>1, <1>2, <2>1 DEF OneDelivery, Delivering
  <2>2. CASE handoff[i] # "queued" /\ handoff[j] # "queued"
    <3>1. i[2] = j[2]
      BY <1>2, <2>2
    <3>2. i = <<i[1], i[2]>> /\ j = <<j[1], j[2]>>
      BY JobParts
    <3> QED
      BY <3>1, <3>2
  <2> QED
    BY <2>1, <2>2
<1>7. ClaimSent' /\ FreshClaim'
  BY <1>1, <1>3, <1>5 DEF ClaimSent, FreshClaim
<1>8. OneCurrent' /\ CountRead'
  BY <1>1, <1>3 DEF OneCurrent, CountRead
<1>9. AttemptsKept'
  <2>1. \A t \in Turns : gen[t] \in 0..MaxGens /\ gen'[t] \in 0..MaxGens
    BY DEF AgentInv, WellTyped, TypeOK
  <2>2. \A t \in Turns : gen'[t] = 0 => gen[t] = 0
    BY <1>1, <2>1, AgentAssumption
  <2> QED
    BY <2>2 DEF AttemptsKept, Unclaimed
<1>10. RejectFair'
  <2> SUFFICES ASSUME NEW w \in Workers, pc[w] = "reject", handoff'[job[w]] = "queued",
                      turn'[job[w][1]] = "waiting_task"
               PROVE  reads[job[w]] = MaxAttempts
    BY <1>1, <1>3 DEF RejectFair
  <2>1. job[w] \in Jobs /\ job[w][1] \in Turns /\ handoff[job[w]] = "queued"
    BY <1>1, <1>4
  <2>2. gen[job[w][1]] > 0
    BY <2>1, SentHasGen DEF AgentInv
  <2>3. turn[job[w][1]] = "waiting_task"
    BY <2>1, <2>2 DEF AgentInv, SentTurns
  <2> QED
    BY <2>1, <2>3 DEF RejectFair
<1> QED
  BY <1>6, <1>7, <1>8, <1>9, <1>10

\* A user's retry closes the old delivery and starts the count again.
LEMMA RetryClaims ==
    ASSUME ClaimInv, AgentInv', NEW t \in Turns, AcceptRetry(t)
    PROVE  ClaimInv'
<1> USE DEF ClaimInv
<1> DEFINE n == IF Ready(t) THEN gen[t] + 1 ELSE 0
<1>1. /\ \A j \in Jobs : handoff'[j] = IF j = <<t, n>> THEN "queued"
                            ELSE IF j[1] = t /\ handoff[j] = "queued" THEN "failed" ELSE handoff[j]
      /\ \A u \in Turns : attempts'[u] = IF u = t THEN 0 ELSE attempts[u]
      /\ \A u \in Turns : turn'[u] = IF u = t THEN "waiting_task" ELSE turn[u]
  BY DEF AcceptRetry, AgentInv, WellTyped, TypeOK
<1>2. UNCHANGED <<pc, job, count, run, goal, delivery, current, reads>>
  BY DEF AcceptRetry, workerVars, reqVars
<1>3. \A u \in Turns : gen[u] \in 0..MaxGens /\ gen'[u] = IF u = t /\ Ready(t) THEN gen[u] + 1 ELSE gen[u]
  BY DEF AcceptRetry, AgentInv, WellTyped, TypeOK
<1>4. \A j \in Jobs : j = <<t, n>> => n = gen[t] + 1
  <2>1. \A j \in Jobs : j = <<j[1], j[2]>> /\ j[2] \in 1..MaxGens
    BY JobParts
  <2> QED
    BY <2>1
<1> HIDE DEF n
<1>5. \A j \in Jobs : handoff[j] # "none" => j # <<t, n>>
  <2> SUFFICES ASSUME NEW j \in Jobs, handoff[j] # "none", j = <<t, n>> PROVE FALSE
    OBVIOUS
  <2>1. j[1] = t /\ j[2] = gen[t] + 1
    BY <1>4
  <2>2. j[2] <= gen[t]
    BY <2>1 DEF AgentInv, SentJobs
  <2>3. gen[t] \in Nat
    BY <1>3
  <2> QED
    BY <2>1, <2>2, <2>3
<1>6. \A w \in Workers : pc[w] # "idle" => job[w] \in Jobs /\ job[w][1] \in Turns /\ handoff[job[w]] # "none"
  BY JobParts DEF AgentInv, WellTyped, WorkerJob, SentJobs
<1>7. \A r \in Requests : run[r] = "claim" =>
          delivery[r] \in Jobs /\ handoff[delivery[r]] # "none" /\ delivery[r][1] = goal[r] /\ goal[r] \in Turns
  BY DEF AgentInv, WellTyped, RequestGoal, ClaimSent
<1>8. OneDelivery'
  BY <1>1 DEF OneDelivery
<1>9. ClaimSent'
  BY <1>1, <1>2, <1>5, <1>7 DEF ClaimSent
<1>10. FreshClaim'
  BY <1>1, <1>2, <1>5, <1>7, AgentAssumption DEF FreshClaim
<1>11. OneCurrent' /\ CountRead'
  BY <1>2 DEF OneCurrent, CountRead
<1>12. AttemptsKept'
  BY <1>1, <1>3, AgentAssumption DEF AttemptsKept
<1>13. RejectFair'
  BY <1>1, <1>2, <1>5, <1>6 DEF RejectFair
<1> QED
  BY <1>8, <1>9, <1>10, <1>11, <1>12, <1>13

-----------------------------------------------------------------------------
(* From the read of a message to the claim of its turn. *)

\* A read takes the message over from every earlier reader of it.
LEMMA ReadClaims ==
    ASSUME ClaimInv, AgentInv', NEW w \in Workers, NEW j \in Jobs, Read(w, j)
    PROVE  ClaimInv'
<1> USE DEF ClaimInv
<1>1. UNCHANGED <<turn, attempts, handoff, gen, run, goal, delivery>> /\ pc[w] = "idle"
  BY DEF Read, turnVars
<1>2. \A v \in Workers : /\ pc'[v] = IF v = w THEN "validate" ELSE pc[v]
                         /\ job'[v] = IF v = w THEN j ELSE job[v]
                         /\ count'[v] = IF v = w THEN Capped(reads[j]) ELSE count[v]
  BY DEF Read, Goto, AgentInv, WellTyped, TypeOK
<1>3. \A i \in Jobs : reads'[i] = IF i = j THEN Capped(reads[j]) ELSE reads[i]
  BY DEF Read, AgentInv, WellTyped, TypeOK
<1>0. /\ \A v \in Workers : v \notin Requests
      /\ \A a \in Workers \cup Requests : current'[a] = IF a = w THEN TRUE
                                                         ELSE IF a \in Requests THEN current[a] /\ delivery[a] # j
                                                         ELSE current[a] /\ job[a] # j
  BY AgentAssumption DEF Read
<1>4. \A v \in Workers : current'[v] => v = w \/ (current[v] /\ job[v] # j)
  BY <1>0, Zenon
<1>5. \A r \in Requests : current'[r] => current[r] /\ delivery[r] # j
  BY <1>0, Zenon
<1>6. \A i \in Jobs : reads[i] \in 0..MaxAttempts
  BY DEF AgentInv, WellTyped, TypeOK
<1>7. \A v \in Workers : pc[v] # "idle" => job[v] \in Jobs
  BY DEF AgentInv, WellTyped, WorkerJob
<1>8. OneDelivery' /\ ClaimSent' /\ AttemptsKept'
  BY <1>1 DEF OneDelivery, ClaimSent, AttemptsKept
<1>9. FreshClaim'
  BY <1>1, <1>5 DEF FreshClaim
<1>10. OneCurrent'
  BY <1>1, <1>2, <1>4, <1>5 DEF OneCurrent, Fetched
<1>11. Capped(reads[j]) \in 0..MaxAttempts /\ reads[j] <= Capped(reads[j])
  BY <1>6, AgentAssumption DEF Capped
<1>12. CountRead'
  <2> SUFFICES ASSUME NEW v \in Workers, pc'[v] # "idle" PROVE count'[v] <= reads'[job'[v]]
    BY DEF CountRead
  <2>1. CASE v = w
    BY <1>2, <1>3, <1>11, <2>1
  <2>2. CASE v # w
    <3>1. job'[v] = job[v] /\ count'[v] = count[v] /\ job[v] \in Jobs /\ count[v] <= reads[job[v]]
      BY <1>2, <1>7, <2>2 DEF CountRead
    <3>2. reads[job[v]] <= reads'[job[v]] /\ reads'[job[v]] \in Nat /\ reads[job[v]] \in Nat /\ count[v] \in Nat
      BY <1>3, <1>6, <1>11, <3>1, AgentAssumption DEF AgentInv, WellTyped, TypeOK
    <3> QED
      BY <3>1, <3>2
  <2> QED
    BY <2>1, <2>2
<1>13. RejectFair'
  <2> SUFFICES ASSUME NEW v \in Workers, pc'[v] = "reject", handoff[job'[v]] = "queued",
                      turn[job'[v][1]] = "waiting_task"
               PROVE  reads'[job'[v]] = MaxAttempts
    BY <1>1 DEF RejectFair
  <2>1. v # w /\ job'[v] = job[v] /\ pc[v] = "reject" /\ job[v] \in Jobs
    BY <1>2, <1>7
  <2>2. reads[job[v]] = MaxAttempts
    BY <2>1 DEF RejectFair
  <2> QED
    BY <1>3, <2>1, <2>2, AgentAssumption DEF Capped
<1> QED
  BY <1>8, <1>9, <1>10, <1>12, <1>13

\* The worker hands its message over to the request it posts, while attempts are left.
LEMMA PostClaims ==
    ASSUME ClaimInv, AgentInv', NEW w \in Workers, NEW r \in Requests, Post(w, r)
    PROVE  ClaimInv'
<1> USE DEF ClaimInv
<1> DEFINE j == job[w]
           t == j[1]
<1>1. UNCHANGED <<turn, attempts, handoff, gen, reads, job, count>> /\ pc[w] = "dispatch" /\ run[r] = "idle" /\ ~Spent(t)
  BY DEF Post, turnVars, queueVars
<1>2. j \in Jobs /\ t \in Turns /\ handoff[j] # "none"
  BY <1>1, JobParts DEF AgentInv, WellTyped, WorkerJob, SentJobs
<1>3. \A v \in Workers : pc'[v] = IF v = w THEN "posted" ELSE pc[v]
  BY DEF Post, Goto, AgentInv, WellTyped, TypeOK
<1>4. \A q \in Requests : /\ run'[q] = IF q = r THEN "claim" ELSE run[q]
                          /\ goal'[q] = IF q = r THEN t ELSE goal[q]
                          /\ delivery'[q] = IF q = r THEN j ELSE delivery[q]
  BY DEF Post, AgentInv, WellTyped, TypeOK
<1>5. \A a \in Workers \cup Requests : current'[a] = IF a = r THEN current[w] ELSE current[a]
  BY DEF Post, AgentInv, WellTyped, TypeOK
<1>6. \A v \in Workers : v # r
  BY AgentAssumption
<1>7. attempts[t] < MaxAttempts
  BY <1>1, <1>2, AgentAssumption DEF Spent, AgentInv, WellTyped, TypeOK
<1> HIDE DEF t
<1>8. OneDelivery' /\ AttemptsKept' /\ CountRead'
  BY <1>1, <1>3 DEF OneDelivery, AttemptsKept, CountRead
<1>9. ClaimSent'
  BY <1>1, <1>2, <1>4 DEF ClaimSent
<1>10. FreshClaim'
  BY <1>1, <1>4, <1>5, <1>7 DEF FreshClaim
<1>11. OneCurrent'
  BY <1>1, <1>3, <1>4, <1>5, <1>6 DEF OneCurrent, Fetched
<1>12. RejectFair'
  BY <1>1, <1>3 DEF RejectFair
<1> QED
  BY <1>8, <1>9, <1>10, <1>11, <1>12

\* A claim uses up one attempt of the turn's only live delivery.
LEMMA ClaimClaims ==
    ASSUME ClaimInv, AgentInv', NEW r \in Requests, Claim(r)
    PROVE  ClaimInv'
<1> USE DEF ClaimInv
<1> DEFINE t == goal[r]
<1>1. /\ UNCHANGED <<handoff, gen, reads, pc, job, count, goal, delivery, current>>
      /\ run[r] = "claim" /\ handoff[delivery[r]] = "queued" /\ current[r]
  BY DEF Claim, ValidDelivery, queueVars, workerVars
<1>2. t \in Turns /\ delivery[r] \in Jobs /\ delivery[r][1] = t
  BY <1>1 DEF AgentInv, WellTyped, RequestGoal
<1>3. /\ \A u \in Turns : attempts'[u] = IF u = t THEN attempts[t] + 1 ELSE attempts[u]
      /\ \A u \in Turns : turn'[u] = IF u = t THEN "finalizing" ELSE turn[u]
      /\ \A q \in Requests : run'[q] = IF q = r THEN "answer" ELSE run[q]
  BY DEF Claim, AgentInv, WellTyped, TypeOK
<1>4. attempts[t] < MaxAttempts /\ attempts[t] \in Nat /\ gen[t] > 0
  BY <1>1, <1>2, SentHasGen DEF FreshClaim, AgentInv, WellTyped, TypeOK
<1>5. \A q \in Requests : run[q] = "claim" => delivery[q] \in Jobs /\ delivery[q][1] = goal[q] /\ goal[q] \in Turns
  BY DEF AgentInv, WellTyped, RequestGoal
<1>6. \A w \in Workers : pc[w] # "idle" => job[w][1] \in Turns
  BY JobParts DEF AgentInv, WellTyped, WorkerJob
<1> HIDE DEF t
<1>7. OneDelivery' /\ CountRead'
  BY <1>1 DEF OneDelivery, CountRead
<1>8. ClaimSent' /\ OneCurrent'
  BY <1>1, <1>3 DEF ClaimSent, OneCurrent
<1>9. FreshClaim'
  <2> SUFFICES ASSUME NEW q \in Requests, run'[q] = "claim", current[q], handoff[delivery[q]] = "queued"
               PROVE  attempts'[goal[q]] < MaxAttempts
    BY <1>1 DEF FreshClaim
  <2>1. q # r /\ run[q] = "claim"
    BY <1>3
  <2>2. delivery[q] # delivery[r]
    BY <1>1, <2>1 DEF OneCurrent
  <2>3. goal[q] # t
    BY <1>1, <1>2, <1>5, <2>1, <2>2 DEF OneDelivery
  <2> QED
    BY <1>3, <1>5, <2>1, <2>3 DEF FreshClaim
<1>10. AttemptsKept'
  BY <1>1, <1>3, <1>4, AgentAssumption DEF AttemptsKept, Unclaimed
<1>11. RejectFair'
  BY <1>1, <1>3, <1>6 DEF RejectFair
<1> QED
  BY <1>7, <1>8, <1>9, <1>10, <1>11
-----------------------------------------------------------------------------
(* Every action is one of these steps. *)

\* What users ask for.
LEMMA UserClaims ==
    ASSUME ClaimInv, AgentInv', User
    PROVE  ClaimInv'
<1> USE DEF ClaimInv
<1>1. ASSUME NEW r \in Requests, NEW t \in Turns, run[r] = "idle", Begin(r, t), gen[t] = 0,
             turn'[t] = "running", \A u \in Turns : u # t => turn'[u] = turn[u] \/ turn'[u] = "cancelled",
             UNCHANGED <<attempts, gen, reads, handoff>>
      PROVE  ClaimInv'
  <2>1. \A q \in Requests : /\ run'[q] = IF q = r THEN "chat" ELSE run[q]
                            /\ q # r => goal'[q] = goal[q]
    BY <1>1 DEF Begin, AgentInv, WellTyped, TypeOK
  <2>2. UNCHANGED <<delivery, current, pc, job, count>>
    BY <1>1 DEF Begin, workerVars
  <2> QED
    BY <1>1, <2>1, <2>2, KeepStep DEF Unclaimed
<1>2. ASSUME NEW r \in Requests, NEW t \in Turns, NEW k \in Tasks \cup {Nobody}, AcceptNew(r, t, k)
      PROVE  ClaimInv'
  <2>1. gen[t] = 0
    BY <1>2, AgentAssumption DEF AcceptNew, AgentInv, SentTurns, WellTyped, TypeOK
  <2> QED
    BY <1>1, <1>2, <2>1 DEF AcceptNew, queueVars
<1>3. ASSUME NEW r \in Requests, NEW t \in Turns, AcceptRerun(r, t) PROVE ClaimInv'
  <2>1. gen[t] = 0
    BY <1>3, AgentAssumption DEF AcceptRerun, Retriable, Sent, AgentInv, SentTurns, WellTyped, TypeOK
  <2>2. \A u \in Turns : turn'[u] = IF u = t THEN "running" ELSE turn[u]
    BY <1>3 DEF AcceptRerun, AgentInv, WellTyped, TypeOK
  <2> QED
    BY <1>1, <1>3, <2>1, <2>2 DEF AcceptRerun, queueVars
<1>4. ASSUME NEW t \in Turns, AcceptRetry(t) PROVE ClaimInv'
  BY <1>4, RetryClaims
<1>5. ASSUME NEW t \in Turns, Cancel(t) PROVE ClaimInv'
  <2>1. UNCHANGED <<attempts, gen, reads, handoff, run, goal, delivery, current, pc, job, count>>
    BY <1>5 DEF Cancel, queueVars, reqVars, workerVars
  <2>2. \A u \in Turns : turn'[u] = turn[u] \/ turn'[u] \notin Unclaimed
    BY <1>5 DEF Cancel, Unclaimed, AgentInv, WellTyped, TypeOK
  <2> QED
    BY <2>1, <2>2, KeepStep
<1>6. ASSUME NEW k \in Tasks, Redo(k) PROVE ClaimInv'
  BY <1>6, KeepStep DEF Redo, turnVars, queueVars, reqVars, workerVars
<1> QED
  BY <1>2, <1>3, <1>4, <1>5, <1>6 DEF User

\* What the pipeline writes.
LEMMA TaskClaims ==
    ASSUME ClaimInv, AgentInv', NEW k \in Tasks, TaskWork(k)
    PROVE  ClaimInv'
<1>1. PICK s \in {"completed", "error"} : TaskEnds(k, s) \/ OutputEnds(k, s)
  BY DEF TaskWork
<1>2. Wake(k, task', out') /\ UNCHANGED <<turn, attempts, workerVars, reqVars>>
  <2>1. CASE TaskEnds(k, s)
    <3>1. out' = out
      BY <2>1 DEF TaskEnds
    <3> QED
      BY <2>1, <3>1 DEF TaskEnds, turnVars
  <2>2. CASE OutputEnds(k, s)
    <3>1. task' = task
      BY <2>2 DEF OutputEnds
    <3> QED
      BY <2>2, <3>1 DEF OutputEnds, turnVars
  <2> QED
    BY <1>1, <2>1, <2>2
<1>3. PICK S \in SUBSET Turns : Enqueue(S)
  BY <1>2 DEF Wake
<1>4. turn' = turn /\ attempts' = attempts /\ UNCHANGED <<workerVars, reqVars>>
  BY <1>2
<1>5. \A t \in Turns : turn'[t] = turn[t]
  BY <1>4
<1> QED
  BY <1>3, <1>4, <1>5, SendStep

\* The end of a request takes no claim up, and its worker neither fetches nor rejects.
LEMMA AnswerClaims ==
    ASSUME ClaimInv, AgentInv', NEW r \in Requests, NEW p \in {"confirm", "failed", "defer"}, Answer(r, p),
           UNCHANGED <<attempts, gen, reads, handoff>>,
           \A t \in Turns : turn'[t] = turn[t] \/ turn'[t] \notin Unclaimed
    PROVE  ClaimInv'
<1>1. \A w \in Workers : pc'[w] = IF post[w] = r THEN p ELSE pc[w]
  BY DEF Answer
<1>2. \A w \in Workers : post[w] = r => pc[w] = "posted"
  BY AgentAssumption DEF ClaimInv, AgentInv, WellTyped, WorkerJob
<1>3. \A w \in Workers : pc'[w] # "idle" =>
          /\ pc[w] # "idle"
          /\ pc'[w] \in Fetched => pc[w] \in Fetched
          /\ pc'[w] = "reject" => pc[w] = "reject"
  BY <1>1, <1>2 DEF Fetched
<1>4. \A q \in Requests : /\ run'[q] = IF q = r THEN "idle" ELSE run[q]
                          /\ q # r => goal'[q] = goal[q] /\ delivery'[q] = delivery[q]
  BY DEF Answer, ClaimInv, AgentInv, WellTyped, TypeOK
<1>5. /\ \A q \in Requests : q # r => current'[q] = current[q]
      /\ \A w \in Workers : current'[w] = current[w] /\ w # r
  <2>1. current \in [Workers \cup Requests -> BOOLEAN] /\ current' = [current EXCEPT ![r] = FALSE]
    BY DEF Answer, ClaimInv, AgentInv, WellTyped, TypeOK
  <2>2. \A w \in Workers : w # r
    BY AgentAssumption
  <2> QED
    BY <2>1, <2>2
<1>6. job' = job /\ count' = count
  BY DEF Answer
<1> QED
  BY <1>3, <1>4, <1>5, <1>6, KeepStep

\* The tools, the end of a run and the continuation requests.
LEMMA RequestClaims ==
    ASSUME ClaimInv, AgentInv', NEW r \in Requests, Tool(r) \/ EndRun(r) \/ RequestDies(r)
    PROVE  ClaimInv'
<1> USE DEF ClaimInv
<1> DEFINE t == goal[r]
<1>0. run[r] # "idle" => t \in Turns
  BY DEF AgentInv, WellTyped, RequestGoal
<1>1. ASSUME NEW k \in Tasks, Watch(r, k) \/ Submit(r, k) PROVE ClaimInv'
  <2>1. MayAct(r) /\ attempts' = attempts /\ UNCHANGED <<workerVars, reqVars>>
        /\ \E os : Register(t, k, os)
    BY <1>1 DEF Watch, Submit
  <2>2. t \in Turns /\ turn[t] \in {"running", "waiting_task"}
    BY <1>0, <2>1 DEF MayAct
  <2> HIDE DEF t
  <2>3. \A u \in Turns : turn'[u] = IF u = t THEN "waiting_task" ELSE turn[u]
    BY <2>1 DEF Register, AgentInv, WellTyped, TypeOK
  <2>4. \E S \in SUBSET Turns : Enqueue(S)
    <3>1. PICK os : Enqueue(ReadyAtOnce(t, k, os))
      BY <2>1 DEF Register
    <3>2. ReadyAtOnce(t, k, os) \in SUBSET Turns
      BY <2>2 DEF ReadyAtOnce
    <3> QED
      BY <3>1, <3>2
  <2>5. PICK S \in SUBSET Turns : Enqueue(S)
    BY <2>4
  <2>6. \A u \in Turns : turn'[u] = turn[u] \/ (turn[u] \in {"running", "waiting_task"} /\ turn'[u] = "waiting_task")
    BY <2>2, <2>3
  <2>7. attempts' = attempts /\ UNCHANGED <<workerVars, reqVars>>
    BY <2>1
  <2> QED
    BY <2>5, <2>6, <2>7, SendStep
<1>2. CASE Claim(r)
  BY <1>2, ClaimClaims
<1>3. CASE ClaimSkipped(r) \/ ClaimRefused(r) \/ RequestDies(r)
  <2>1. /\ \E p \in {"confirm", "failed", "defer"} : Answer(r, p)
        /\ UNCHANGED <<turn, attempts, gen, reads, handoff>>
    BY <1>3 DEF ClaimSkipped, ClaimRefused, RequestDies, turnVars, queueVars
  <2> QED
    BY <2>1, AnswerClaims
<1>4. CASE Finish(r) \/ FinishError(r)
  <2>1. /\ \E p \in {"confirm", "failed", "defer"} : Answer(r, p)
        /\ UNCHANGED <<attempts, gen, reads, handoff>> /\ t \in Turns
    BY <1>0, <1>4 DEF Finish, FinishError, queueVars
  <2>2. turn' = turn \/ turn' = [turn EXCEPT ![t] = IF @ = "waiting_task" THEN @ ELSE "completed"]
        \/ turn' = [turn EXCEPT ![t] = "failed"]
    BY <1>4 DEF Finish, FinishError, FailTurn
  <2> HIDE DEF t
  <2>3. \A u \in Turns : turn'[u] = turn[u] \/ turn'[u] \notin Unclaimed
    BY <2>1, <2>2 DEF Unclaimed, AgentInv, WellTyped, TypeOK
  <2> QED
    BY <2>1, <2>3, AnswerClaims
<1> QED
  BY <1>1, <1>2, <1>3, <1>4 DEF Tool, EndRun

\* The workers, the queue and their faults.
LEMMA WorkerClaims ==
    ASSUME ClaimInv, AgentInv', NEW w \in Workers, WorkerStep(w) \/ Heartbeat(w) \/ Raise(w) \/ Crash(w)
    PROVE  ClaimInv'
<1> USE DEF ClaimInv
<1> DEFINE j == job[w]
           t == j[1]
<1>0. pc[w] # "idle" => j \in Jobs /\ t \in Turns /\ handoff[j] # "none"
  BY JobParts DEF AgentInv, WellTyped, WorkerJob, SentJobs
\* A worker that goes on with its message.
<1>1. ASSUME NEW p, pc[w] # "idle", pc' = [pc EXCEPT ![w] = p],
             p \in Fetched => pc[w] \in Fetched,
             p = "reject" => turn[t] # "waiting_task" \/ reads[j] = MaxAttempts,
             \A u \in Turns : turn'[u] = turn[u] \/ turn'[u] \notin Unclaimed,
             UNCHANGED <<attempts, gen, reads, handoff, run, goal, delivery, current, job, count>>
      PROVE  ClaimInv'
  <2>1. \A v \in Workers : pc'[v] = IF v = w THEN p ELSE pc[v]
    BY <1>1 DEF AgentInv, WellTyped, TypeOK
  <2> QED
    BY <1>1, <2>1, KeepStep
\* A worker that lets go of its message, which it may have acknowledged.
<1>2. ASSUME pc[w] # "idle", Release(w),
             \A i \in Jobs : handoff'[i] = handoff[i] \/ handoff'[i] \notin {"none", "queued"},
             UNCHANGED <<turn, attempts, gen, reads, run, goal, delivery>>
      PROVE  ClaimInv'
  <2>1. \A v \in Workers : pc'[v] # "idle" => v # w /\ pc'[v] = pc[v] /\ job'[v] = job[v] /\ count'[v] = count[v]
    BY <1>2 DEF Release, AgentInv, WellTyped, TypeOK
  <2>2. \A a \in Workers \cup Requests : a # w => current'[a] = current[a]
    BY <1>2 DEF Release, AgentInv, WellTyped, TypeOK
  <2>3. \A r \in Requests : r # w
    BY AgentAssumption
  <2> QED
    BY <1>2, <2>1, <2>2, <2>3, KeepStep
<1>3. ASSUME NEW i \in Jobs, Read(w, i) PROVE ClaimInv'
  BY <1>3, ReadClaims
<1>4. ASSUME NEW r \in Requests, Post(w, r) PROVE ClaimInv'
  BY <1>4, PostClaims
<1>5. CASE Validate(w) \/ Confirm(w) \/ Raise(w)
  <2>1. /\ UNCHANGED <<turnVars, queueVars, job, count, reqVars>> /\ pc[w] # "idle"
        /\ \E p \in {"dispatch", "done", "failed"} : Goto(w, p) /\ (p = "dispatch" => pc[w] = "validate")
    BY <1>5 DEF Validate, Confirm, Raise
  <2> QED
    BY <1>1, <2>1 DEF Goto, Fetched, turnVars, queueVars, reqVars
<1>6. CASE Dispatch(w)
  <2>1. /\ UNCHANGED <<turnVars, queueVars, job, count, reqVars>> /\ pc[w] = "dispatch"
        /\ \E p \in {"done", "defer", "reject"} : Goto(w, p)
        /\ turn[t] \in {"completed", "cancelled"} \/ (turn[t] = "finalizing" /\ lease[t]) \/ Spent(t)
    BY <1>6 DEF Dispatch
  <2>2. t \in Turns
    BY <1>0, <2>1
  <2> HIDE DEF t
  <2>3. Spent(t) => turn[t] # "waiting_task"
    BY <2>2, AgentAssumption DEF Spent, AttemptsKept, Unclaimed
  <2>4. turn[t] # "waiting_task"
    BY <2>1, <2>3
  <2> QED
    BY <1>1, <2>1, <2>4 DEF Goto, Fetched, turnVars, queueVars, reqVars
<1>7. CASE HandleFailure(w)
  <2>1. /\ UNCHANGED <<turnVars, queueVars, job, count, reqVars>> /\ pc[w] = "failed"
        /\ Goto(w, IF Exhausted(w) THEN "reject" ELSE "defer")
    BY <1>7 DEF HandleFailure
  <2>2. Exhausted(w) => turn[t] # "waiting_task" \/ reads[j] = MaxAttempts
    <3> SUFFICES ASSUME Exhausted(w), turn[t] = "waiting_task" PROVE reads[j] = MaxAttempts
      OBVIOUS
    <3>1. count[w] >= MaxAttempts
      BY DEF Exhausted
    <3>2. count[w] <= reads[j] /\ reads[j] \in 0..MaxAttempts /\ count[w] \in 0..MaxAttempts
      BY <1>0, <2>1 DEF CountRead, AgentInv, WellTyped, TypeOK
    <3> QED
      BY <3>1, <3>2, AgentAssumption
  <2>3. \E p : /\ Goto(w, p) /\ p \in {"reject", "defer"}
               /\ p = "reject" => turn[t] # "waiting_task" \/ reads[j] = MaxAttempts
    BY <2>1, <2>2
  <2> HIDE DEF t, j
  <2> QED
    BY <1>1, <2>1, <2>3 DEF Goto, Fetched, turnVars, queueVars, reqVars
<1>8. CASE FailContinuation(w)
  <2>1. /\ UNCHANGED <<attempts, queueVars, job, count, reqVars>> /\ pc[w] = "reject" /\ Goto(w, "buried")
        /\ turn' = turn \/ turn' = [turn EXCEPT ![t] = "failed"]
    BY <1>8 DEF FailContinuation, FailTurn
  <2>2. t \in Turns
    BY <1>0, <2>1
  <2> HIDE DEF t
  <2>3. \A u \in Turns : turn'[u] = turn[u] \/ turn'[u] \notin Unclaimed
    BY <2>1, <2>2 DEF Unclaimed, AgentInv, WellTyped, TypeOK
  <2> QED
    BY <1>1, <2>1, <2>3 DEF Goto, Fetched, queueVars, reqVars
<1>9. CASE Heartbeat(w)
  BY <1>9, KeepStep DEF Heartbeat, turnVars, workerVars, reqVars
<1>10. CASE ArchiveInvalid(w) \/ Defer(w) \/ HeartbeatLost(w) \/ Crash(w)
  <2>1. /\ Release(w) /\ pc[w] # "idle"
        /\ UNCHANGED <<turnVars, handoff, reads, gen, run, goal, delivery>>
    BY <1>10 DEF ArchiveInvalid, Defer, HeartbeatLost, Crash, queueVars
  <2> QED
    BY <1>2, <2>1 DEF turnVars
<1>11. CASE AckCheck(w)
  <2>1. pc[w] \in {"done", "buried"} /\ UNCHANGED <<turnVars, queueVars, run, goal, delivery>>
    BY <1>11 DEF AckCheck
  <2>2. CASE Release(w)
    BY <1>2, <2>1, <2>2 DEF turnVars, queueVars
  <2>3. CASE ~Release(w)
    <3>1. UNCHANGED <<job, count, current>> /\ \E p \in Acking : Goto(w, p)
      BY <1>11, <2>3 DEF AckCheck, Acking
    <3> QED
      BY <1>1, <2>1, <3>1 DEF Goto, Acking, Fetched, turnVars, queueVars
  <2> QED
    BY <2>2, <2>3
<1>12. CASE Ack(w)
  <2>1. Release(w) /\ pc[w] # "idle" /\ UNCHANGED <<turnVars, reads, gen, run, goal, delivery>>
    BY <1>12 DEF Ack
  <2>2. \A i \in Jobs : handoff'[i] = handoff[i] \/ handoff'[i] \notin {"none", "queued"}
    BY <1>12 DEF Ack, AgentInv, WellTyped, TypeOK
  <2> QED
    BY <1>2, <2>1, <2>2 DEF turnVars
<1> QED
  BY <1>3, <1>4, <1>5, <1>6, <1>7, <1>8, <1>9, <1>10, <1>11, <1>12 DEF WorkerStep

\* Leases and visibility timeouts that pass.
LEMMA TimeClaims ==
    ASSUME ClaimInv, AgentInv',
           \/ \E t \in Turns : LeaseLapses(t)
           \/ \E j \in Jobs : Expire(j) \/ Stall(j)
    PROVE  ClaimInv'
<1>1. UNCHANGED <<turn, attempts, gen, reads, handoff, run, goal, delivery, current, pc, job, count>>
  BY DEF LeaseLapses, Expire, Stall, turnVars, queueVars, reqVars, workerVars
<1> QED
  BY <1>1, KeepStep

\* The invariant is inductive.
LEMMA ClaimInductive == ClaimInv /\ [Next]_vars => ClaimInv'
<1> SUFFICES ASSUME ClaimInv, [Next]_vars PROVE ClaimInv'
  OBVIOUS
<1>0. AgentInv'
  BY AgentInductive DEF ClaimInv
<1>1. CASE UNCHANGED vars
  BY <1>0, <1>1, KeepStep DEF vars, turnVars, queueVars, reqVars, workerVars
<1>2. CASE Next
  BY <1>0, <1>2, UserClaims, RequestClaims, TaskClaims, WorkerClaims, TimeClaims DEF Next, Faulty
<1> QED
  BY <1>1, <1>2

-----------------------------------------------------------------------------
(* Theorems. *)

\* The invariant holds in every reachable state.
THEOREM ClaimInvariant == Spec => []ClaimInv
BY InitClaims, ClaimInductive, PTL DEF Spec

\* However workers stall, die and read a message again while detached requests go on, the model is
\* called at most MaxAttempts times between two retries of the user (claim_agent_continuation counts
\* without looking at the limit: only the worker does).
THEOREM ClaimsAreBounded == Spec => []ClaimsBounded
<1>1. ClaimInv => ClaimsBounded
  BY DEF ClaimInv, AttemptsKept, ClaimsBounded
<1> QED
  BY ClaimInvariant, <1>1, PTL

\* Only a worker's rejection fails a waiting turn.
LEMMA FailStep ==
    ClaimInv /\ [Next]_vars =>
        [\A t \in Turns : turn[t] = "waiting_task" /\ turn'[t] = "failed" =>
            \E j \in Jobs : j[1] = t /\ handoff[j] = "queued" /\ reads[j] = MaxAttempts]_turn
<1> SUFFICES ASSUME ClaimInv, Next, turn' # turn,
                    NEW t \in Turns, turn[t] = "waiting_task", turn'[t] = "failed"
             PROVE  \E j \in Jobs : j[1] = t /\ handoff[j] = "queued" /\ reads[j] = MaxAttempts
  BY DEF vars, turnVars
<1> USE DEF ClaimInv, AgentInv, WellTyped
<1>1. ASSUME NEW w \in Workers, FailContinuation(w)
      PROVE  \E j \in Jobs : j[1] = t /\ handoff[j] = "queued" /\ reads[j] = MaxAttempts
  <2>1. pc[w] = "reject" /\ MayFail(job[w]) /\ turn' = [turn EXCEPT ![job[w][1]] = "failed"]
    BY <1>1 DEF FailContinuation, FailTurn
  <2>2. job[w] \in Jobs /\ job[w][1] = t /\ handoff[job[w]] = "queued"
    BY <2>1 DEF WorkerJob, MayFail, TypeOK
  <2>3. reads[job[w]] = MaxAttempts
    BY <2>1, <2>2 DEF RejectFair
  <2> QED
    BY <2>2, <2>3
\* No other step does.
<1>2. ASSUME NEW r \in Requests, NEW u \in Turns, NEW k \in Tasks \cup {Nobody}, AcceptNew(r, u, k) PROVE FALSE
  BY <1>2 DEF AcceptNew
<1>3. ASSUME NEW u \in Turns, (\E r \in Requests : AcceptRerun(r, u)) \/ AcceptRetry(u) \/ Cancel(u) PROVE FALSE
  BY <1>3 DEF AcceptRerun, AcceptRetry, Cancel, TypeOK
<1>4. ASSUME NEW r \in Requests, NEW k \in Tasks, Watch(r, k) \/ Submit(r, k) PROVE FALSE
  BY <1>4 DEF Watch, Submit, Register, TypeOK
<1>5. ASSUME NEW r \in Requests, Claim(r) PROVE FALSE
  BY <1>5 DEF Claim, TypeOK
<1>6. ASSUME NEW r \in Requests, Finish(r) PROVE FALSE
  <2>1. turn' = [turn EXCEPT ![goal[r]] = IF @ = "waiting_task" THEN @ ELSE "completed"]
    BY <1>6 DEF Finish
  <2> QED
    BY <2>1 DEF TypeOK
<1>7. ASSUME NEW r \in Requests, FinishError(r) PROVE FALSE
  BY <1>7 DEF FinishError, FailTurn, TypeOK
<1>8. ASSUME NEW r \in Requests, ClaimSkipped(r) \/ ClaimRefused(r) \/ RequestDies(r) PROVE FALSE
  BY <1>8 DEF ClaimSkipped, ClaimRefused, RequestDies, turnVars
<1>9. ASSUME NEW k \in Tasks, TaskWork(k) \/ Redo(k) PROVE FALSE
  BY <1>9 DEF TaskWork, TaskEnds, OutputEnds, Redo, turnVars
<1>10. ASSUME NEW w \in Workers, (\E j \in Jobs : Read(w, j)) \/ (\E r \in Requests : Post(w, r)) PROVE FALSE
  BY <1>10 DEF Read, Post, turnVars
<1>11. ASSUME NEW w \in Workers,
              \/ Validate(w) \/ ArchiveInvalid(w) \/ Dispatch(w) \/ Confirm(w) \/ HeartbeatLost(w)
              \/ HandleFailure(w) \/ Defer(w) \/ AckCheck(w) \/ Ack(w) \/ Heartbeat(w)
              \/ Raise(w) \/ Crash(w)
       PROVE  FALSE
  BY <1>11 DEF Validate, ArchiveInvalid, Dispatch, Confirm, HeartbeatLost, HandleFailure, Defer,
               AckCheck, Ack, Heartbeat, Raise, Crash, turnVars
<1>12. ASSUME (\E u \in Turns : LeaseLapses(u)) \/ (\E j \in Jobs : Expire(j) \/ Stall(j)) PROVE FALSE
  BY <1>12 DEF LeaseLapses, Expire, Stall, turnVars
<1>13. CASE User
  BY <1>2, <1>3, <1>9, <1>13 DEF User
<1>14. CASE \E r \in Requests : Tool(r) \/ EndRun(r)
  BY <1>4, <1>5, <1>6, <1>7, <1>8, <1>14 DEF Tool, EndRun
<1>15. CASE \E w \in Workers : WorkerStep(w) \/ Heartbeat(w)
  BY <1>1, <1>10, <1>11, <1>15 DEF WorkerStep
<1>16. CASE Faulty
  BY <1>8, <1>11, <1>12, <1>16 DEF Faulty
<1>17. CASE (\E k \in Tasks : TaskWork(k)) \/ (\E u \in Turns : LeaseLapses(u)) \/ (\E j \in Jobs : Expire(j))
  BY <1>9, <1>12, <1>17
<1> QED
  BY <1>13, <1>14, <1>15, <1>16, <1>17 DEF Next

\* A waiting turn is given up only when its own queued delivery has been read MaxAttempts times: the
\* late failure of a delivery that a user's retry has retired changes nothing (fail_agent_continuation).
THEOREM RetriesGetTheirAttempts == Spec => RetryGetsItsAttempts
BY FailStep, ClaimInvariant, PTL DEF Spec, RetryGetsItsAttempts
=============================================================================
