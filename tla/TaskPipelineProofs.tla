------------------------- MODULE TaskPipelineProofs -------------------------
(***************************************************************************)
(* What TaskPipeline guarantees for every number of tasks, jobs, workers,  *)
(* attempts and faults.                                                    *)
(***************************************************************************)
EXTENDS TaskPipeline, TLAPS

USE DEF taskVars, outVars, queueVars, localVars, workerVars

-----------------------------------------------------------------------------
(* Well-formed states: typed; a sent job names an existing task,  *)
(* a worker holds a sent job, and a task that does not exist has no outputs. *)

SentJobs ==
    \A j \in JobIds : handoff[j] # "none" =>
        jtask[j] \in TaskIds /\ jpart[j] \in Parts /\ status[jtask[j]] # "none"

HeldJobs ==
    \A w \in Workers : pc[w] # "idle" => job[w] \in JobIds /\ handoff[job[w]] # "none"

NewTasks ==
    \A t \in TaskIds : status[t] = "none" => \A o \in Outputs : ostatus[t][o] = "none"

WellFormed == TypeOK /\ SentJobs /\ HeldJobs /\ NewTasks

\* Every literal the worker's program counter is set to is one of its values.
LEMMA Literals ==
    /\ {"idle", "validate", "done", "reject", "failed", "buried"} \subseteq PCs
    /\ {"dispatch", "cache", "ingest", "supadata", "vtt", "nocaptions", "raw", "script",
        "cognition", "read", "write", "summarize", "save", "cleanup", "retry", "rewrite"} \subseteq PCs
    /\ Running \subseteq PCs
    /\ {"idle", "validate", "done", "reject", "failed", "buried"} \cap Running = {}
BY DEF PCs, Running

\* A jump of one worker keeps the program counters well typed.
LEMMA GotoType ==
    ASSUME TypeOK, NEW w \in Workers, NEW p \in PCs, Goto(w, p)
    PROVE  pc' \in [Workers -> PCs] /\ pc'[w] = p
BY DEF TypeOK, Goto

\* A worker past "idle" works for a task that exists.
LEMMA HeldTask ==
    ASSUME WellFormed, NEW w \in Workers, pc[w] # "idle"
    PROVE  /\ Task(w) \in TaskIds /\ Part(w) \in Parts /\ job[w] \in JobIds
           /\ handoff[job[w]] # "none" /\ status[Task(w)] # "none"
BY DEF WellFormed, SentJobs, HeldJobs, Task, Part

\* The empty database with idle workers is well formed.
LEMMA InitType == Init => WellFormed
<1> SUFFICES ASSUME Init PROVE WellFormed
  OBVIOUS
<1>1. TypeOK
  BY PipelineAssumption, Literals DEF Init, TypeOK, Status, OutStatus, ErrClass, Percent, NoJob
<1> QED
  BY <1>1 DEF Init, WellFormed, SentJobs, HeldJobs, NewTasks

\* An enqueue inside a transaction keeps the queue well typed.
LEMMA SendType ==
    ASSUME TypeOK, NEW t \in TaskIds, NEW p \in Parts, Send(t, p)
    PROVE  /\ queue' \in [JobIds -> {"unsent", "visible", "hidden", "archived"}]
           /\ handoff' \in [JobIds -> {"none", "queued", "completed", "failed"}]
           /\ reads' \in [JobIds -> Nat]
           /\ jtask' \in [JobIds -> TaskIds \cup {0}]
           /\ jpart' \in [JobIds -> Parts \cup {"none"}]
BY DEF TypeOK, Send

\* A worker that lets go of its job keeps its own variables well typed.
LEMMA ReleaseType ==
    ASSUME TypeOK, NEW w \in Workers, Release(w)
    PROVE  /\ pc' \in [Workers -> PCs]
           /\ job' \in [Workers -> JobIds \cup {NoJob}]
           /\ attempt' \in [Workers -> Nat]
           /\ text' \in [Workers -> BOOLEAN]
           /\ errs' \in [Workers -> ErrClass]
           /\ target' \in [Workers -> Percent]
BY Literals DEF TypeOK, Release, NoJob, ErrClass, Percent

\* A submission or a retry keeps every variable in its type.
LEMMA RequestType == TypeOK /\ Request => TypeOK'
<1> SUFFICES ASSUME TypeOK, Request PROVE TypeOK'
  OBVIOUS
<1>1. ASSUME NEW u \in Urls, ReuseInflight(u) PROVE TypeOK'
  BY <1>1, SendType DEF TypeOK, ReuseInflight, Newest, Live, Parts
<1>2. ASSUME NEW u \in Urls, NEW l \in Locales, ReuseScript(u, l) PROVE TypeOK'
  <2>1. PICK t \in TaskIds : /\ ostatus' = [ostatus EXCEPT ![t][l] = "pending"]
                             /\ SendUnlessQueued(t, l)
    BY <1>2 DEF ReuseScript, Newest, Scripted
  <2>2. ostatus' \in [TaskIds -> [Outputs -> OutStatus]]
    BY <2>1 DEF TypeOK, OutStatus, Status, Outputs
  <2>3. CASE Queued(t, l)
    BY <1>2, <2>1, <2>2, <2>3 DEF TypeOK, ReuseScript, SendUnlessQueued
  <2>4. CASE ~Queued(t, l)
    BY <1>2, <2>1, <2>2, <2>4, SendType DEF TypeOK, ReuseScript, SendUnlessQueued, Parts, Outputs
  <2> QED
    BY <2>3, <2>4
<1>3. ASSUME NEW u \in Urls, NEW l \in Locales, SubmitNew(u, l) PROVE TypeOK'
  <2>1. PICK t \in TaskIds :
            /\ status'  = [status EXCEPT ![t] = "pending"]
            /\ url'     = [url EXCEPT ![t] = u]
            /\ want'    = [want EXCEPT ![t] = l]
            /\ debit'   = [debit EXCEPT ![t] = "open"]
            /\ ostatus' = [ostatus EXCEPT ![t]["script"] = "pending", ![t][l] = "pending"]
            /\ Send(t, "task")
    BY <1>3 DEF SubmitNew
  <2>2. ostatus' \in [TaskIds -> [Outputs -> OutStatus]]
    <3>1. [ostatus[t] EXCEPT !["script"] = "pending"] \in [Outputs -> OutStatus]
      BY DEF TypeOK, OutStatus, Status
    <3>2. [[ostatus[t] EXCEPT !["script"] = "pending"] EXCEPT ![l] = "pending"] \in [Outputs -> OutStatus]
      BY <3>1 DEF OutStatus, Status
    <3> QED
      BY <2>1, <3>1, <3>2 DEF TypeOK, Outputs
  <2>3. /\ status' \in [TaskIds -> Status]
        /\ url' \in [TaskIds -> Urls \cup {"none"}]
        /\ want' \in [TaskIds -> Locales \cup {"none"}]
        /\ debit' \in [TaskIds -> {"none", "open", "refunded"}]
    BY <2>1 DEF TypeOK, Status
  <2> QED
    BY <1>3, <2>1, <2>2, <2>3, SendType DEF TypeOK, SubmitNew, Parts
<1>4. ASSUME NEW t \in TaskIds, RetryTask(t) PROVE TypeOK'
  BY <1>4, SendType DEF TypeOK, RetryTask, Parts, OutStatus, Status, Percent, ErrClass
<1>5. ASSUME NEW t \in TaskIds, NEW o \in Outputs, RetryOutput(t, o) PROVE TypeOK'
  BY <1>5, SendType DEF TypeOK, RetryOutput, Parts, OutStatus, Status
<1> QED
  BY <1>1, <1>2, <1>3, <1>4, <1>5 DEF Request

\* A status write of the pipeline, refused or not, keeps the task rows well typed.
LEMMA WriteProcessingType ==
    ASSUME TypeOK, NEW t \in TaskIds, NEW p \in Percent, WriteProcessing(t, p)
    PROVE  status' \in [TaskIds -> Status] /\ progress' \in [TaskIds -> Percent]
BY DEF TypeOK, WriteProcessing, Status

\* Choosing the next progress milestone keeps the worker's variables well typed.
LEMMA AfterAdvanceType ==
    ASSUME TypeOK, NEW w \in Workers, AfterAdvance(w)
    PROVE  /\ \E p \in {"read", "summarize", "cleanup"} : Goto(w, p)
           /\ target' \in [Workers -> Percent]
<1>1. \E p \in {"read", "summarize", "cleanup"} : Goto(w, p)
  BY DEF AfterAdvance
<1>2. target' \in [Workers -> Percent]
  BY DEF AfterAdvance, TypeOK, Percent
<1> QED
  BY <1>1, <1>2

\* A write to one output row keeps the rows well typed.
LEMMA OutputType ==
    ASSUME TypeOK, NEW t \in TaskIds, NEW o
    PROVE  /\ \A s \in OutStatus : [ostatus EXCEPT ![t][o] = s] \in [TaskIds -> [Outputs -> OutStatus]]
           /\ \A b \in BOOLEAN : [content EXCEPT ![t][o] = b] \in [TaskIds -> [Outputs -> BOOLEAN]]
<1>1. ASSUME NEW s \in OutStatus
      PROVE  [ostatus EXCEPT ![t][o] = s] \in [TaskIds -> [Outputs -> OutStatus]]
  <2>1. [ostatus[t] EXCEPT ![o] = s] \in [Outputs -> OutStatus]
    BY DEF TypeOK
  <2> QED
    BY <2>1 DEF TypeOK
<1>2. ASSUME NEW b \in BOOLEAN
      PROVE  [content EXCEPT ![t][o] = b] \in [TaskIds -> [Outputs -> BOOLEAN]]
  <2>1. [content[t] EXCEPT ![o] = b] \in [Outputs -> BOOLEAN]
    BY DEF TypeOK
  <2> QED
    BY <2>1 DEF TypeOK
<1> QED
  BY <1>1, <1>2

\* Copying the cached rows keeps the output rows well typed.
LEMMA CopyOutputsType ==
    ASSUME TypeOK, NEW t \in TaskIds, NEW c \in TaskIds, NEW O, CopyOutputs(t, c, O)
    PROVE  /\ ostatus' \in [TaskIds -> [Outputs -> OutStatus]]
           /\ content' \in [TaskIds -> [Outputs -> BOOLEAN]]
<1>1. [o \in Outputs |-> IF o \in O THEN "completed" ELSE ostatus[t][o]] \in [Outputs -> OutStatus]
  BY DEF TypeOK, OutStatus, Status
<1>2. [o \in Outputs |-> IF o \in O THEN content[c][o] ELSE content[t][o]] \in [Outputs -> BOOLEAN]
  BY DEF TypeOK
<1> QED
  BY <1>1, <1>2 DEF CopyOutputs, TypeOK

\* A step of the pipeline graph keeps every variable in its type.
LEMMA PipelineType ==
    ASSUME TypeOK, NEW w \in Workers, Pipeline(w), Task(w) \in TaskIds
    PROVE  TypeOK'
<1>1. CASE CacheMiss(w)
  BY <1>1, Literals, GotoType DEF CacheMiss, TypeOK
<1>2. CASE CacheHit(w)
  <2>1. PICK c \in Newest(Scripted(url[Task(w)])) : \E R \in ReusedSummaries(c) :
            /\ CopyOutputs(Task(w), c, (CompletedRows(c) \cap {"script", "script_raw"}) \cup R)
            /\ Goto(w, IF R = {} THEN "cognition" ELSE "cleanup")
    BY <1>2 DEF CacheHit
  <2>3. c \in TaskIds
    BY DEF Newest, Scripted
  <2>4. Goto(w, "cognition") \/ Goto(w, "cleanup")
    BY <2>1
  <2>5. /\ ostatus' \in [TaskIds -> [Outputs -> OutStatus]]
        /\ content' \in [TaskIds -> [Outputs -> BOOLEAN]]
    BY <2>1, <2>3, CopyOutputsType
  <2>2. text' \in [Workers -> BOOLEAN]
    BY <1>2 DEF CacheHit, TypeOK
  <2> QED
    BY <1>2, <2>2, <2>4, <2>5, Literals, GotoType DEF CacheHit, TypeOK
<1>3. CASE EnsureOutputs(w)
  <2>1. ostatus' \in [TaskIds -> [Outputs -> OutStatus]]
    <3>1. "script_raw" \in Outputs /\ "pending" \in OutStatus
      BY DEF Outputs, OutStatus, Status
    <3> QED
      BY <1>3, <3>1 DEF EnsureOutputs, TypeOK
  <2> QED
    BY <1>3, <2>1, Literals, GotoType DEF EnsureOutputs, TypeOK
<1>4. CASE Supadata(w)
  <2>1. Goto(w, "raw") \/ Goto(w, "vtt")
    BY <1>4 DEF Supadata
  <2>2. status' \in [TaskIds -> Status] /\ progress' \in [TaskIds -> Percent]
    BY <1>4, WriteProcessingType DEF Supadata, Percent
  <2> QED
    BY <1>4, <2>1, <2>2, Literals, GotoType DEF Supadata, WriteProcessing, TypeOK
<1>5. CASE Vtt(w)
  <2>1. Goto(w, "raw") \/ Goto(w, "nocaptions")
    BY <1>5 DEF Vtt
  <2>2. status' \in [TaskIds -> Status] /\ progress' \in [TaskIds -> Percent]
    BY <1>5, WriteProcessingType DEF Vtt, Percent
  <2> QED
    BY <1>5, <2>1, <2>2, Literals, GotoType DEF Vtt, WriteProcessing, TypeOK
<1>6. CASE FailCaption(w)
  <2>1. CASE status[Task(w)] = "completed" \/ ScriptReady(Task(w))
    BY <1>6, <2>1, Literals, GotoType DEF FailCaption, TypeOK
  <2>2. CASE ~(status[Task(w)] = "completed" \/ ScriptReady(Task(w)))
    <3>1. /\ status' \in [TaskIds -> Status]
          /\ err' \in [TaskIds -> ErrClass]
          /\ debit' \in [TaskIds -> {"none", "open", "refunded"}]
      <4>1. /\ status' = [status EXCEPT ![Task(w)] = "error"]
            /\ err' = [err EXCEPT ![Task(w)] = "caption"]
            /\ debit' = [debit EXCEPT ![Task(w)] = IF @ = "open" THEN "refunded" ELSE @]
        BY <1>6, <2>2 DEF FailCaption
      <4> QED
        BY <4>1 DEF TypeOK, Status, ErrClass
    <3>2. ostatus' \in [TaskIds -> [Outputs -> OutStatus]]
      <4>1. ostatus' = [ostatus EXCEPT ![Task(w)] =
                    [o \in Outputs |-> IF @[o] \in {"none", "completed"} THEN @[o] ELSE "error"]]
        BY <1>6, <2>2 DEF FailCaption
      <4> QED
        BY <4>1 DEF TypeOK, Status, OutStatus
    <3>3. errs' \in [Workers -> ErrClass] /\ Goto(w, "cognition")
      BY <1>6, <2>2 DEF FailCaption, TypeOK, ErrClass
    <3> QED
      BY <1>6, <3>1, <3>2, <3>3, Literals, GotoType DEF FailCaption, TypeOK
  <2> QED
    BY <2>1, <2>2
<1>7. ASSUME NEW here \in PCs, NEW there \in PCs, NEW o \in Outputs, Persist(w, here, there, o)
      PROVE  TypeOK'
  BY <1>7, GotoType DEF Persist, OutStatus, Status, TypeOK
<1>8. CASE PersistRaw(w)
  BY <1>8, <1>7 DEF PersistRaw, Outputs, PCs, Running
<1>9. CASE PersistScript(w)
  BY <1>9, <1>7 DEF PersistScript, Outputs, PCs, Running
<1>10. CASE SkipCognition(w)
  BY <1>10, Literals, GotoType DEF SkipCognition, ErrClass, TypeOK
<1>11. CASE StartCognition(w)
  BY <1>11, Literals, GotoType DEF StartCognition, Percent, TypeOK
<1>12. CASE AdvanceRead(w)
  <2>1. CASE target[w] > progress[Task(w)]
    BY <1>12, <2>1, Literals, GotoType DEF AdvanceRead, TypeOK
  <2>2. CASE ~(target[w] > progress[Task(w)])
    BY <1>12, <2>2, Literals, GotoType, AfterAdvanceType DEF AdvanceRead, TypeOK
  <2> QED
    BY <2>1, <2>2
<1>13. CASE AdvanceWrite(w)
  <2>1. target[w] \in Percent
    BY DEF TypeOK
  <2>2. status' \in [TaskIds -> Status] /\ progress' \in [TaskIds -> Percent]
    BY <1>13, <2>1, WriteProcessingType DEF AdvanceWrite
  <2> QED
    BY <1>13, <2>2, Literals, GotoType, AfterAdvanceType DEF AdvanceWrite, WriteProcessing, TypeOK
<1>14. CASE Summarize(w)
  <2>1. Goto(w, "read") \/ Goto(w, "save")
    BY <1>14 DEF Summarize
  <2>2. target' \in [Workers -> Percent]
    <3>1. target' = [target EXCEPT ![w] = 92] \/ target' = target
      BY <1>14 DEF Summarize
    <3>2. 92 \in Percent /\ target \in [Workers -> Percent]
      BY DEF TypeOK, Percent
    <3>3. CASE target' = [target EXCEPT ![w] = 92]
      BY <3>2, <3>3
    <3> QED
      BY <3>1, <3>2, <3>3
  <2> QED
    BY <1>14, <2>1, <2>2, Literals, GotoType DEF Summarize, TypeOK
<1>15. CASE SaveSummary(w)
  <2>1. ostatus' \in [TaskIds -> [Outputs -> OutStatus]]
    BY <1>15 DEF SaveSummary, TypeOK, OutStatus, Status
  <2>2. content' \in [TaskIds -> [Outputs -> BOOLEAN]]
    BY <1>15 DEF SaveSummary, TypeOK
  <2>3. target' \in [Workers -> Percent] /\ Goto(w, "read")
    BY <1>15 DEF SaveSummary, TypeOK, Percent
  <2> QED
    BY <1>15, <2>1, <2>2, <2>3, Literals, GotoType DEF SaveSummary, TypeOK
<1>16. CASE SummaryFails(w)
  <2>1. ostatus' \in [TaskIds -> [Outputs -> OutStatus]]
    BY <1>16 DEF SummaryFails, TypeOK, OutStatus, Status
  <2>2. content' \in [TaskIds -> [Outputs -> BOOLEAN]]
    BY <1>16 DEF SummaryFails, TypeOK
  <2>3. errs' \in [Workers -> ErrClass] /\ Goto(w, "cleanup")
    BY <1>16 DEF SummaryFails, TypeOK, ErrClass
  <2> QED
    BY <1>16, <2>1, <2>2, <2>3, Literals, GotoType DEF SummaryFails, TypeOK
<1>17. CASE Cleanup(w)
  <2>1. Goto(w, "done") \/ Goto(w, "reject") \/ Goto(w, "failed")
    BY <1>17 DEF Cleanup
  <2>2. status' \in [TaskIds -> Status] /\ progress' \in [TaskIds -> Percent]
    BY <1>17 DEF Cleanup, TypeOK, Status, Percent
  <2>3. err' \in [TaskIds -> ErrClass]
    BY <1>17 DEF Cleanup, TypeOK
  <2> QED
    BY <1>17, <2>1, <2>2, <2>3, Literals, GotoType DEF Cleanup, TypeOK
<1>18. CASE RetryStart(w)
  <2>1. \E p \in {"rewrite", "failed", "reject"} : Goto(w, p)
    BY <1>18 DEF RetryStart
  <2>2. ostatus' = [ostatus EXCEPT ![Task(w)][Part(w)] = "processing"] \/ ostatus' = ostatus
    BY <1>18 DEF RetryStart
  <2>3. ostatus' \in [TaskIds -> [Outputs -> OutStatus]]
    <3>1. "processing" \in OutStatus /\ ostatus \in [TaskIds -> [Outputs -> OutStatus]]
      BY DEF TypeOK, OutStatus, Status
    <3>2. [ostatus EXCEPT ![Task(w)][Part(w)] = "processing"] \in [TaskIds -> [Outputs -> OutStatus]]
      BY <3>1, OutputType
    <3> QED
      BY <2>2, <3>1, <3>2
  <2> QED
    BY <1>18, <2>1, <2>3, Literals, GotoType DEF RetryStart, TypeOK
<1>19. CASE RetryFinish(w)
  <2>1. CASE Goto(w, "failed") /\ UNCHANGED outVars
    BY <1>19, <2>1, Literals, GotoType DEF RetryFinish, TypeOK
  <2>2. CASE ~(Goto(w, "failed") /\ UNCHANGED outVars)
    <3>1. /\ ostatus' = [ostatus EXCEPT ![Task(w)][Part(w)] = "completed"]
          /\ content' = [content EXCEPT ![Task(w)][Part(w)] = TRUE]
          /\ Goto(w, "done")
      BY <1>19, <2>2 DEF RetryFinish
    <3>2. /\ ostatus' \in [TaskIds -> [Outputs -> OutStatus]]
          /\ content' \in [TaskIds -> [Outputs -> BOOLEAN]]
      BY <3>1, OutputType DEF OutStatus, Status
    <3> QED
      BY <1>19, <3>1, <3>2, Literals, GotoType DEF RetryFinish, TypeOK
  <2> QED
    BY <2>1, <2>2
<1> QED
  BY <1>1, <1>2, <1>3, <1>4, <1>5, <1>6, <1>8, <1>9, <1>10, <1>11, <1>12,
     <1>13, <1>14, <1>15, <1>16, <1>17, <1>18, <1>19 DEF Pipeline

\* So does a step that reads, validates, defers or archives a message.
LEMMA DeliveryType ==
    ASSUME TypeOK, NEW w \in Workers, WorkerStep(w) \/ Heartbeat(w), ~Pipeline(w),
           pc[w] # "idle" => Task(w) \in TaskIds /\ Part(w) \in Parts
    PROVE  TypeOK'
<1>1. ASSUME NEW j \in JobIds, Read(w, j) PROVE TypeOK'
  BY <1>1, Literals, GotoType DEF Read, TypeOK
<1>2. CASE Validate(w)
  BY <1>2, Literals, GotoType DEF Validate, TypeOK
<1>3. CASE ArchiveInvalid(w)
  BY <1>3, ReleaseType DEF ArchiveInvalid, TypeOK
<1>4. CASE Heartbeat(w)
  BY <1>4 DEF Heartbeat, TypeOK
<1>5. CASE HeartbeatLost(w)
  BY <1>5, ReleaseType DEF HeartbeatLost, TypeOK
<1>6. CASE Dispatch(w)
  <2>1. \E p \in {"done", "reject", "cache", "retry"} : Goto(w, p)
    BY <1>6 DEF Dispatch
  <2>2. errs' = errs \/ errs' = [errs EXCEPT ![w] = "caption"]
    BY <1>6 DEF Dispatch
  <2> QED
    BY <1>6, <2>1, <2>2, Literals, GotoType DEF Dispatch, ErrClass, TypeOK
<1>7. CASE MarkFailed(w)
  <2>1. Task(w) \in TaskIds
    BY <1>7 DEF MarkFailed
  <2>2. CASE Part(w) = "task"
    <3>1. CASE status[Task(w)] # "completed"
      <4>1. /\ status' = [status EXCEPT ![Task(w)] = "error"]
            /\ \E e \in {"caption", "other"} : err' = [err EXCEPT ![Task(w)] = e]
        BY <1>7, <2>2, <3>1 DEF MarkFailed, MarkTaskFailed
      <4>2. status' \in [TaskIds -> Status] /\ err' \in [TaskIds -> ErrClass]
        BY <2>1, <4>1 DEF TypeOK, Status, ErrClass
      <4> QED
        BY <1>7, <2>2, <4>2, Literals, GotoType DEF MarkFailed, TypeOK
    <3>2. CASE status[Task(w)] = "completed"
      BY <1>7, <2>2, <3>2, Literals, GotoType DEF MarkFailed, MarkTaskFailed, TypeOK
    <3> QED
      BY <3>1, <3>2
  <2>3. CASE Part(w) # "task"
    <3>1. ostatus' \in [TaskIds -> [Outputs -> OutStatus]]
      <4>1. \/ ostatus' = [ostatus EXCEPT ![Task(w)][Part(w)] = "error"]
            \/ ostatus' = [ostatus EXCEPT ![Task(w)][Part(w)] = ostatus[Task(w)][Part(w)]]
        BY <1>7, <2>1, <2>3 DEF MarkFailed, TypeOK
      <4>2. "error" \in OutStatus /\ ostatus[Task(w)][Part(w)] \in OutStatus
        <5>1. Part(w) \in Outputs
          BY <1>7, <2>3 DEF MarkFailed, Parts
        <5> QED
          BY <2>1, <5>1 DEF TypeOK, OutStatus, Status
      <4>3. [ostatus EXCEPT ![Task(w)][Part(w)] = "error"] \in [TaskIds -> [Outputs -> OutStatus]]
        BY <2>1, <4>2, OutputType
      <4>4. [ostatus EXCEPT ![Task(w)][Part(w)] = ostatus[Task(w)][Part(w)]]
                \in [TaskIds -> [Outputs -> OutStatus]]
        BY <2>1, <4>2, OutputType
      <4> QED
        BY <4>1, <4>3, <4>4
    <3> QED
      BY <1>7, <2>3, <3>1, Literals, GotoType DEF MarkFailed, TypeOK
  <2> QED
    BY <2>2, <2>3
<1>8. CASE Defer(w)
  BY <1>8, ReleaseType DEF Defer, TypeOK
<1>9. ASSUME NEW here, NEW outcome \in {"completed", "failed"}, Archive(w, here, outcome)
      PROVE  TypeOK'
  <2>1. CASE handoff[job[w]] = "queued"
    <3>1. /\ queue' = [queue EXCEPT ![job[w]] = "archived"]
          /\ handoff' = [handoff EXCEPT ![job[w]] = outcome]
      BY <1>9, <2>1 DEF Archive
    <3>2. /\ queue' \in [JobIds -> {"unsent", "visible", "hidden", "archived"}]
          /\ handoff' \in [JobIds -> {"none", "queued", "completed", "failed"}]
      BY <3>1 DEF TypeOK
    <3> QED
      BY <1>9, <3>2, ReleaseType DEF Archive, TypeOK
  <2>2. CASE handoff[job[w]] # "queued"
    BY <1>9, <2>2, ReleaseType DEF Archive, TypeOK
  <2> QED
    BY <2>1, <2>2
<1>10. CASE ArchiveCompleted(w)
  BY <1>10, <1>9 DEF ArchiveCompleted
<1>11. CASE ArchiveFailed(w)
  BY <1>11, <1>9 DEF ArchiveFailed
<1> QED
  BY <1>1, <1>2, <1>3, <1>4, <1>5, <1>6, <1>7, <1>8, <1>10, <1>11 DEF WorkerStep

\* So does a fault.
LEMMA FaultType ==
    ASSUME TypeOK, Faulty, \A w \in Workers : pc[w] # "idle" => Task(w) \in TaskIds
    PROVE  TypeOK'
<1>0. ASSUME NEW k, Fault(k) PROVE faults' \in 0..MaxFaults
  BY <1>0, PipelineAssumption DEF Fault, TypeOK
<1>1. ASSUME NEW j \in JobIds, Stall(j) PROVE TypeOK'
  BY <1>1, <1>0 DEF Stall, TypeOK
<1>2. ASSUME NEW w \in Workers, Raise(w) PROVE TypeOK'
  BY <1>2, <1>0, Literals, GotoType DEF Raise, TypeOK
<1>3. ASSUME NEW w \in Workers, Crash(w) PROVE TypeOK'
  BY <1>3, <1>0, ReleaseType DEF Crash, TypeOK
<1>4. ASSUME NEW w \in Workers, CacheHitFails(w) PROVE TypeOK'
  <2>1. PICK c \in Newest(Scripted(url[Task(w)])) : \E O \in SUBSET CompletedRows(c) :
            /\ CopyOutputs(Task(w), c, O)
            /\ \/ Goto(w, IF O \cap Locales = {} THEN "cognition" ELSE "cleanup")
               \/ "script" \notin O /\ Goto(w, "ingest")
            /\ text' = [text EXCEPT ![w] = "script" \in O]
    BY <1>4 DEF CacheHitFails
  <2>4. c \in TaskIds
    BY DEF Newest, Scripted
  <2>5. Goto(w, "cognition") \/ Goto(w, "cleanup") \/ Goto(w, "ingest")
    BY <2>1
  <2>2. Task(w) \in TaskIds
    BY <1>4 DEF CacheHitFails
  <2>3. text' \in [Workers -> BOOLEAN]
    BY <2>1 DEF TypeOK
  <2> QED
    <3>1. /\ ostatus' \in [TaskIds -> [Outputs -> OutStatus]]
          /\ content' \in [TaskIds -> [Outputs -> BOOLEAN]]
      BY <2>1, <2>2, <2>4, CopyOutputsType
    <3> QED
      BY <1>4, <1>0, <2>3, <2>5, <3>1, Literals, GotoType DEF CacheHitFails, TypeOK
<1>5. ASSUME NEW w \in Workers, SummarizeRaises(w) PROVE TypeOK'
  BY <1>5, <1>0, Literals, GotoType DEF SummarizeRaises, ErrClass, TypeOK
<1>6. ASSUME NEW w \in Workers, CrashCopying(w) PROVE TypeOK'
  <2>1. PICK c \in Newest(Scripted(url[Task(w)])) : \E O : CopyOutputs(Task(w), c, O)
    BY <1>6 DEF CrashCopying
  <2>2. c \in TaskIds /\ Task(w) \in TaskIds
    BY <1>6 DEF CrashCopying, Newest, Scripted
  <2>3. /\ ostatus' \in [TaskIds -> [Outputs -> OutStatus]]
        /\ content' \in [TaskIds -> [Outputs -> BOOLEAN]]
    BY <2>1, <2>2, CopyOutputsType
  <2> QED
    BY <1>6, <1>0, <2>3, ReleaseType DEF CrashCopying, TypeOK
<1> QED
  BY <1>1, <1>2, <1>3, <1>4, <1>5, <1>6 DEF Faulty

-----------------------------------------------------------------------------
(* What a step of the graph leaves alone. *)

\* The program counters of a worker that runs the graph for a process_video job.
TaskPCs == {"cache", "ingest", "supadata", "vtt", "nocaptions", "raw", "script",
            "cognition", "read", "write", "summarize", "save", "cleanup"}

\* A jump moves one worker and no other.
LEMMA GotoFrame ==
    ASSUME TypeOK, NEW w \in Workers, NEW p, Goto(w, p)
    PROVE  pc'[w] = p /\ \A v \in Workers : v # w => pc'[v] = pc[v]
BY DEF TypeOK, Goto

\* A worker that lets go is idle, and no other worker moves.
LEMMA ReleaseFrame ==
    ASSUME TypeOK, NEW w \in Workers, Release(w)
    PROVE  pc'[w] = "idle" /\ \A v \in Workers : v # w => pc'[v] = pc[v] /\ job'[v] = job[v]
BY DEF TypeOK, Release

\* The status of task t stays what it is for every other task and never goes back to "none".
LEMMA WriteProcessingFrame ==
    ASSUME TypeOK, NEW t \in TaskIds, NEW p, WriteProcessing(t, p), status[t] # "none"
    PROVE  /\ \A s \in TaskIds : s # t => status'[s] = status[s]
           /\ status'[t] # "none"
           /\ status'[t] = "completed" => status[t] = "completed"
BY DEF TypeOK, WriteProcessing

\* Copying the cached rows touches the rows of one task only.
LEMMA CopyOutputsFrame ==
    ASSUME TypeOK, NEW t \in TaskIds, NEW c, NEW O, CopyOutputs(t, c, O)
    PROVE  \A s \in TaskIds : s # t => ostatus'[s] = ostatus[s]
BY DEF TypeOK, CopyOutputs

\* Choosing the next milestone moves one worker and stays inside the graph.
LEMMA AfterAdvanceFrame ==
    ASSUME TypeOK, NEW w \in Workers, AfterAdvance(w)
    PROVE  pc'[w] \in TaskPCs /\ \A v \in Workers : v # w => pc'[v] = pc[v]
<1>1. PICK p \in {"read", "summarize", "cleanup"} : Goto(w, p)
  BY AfterAdvanceType
<1> QED
  BY <1>1, GotoFrame DEF TaskPCs

\* The step does not write the rows of any other task, nor move any other worker.
Isolated(w) ==
    /\ \A v \in Workers : v # w => pc'[v] = pc[v]
    /\ \A t \in TaskIds : t # Task(w) => status'[t] = status[t] /\ ostatus'[t] = ostatus[t]
    /\ status'[Task(w)] # "none"

\* The graph goes on without completing the task, or ends with the task completed.
Continues(w) ==
    \/ /\ pc[w] \in TaskPCs
       /\ pc'[w] \in TaskPCs \cup {"failed", "reject"}
       /\ status'[Task(w)] = "completed" => status[Task(w)] = "completed"
    \/ /\ pc[w] \in TaskPCs
       /\ pc'[w] = "done"
       /\ status'[Task(w)] = "completed"
    \/ /\ pc[w] \in {"retry", "rewrite"}
       /\ pc'[w] \in {"rewrite", "done", "reject", "failed"}
       /\ status' = status

\* A step of the pipeline graph leaves the queue alone and writes the status of its own task only.
LEMMA PipelineFrame ==
    ASSUME TypeOK, NEW w \in Workers, Pipeline(w), Task(w) \in TaskIds, status[Task(w)] # "none"
    PROVE  UNCHANGED <<queueVars, job, attempt, faults>> /\ Isolated(w) /\ Continues(w)
<1> USE DEF Isolated, Continues
<1>1. CASE CacheMiss(w)
  BY <1>1, GotoFrame DEF CacheMiss, TaskPCs, TypeOK
<1>2. CASE CacheHit(w)
  <2>1. PICK c \in Newest(Scripted(url[Task(w)])) : \E R \in ReusedSummaries(c) :
            /\ CopyOutputs(Task(w), c, (CompletedRows(c) \cap {"script", "script_raw"}) \cup R)
            /\ Goto(w, IF R = {} THEN "cognition" ELSE "cleanup")
    BY <1>2 DEF CacheHit
  <2>2. Goto(w, "cognition") \/ Goto(w, "cleanup")
    BY <2>1
  <2>3. \A s \in TaskIds : s # Task(w) => ostatus'[s] = ostatus[s]
    BY <2>1, CopyOutputsFrame
  <2> QED
    BY <1>2, <2>2, <2>3, GotoFrame DEF CacheHit, TaskPCs
<1>3. CASE EnsureOutputs(w)
  BY <1>3, GotoFrame DEF EnsureOutputs, TaskPCs, TypeOK
<1>4. CASE Supadata(w)
  <2>1. Goto(w, "raw") \/ Goto(w, "vtt")
    BY <1>4 DEF Supadata
  <2>2. PICK p : WriteProcessing(Task(w), p)
    BY <1>4 DEF Supadata
  <2> QED
    BY <1>4, <2>1, <2>2, GotoFrame, WriteProcessingFrame DEF Supadata, TaskPCs
<1>5. CASE Vtt(w)
  <2>1. Goto(w, "raw") \/ Goto(w, "nocaptions")
    BY <1>5 DEF Vtt
  <2>2. PICK p : WriteProcessing(Task(w), p)
    BY <1>5 DEF Vtt
  <2> QED
    BY <1>5, <2>1, <2>2, GotoFrame, WriteProcessingFrame DEF Vtt, TaskPCs
<1>6. CASE FailCaption(w)
  <2>1. CASE status[Task(w)] = "completed" \/ ScriptReady(Task(w))
    BY <1>6, <2>1, GotoFrame DEF FailCaption, TaskPCs
  <2>2. CASE ~(status[Task(w)] = "completed" \/ ScriptReady(Task(w)))
    <3>1. /\ status' = [status EXCEPT ![Task(w)] = "error"]
          /\ ostatus' = [ostatus EXCEPT ![Task(w)] =
                [o \in Outputs |-> IF @[o] \in {"none", "completed"} THEN @[o] ELSE "error"]]
          /\ Goto(w, "cognition")
      BY <1>6, <2>2 DEF FailCaption
    <3> QED
      BY <1>6, <3>1, GotoFrame DEF FailCaption, TaskPCs, TypeOK
  <2> QED
    BY <2>1, <2>2
<1>7. CASE PersistRaw(w)
  BY <1>7, GotoFrame DEF PersistRaw, Persist, TaskPCs, TypeOK
<1>8. CASE PersistScript(w)
  BY <1>8, GotoFrame DEF PersistScript, Persist, TaskPCs, TypeOK
<1>9. CASE SkipCognition(w)
  BY <1>9, GotoFrame DEF SkipCognition, TaskPCs, TypeOK
<1>10. CASE StartCognition(w)
  BY <1>10, GotoFrame DEF StartCognition, TaskPCs, TypeOK
<1>11. CASE AdvanceRead(w)
  <2>1. CASE target[w] > progress[Task(w)]
    BY <1>11, <2>1, GotoFrame DEF AdvanceRead, TaskPCs
  <2>2. CASE ~(target[w] > progress[Task(w)])
    <3>1. AfterAdvance(w)
      BY <1>11, <2>2 DEF AdvanceRead
    <3> QED
      BY <1>11, <3>1, AfterAdvanceFrame DEF AdvanceRead, TaskPCs
  <2> QED
    BY <2>1, <2>2
<1>12. CASE AdvanceWrite(w)
  <2>1. AfterAdvance(w) /\ WriteProcessing(Task(w), target[w])
    BY <1>12 DEF AdvanceWrite
  <2>2. pc[w] \in TaskPCs
    BY <1>12 DEF AdvanceWrite, TaskPCs
  <2> QED
    BY <1>12, <2>1, <2>2, AfterAdvanceFrame, WriteProcessingFrame DEF AdvanceWrite
<1>13. CASE Summarize(w)
  <2>1. Goto(w, "read") \/ Goto(w, "save")
    BY <1>13 DEF Summarize
  <2> QED
    BY <1>13, <2>1, GotoFrame DEF Summarize, TaskPCs
<1>14. CASE SaveSummary(w)
  BY <1>14, GotoFrame DEF SaveSummary, TaskPCs, TypeOK
<1>15. CASE SummaryFails(w)
  BY <1>15, GotoFrame DEF SummaryFails, TaskPCs, TypeOK
<1>16. CASE Cleanup(w)
  <2>1. CASE errs[w] = "none"
    <3>1. status' = [status EXCEPT ![Task(w)] = "completed"] /\ Goto(w, "done")
      BY <1>16, <2>1 DEF Cleanup
    <3> QED
      BY <1>16, <3>1, GotoFrame DEF Cleanup, TaskPCs, TypeOK
  <2>2. CASE errs[w] # "none"
    <3>1. status' = [status EXCEPT ![Task(w)] = "error"]
      BY <1>16, <2>2 DEF Cleanup
    <3>2. Goto(w, "reject") \/ Goto(w, "failed")
      BY <1>16, <2>2 DEF Cleanup
    <3> QED
      BY <1>16, <3>1, <3>2, GotoFrame DEF Cleanup, TaskPCs, TypeOK
  <2> QED
    BY <2>1, <2>2
<1>17. CASE RetryStart(w)
  <2>1. \E p \in {"rewrite", "failed", "reject"} : Goto(w, p)
    BY <1>17 DEF RetryStart
  <2>2. ostatus' = [ostatus EXCEPT ![Task(w)][Part(w)] = "processing"] \/ ostatus' = ostatus
    BY <1>17 DEF RetryStart
  <2>3. \A s \in TaskIds : s # Task(w) => ostatus'[s] = ostatus[s]
    BY <2>2 DEF TypeOK
  <2> QED
    BY <1>17, <2>1, <2>3, GotoFrame DEF RetryStart
<1>18. CASE RetryFinish(w)
  <2>1. Goto(w, "done") \/ Goto(w, "failed")
    BY <1>18 DEF RetryFinish
  <2>2. \A s \in TaskIds : s # Task(w) => ostatus'[s] = ostatus[s]
    BY <1>18 DEF RetryFinish, TypeOK
  <2> QED
    BY <1>18, <2>1, <2>2, GotoFrame DEF RetryFinish
<1> QED
  BY <1>1, <1>2, <1>3, <1>4, <1>5, <1>6, <1>7, <1>8, <1>9, <1>10, <1>11, <1>12,
     <1>13, <1>14, <1>15, <1>16, <1>17, <1>18 DEF Pipeline

-----------------------------------------------------------------------------
(* The queue and the handoffs: inductive for every kind of fault. *)

QueueInv == WellFormed /\ QueueMatchesHandoff /\ OneQueuedJobPerKey

\* An enqueue that saw no queued job with its key keeps the queue invariant.
LEMMA SendSafe ==
    ASSUME QueueInv, NEW t \in TaskIds, NEW p \in Parts, Send(t, p), ~Queued(t, p),
           TypeOK', UNCHANGED <<pc, job>>,
           \A s \in TaskIds : status[s] # "none" => status'[s] # "none",
           status'[t] # "none", NewTasks'
    PROVE  QueueInv'
<1>1. PICK j \in JobIds :
            /\ queue[j] = "unsent"
            /\ queue'   = [queue EXCEPT ![j] = "visible"]
            /\ handoff' = [handoff EXCEPT ![j] = "queued"]
            /\ jtask'   = [jtask EXCEPT ![j] = t]
            /\ jpart'   = [jpart EXCEPT ![j] = p]
  BY DEF Send
<1>2. handoff[j] = "none"
  BY <1>1 DEF QueueInv, QueueMatchesHandoff
<1>3. /\ queue'[j] = "visible" /\ handoff'[j] = "queued" /\ jtask'[j] = t /\ jpart'[j] = p
      /\ \A i \in JobIds : i # j => /\ queue'[i] = queue[i] /\ handoff'[i] = handoff[i]
                                    /\ jtask'[i] = jtask[i] /\ jpart'[i] = jpart[i]
  BY <1>1 DEF QueueInv, WellFormed, TypeOK
<1>4. SentJobs'
  BY <1>3 DEF QueueInv, WellFormed, SentJobs
<1>5. HeldJobs'
  BY <1>2, <1>3 DEF QueueInv, WellFormed, HeldJobs
<1>6. QueueMatchesHandoff'
  BY <1>3 DEF QueueInv, QueueMatchesHandoff
<1>7. OneQueuedJobPerKey'
  BY <1>3 DEF QueueInv, OneQueuedJobPerKey, Queued
<1> QED
  BY <1>4, <1>5, <1>6, <1>7 DEF QueueInv, WellFormed

\* A step that sends nothing keeps it if it only closes handoffs, keeps message and handoff in
\* step, works on existing tasks and holds sent jobs.
LEMMA QueueStep ==
    ASSUME QueueInv, TypeOK', UNCHANGED <<jtask, jpart>>,
           \A j \in JobIds : handoff'[j] = handoff[j] \/ (handoff[j] = "queued" /\ handoff'[j] \in {"completed", "failed"}),
           QueueMatchesHandoff',
           \A t \in TaskIds : status[t] # "none" => status'[t] # "none",
           \A t \in TaskIds : status[t] = "none" => ostatus'[t] = ostatus[t],
           \A w \in Workers : pc'[w] # "idle" => job'[w] \in JobIds /\ handoff[job'[w]] # "none"
    PROVE  QueueInv'
<1>1. SentJobs'
  BY DEF QueueInv, WellFormed, SentJobs
<1>2. HeldJobs'
  BY DEF HeldJobs
<1>3. NewTasks'
  BY DEF QueueInv, WellFormed, NewTasks
<1>4. OneQueuedJobPerKey'
  BY DEF QueueInv, OneQueuedJobPerKey
<1> QED
  BY <1>1, <1>2, <1>3, <1>4 DEF QueueInv, WellFormed

\* A submission or a retry keeps the queue invariant: each checks its job key before it sends.
LEMMA RequestSafe ==
    ASSUME QueueInv, Request
    PROVE  QueueInv'
<1> TypeOK /\ TypeOK'
  BY RequestType DEF QueueInv, WellFormed
<1>1. ASSUME NEW u \in Urls, ReuseInflight(u) PROVE QueueInv'
  <2>1. PICK t \in TaskIds : Send(t, "task") /\ ~Queued(t, "task") /\ status[t] \in {"pending", "processing"}
    BY <1>1 DEF ReuseInflight, Newest, Live
  <2>2. NewTasks'
    BY <1>1 DEF ReuseInflight, QueueInv, WellFormed, NewTasks
  <2>3. "task" \in Parts
    BY DEF Parts
  <2> QED
    BY <1>1, <2>1, <2>2, <2>3, SendSafe DEF ReuseInflight
<1>2. ASSUME NEW u \in Urls, NEW l \in Locales, ReuseScript(u, l) PROVE QueueInv'
  <2>1. PICK t \in TaskIds : /\ ostatus' = [ostatus EXCEPT ![t][l] = "pending"]
                             /\ SendUnlessQueued(t, l)
                             /\ ostatus[t]["script"] = "completed"
    BY <1>2 DEF ReuseScript, Newest, Scripted, ScriptReady
  <2>2. status[t] # "none"
    BY <2>1 DEF QueueInv, WellFormed, NewTasks, Outputs
  <2>3. NewTasks'
    <3>1. status' = status
      BY <1>2 DEF ReuseScript
    <3>2. \A s \in TaskIds : s # t => ostatus'[s] = ostatus[s]
      BY <2>1 DEF TypeOK
    <3> QED
      BY <2>2, <3>1, <3>2 DEF QueueInv, WellFormed, NewTasks
  <2>4. CASE Queued(t, l)
    <3>1. UNCHANGED <<queueVars, taskVars, workerVars>>
      BY <1>2, <2>1, <2>4 DEF ReuseScript, SendUnlessQueued
    <3> QED
      BY <3>1, <2>3 DEF QueueInv, WellFormed, SentJobs, HeldJobs, QueueMatchesHandoff, OneQueuedJobPerKey
  <2>5. CASE ~Queued(t, l)
    <3>1. Send(t, l) /\ l \in Parts
      BY <2>1, <2>5 DEF SendUnlessQueued, Parts, Outputs
    <3> QED
      BY <1>2, <2>2, <2>3, <2>5, <3>1, SendSafe DEF ReuseScript
  <2> QED
    BY <2>4, <2>5
<1>3. ASSUME NEW u \in Urls, NEW l \in Locales, SubmitNew(u, l) PROVE QueueInv'
  <2>1. PICK t \in TaskIds :
            /\ status[t] = "none"
            /\ status'  = [status EXCEPT ![t] = "pending"]
            /\ ostatus' = [ostatus EXCEPT ![t]["script"] = "pending", ![t][l] = "pending"]
            /\ Send(t, "task")
    BY <1>3 DEF SubmitNew
  <2>2. ~Queued(t, "task")
    BY <2>1 DEF Queued, QueueInv, WellFormed, SentJobs
  <2>3. /\ status'[t] = "pending"
        /\ \A s \in TaskIds : s # t => status'[s] = status[s] /\ ostatus'[s] = ostatus[s]
    BY <2>1 DEF TypeOK
  <2>4. NewTasks'
    BY <2>3 DEF QueueInv, WellFormed, NewTasks
  <2>5. "task" \in Parts
    BY DEF Parts
  <2>6. UNCHANGED <<pc, job>>
    BY <1>3 DEF SubmitNew
  <2> QED
    BY <2>1, <2>2, <2>3, <2>4, <2>5, <2>6, SendSafe
<1>4. ASSUME NEW t \in TaskIds, RetryTask(t) PROVE QueueInv'
  <2>1. /\ status[t] = "error" /\ ~Queued(t, "task") /\ Send(t, "task")
        /\ status' = [status EXCEPT ![t] = "pending"]
        /\ UNCHANGED <<pc, job>>
    BY <1>4 DEF RetryTask
  <2>2. /\ status'[t] = "pending"
        /\ \A s \in TaskIds : s # t => status'[s] = status[s] /\ ostatus'[s] = ostatus[s]
    BY <1>4, <2>1 DEF RetryTask, TypeOK
  <2>3. NewTasks'
    BY <2>2 DEF QueueInv, WellFormed, NewTasks
  <2>4. "task" \in Parts
    BY DEF Parts
  <2> QED
    BY <2>1, <2>2, <2>3, <2>4, SendSafe
<1>5. ASSUME NEW t \in TaskIds, NEW o \in Outputs, RetryOutput(t, o) PROVE QueueInv'
  <2>1. /\ ostatus[t][o] # "none" /\ ~Queued(t, o) /\ Send(t, o)
        /\ ostatus' = [ostatus EXCEPT ![t][o] = "pending"]
        /\ UNCHANGED <<status, pc, job>>
    BY <1>5 DEF RetryOutput
  <2>2. status[t] # "none"
    BY <2>1 DEF QueueInv, WellFormed, NewTasks
  <2>3. NewTasks'
    BY <2>1, <2>2 DEF QueueInv, WellFormed, NewTasks, TypeOK
  <2>4. o \in Parts
    BY DEF Parts
  <2> QED
    BY <2>1, <2>2, <2>3, <2>4, SendSafe
<1> QED
  BY <1>1, <1>2, <1>3, <1>4, <1>5 DEF Request

\* A step of a worker keeps the queue invariant.
LEMMA WorkerSafe ==
    ASSUME QueueInv, NEW w \in Workers, WorkerStep(w) \/ Heartbeat(w)
    PROVE  QueueInv'
<1> TypeOK
  BY DEF QueueInv, WellFormed
<1>0. pc[w] # "idle" => /\ Task(w) \in TaskIds /\ Part(w) \in Parts /\ job[w] \in JobIds
                        /\ handoff[job[w]] # "none" /\ status[Task(w)] # "none"
  BY HeldTask DEF QueueInv
<1>held. \A v \in Workers : pc[v] # "idle" => job[v] \in JobIds /\ handoff[job[v]] # "none"
  BY DEF QueueInv, WellFormed, HeldJobs
<1>1. CASE Pipeline(w)
  <2>0. pc[w] # "idle"
    BY <1>1 DEF Pipeline, CacheMiss, CacheHit, EnsureOutputs, Supadata, Vtt, FailCaption, PersistRaw,
         PersistScript, Persist, SkipCognition, StartCognition, AdvanceRead, AdvanceWrite, Summarize,
         SaveSummary, SummaryFails, Cleanup, RetryStart, RetryFinish
  <2>1. TypeOK'
    BY <1>0, <1>1, <2>0, PipelineType
  <2>2. UNCHANGED <<queueVars, job>> /\ Isolated(w)
    BY <1>0, <1>1, <2>0, PipelineFrame
  <2>3. QueueMatchesHandoff'
    BY <2>2 DEF QueueInv, QueueMatchesHandoff
  <2>4. \A v \in Workers : pc'[v] # "idle" => job'[v] \in JobIds /\ handoff[job'[v]] # "none"
    BY <1>held, <2>0, <2>2 DEF Isolated
  <2>5. \A t \in TaskIds : /\ status[t] # "none" => status'[t] # "none"
                           /\ status[t] = "none" => ostatus'[t] = ostatus[t]
    BY <1>0, <2>0, <2>2 DEF Isolated
  <2> QED
    BY <2>1, <2>2, <2>3, <2>4, <2>5, QueueStep
<1>2. CASE ~Pipeline(w)
  <2> TypeOK'
    BY <1>0, <1>2, DeliveryType
  <2>1. ASSUME NEW j \in JobIds, Read(w, j) PROVE QueueInv'
    <3>1. /\ queue[j] = "visible" /\ queue' = [queue EXCEPT ![j] = "hidden"]
          /\ job' = [job EXCEPT ![w] = j]
          /\ Goto(w, "validate")
          /\ UNCHANGED <<taskVars, outVars, handoff, jtask, jpart>>
      BY <2>1 DEF Read
    <3>2. handoff[j] = "queued"
      BY <3>1 DEF QueueInv, QueueMatchesHandoff
    <3>3. QueueMatchesHandoff'
      BY <3>1, <3>2 DEF QueueInv, QueueMatchesHandoff, TypeOK
    <3>4. \A v \in Workers : pc'[v] # "idle" => job'[v] \in JobIds /\ handoff[job'[v]] # "none"
      BY <1>held, <3>1, <3>2, GotoFrame DEF TypeOK
    <3> QED
      BY <3>1, <3>3, <3>4, QueueStep
  <2>2. CASE Validate(w) \/ Dispatch(w)
    <3>1. UNCHANGED <<taskVars, outVars, queueVars, job>>
      BY <2>2 DEF Validate, Dispatch
    <3>2. pc[w] # "idle" /\ \E p : Goto(w, p)
      BY <2>2 DEF Validate, Dispatch
    <3>3. \A v \in Workers : pc'[v] # "idle" => job'[v] \in JobIds /\ handoff[job'[v]] # "none"
      BY <1>held, <3>1, <3>2, GotoFrame
    <3>4. QueueMatchesHandoff'
      BY <3>1 DEF QueueInv, QueueMatchesHandoff
    <3> QED
      BY <3>1, <3>3, <3>4, QueueStep
  <2>3. ASSUME Release(w),
               UNCHANGED <<taskVars, outVars, jtask, jpart>>,
               \A j \in JobIds : handoff'[j] = handoff[j] \/ (handoff[j] = "queued" /\ handoff'[j] \in {"completed", "failed"}),
               QueueMatchesHandoff'
        PROVE  QueueInv'
    <3>1. \A v \in Workers : pc'[v] # "idle" => job'[v] \in JobIds /\ handoff[job'[v]] # "none"
      BY <1>held, <2>3, ReleaseFrame
    <3> QED
      BY <2>3, <3>1, QueueStep
  <2>4. CASE ArchiveInvalid(w)
    <3>1. /\ handoff[job[w]] # "queued" /\ pc[w] = "validate"
          /\ queue' = [queue EXCEPT ![job[w]] = "archived"]
      BY <2>4 DEF ArchiveInvalid
    <3>2. job[w] \in JobIds /\ handoff[job[w]] # "none"
      BY <1>0, <3>1
    <3>3. queue[job[w]] = "archived"
      BY <3>1, <3>2 DEF QueueInv, QueueMatchesHandoff, TypeOK
    <3>4. queue' = queue
      BY <3>1, <3>3 DEF TypeOK
    <3>5. QueueMatchesHandoff'
      BY <2>4, <3>4 DEF ArchiveInvalid, QueueInv, QueueMatchesHandoff
    <3> QED
      BY <2>4, <2>3, <3>5 DEF ArchiveInvalid
  <2>5. CASE HeartbeatLost(w)
    <3>1. QueueMatchesHandoff'
      BY <2>5 DEF HeartbeatLost, QueueInv, QueueMatchesHandoff
    <3> QED
      BY <2>5, <2>3, <3>1 DEF HeartbeatLost
  <2>6. CASE Heartbeat(w)
    <3>1. /\ queue[job[w]] = "visible" /\ queue' = [queue EXCEPT ![job[w]] = "hidden"]
          /\ UNCHANGED <<taskVars, outVars, handoff, jtask, jpart, pc, job>>
      BY <2>6 DEF Heartbeat
    <3>2. QueueMatchesHandoff'
      BY <3>1 DEF QueueInv, QueueMatchesHandoff, TypeOK
    <3> QED
      BY <1>held, <3>1, <3>2, QueueStep
  <2>7. CASE MarkFailed(w)
    <3>1. pc[w] # "idle" /\ Goto(w, "buried") /\ UNCHANGED <<queueVars, job>>
      BY <2>7 DEF MarkFailed
    <3>2. \A v \in Workers : pc'[v] # "idle" => job'[v] \in JobIds /\ handoff[job'[v]] # "none"
      BY <1>held, <3>1, GotoFrame
    <3>3. QueueMatchesHandoff'
      BY <3>1 DEF QueueInv, QueueMatchesHandoff
    <3>4. /\ \A t \in TaskIds : t # Task(w) => status'[t] = status[t] /\ ostatus'[t] = ostatus[t]
          /\ status'[Task(w)] # "none"
      BY <1>0, <2>7, <3>1 DEF MarkFailed, MarkTaskFailed, TypeOK
    <3> QED
      BY <1>0, <3>1, <3>2, <3>3, <3>4, QueueStep
  <2>8. CASE Defer(w)
    <3>1. /\ pc[w] = "failed" /\ Release(w) /\ UNCHANGED <<taskVars, outVars, handoff, jtask, jpart>>
          /\ queue' = [queue EXCEPT ![job[w]] = IF @ = "archived" THEN @ ELSE "hidden"]
      BY <2>8 DEF Defer
    <3>2. job[w] \in JobIds /\ handoff[job[w]] # "none"
      BY <1>0, <3>1
    <3>3. QueueMatchesHandoff'
      BY <3>1, <3>2 DEF QueueInv, QueueMatchesHandoff, TypeOK
    <3> QED
      BY <2>3, <3>1, <3>3
  <2>9. ASSUME NEW here, NEW outcome \in {"completed", "failed"}, Archive(w, here, outcome)
        PROVE  QueueInv'
    <3>1. Release(w) /\ UNCHANGED <<taskVars, outVars, jtask, jpart>>
      BY <2>9 DEF Archive
    <3>2. CASE handoff[job[w]] = "queued"
      <4>1. /\ queue' = [queue EXCEPT ![job[w]] = "archived"]
            /\ handoff' = [handoff EXCEPT ![job[w]] = outcome]
        BY <2>9, <3>2 DEF Archive
      <4>2. \A j \in JobIds : handoff'[j] = handoff[j] \/ (handoff[j] = "queued" /\ handoff'[j] \in {"completed", "failed"})
        BY <3>2, <4>1 DEF TypeOK
      <4>3. QueueMatchesHandoff'
        BY <3>2, <4>1 DEF QueueInv, QueueMatchesHandoff, TypeOK
      <4> QED
        BY <2>3, <3>1, <4>2, <4>3
    <3>3. CASE handoff[job[w]] # "queued"
      <4>1. UNCHANGED <<queue, handoff>>
        BY <2>9, <3>3 DEF Archive
      <4>2. QueueMatchesHandoff'
        BY <4>1 DEF QueueInv, QueueMatchesHandoff
      <4> QED
        BY <2>3, <3>1, <4>1, <4>2
    <3> QED
      BY <3>2, <3>3
  <2>10. CASE ArchiveCompleted(w) \/ ArchiveFailed(w)
    BY <2>9, <2>10 DEF ArchiveCompleted, ArchiveFailed
  <2> QED
    BY <1>2, <2>1, <2>2, <2>4, <2>5, <2>6, <2>7, <2>8, <2>10 DEF WorkerStep
<1> QED
  BY <1>1, <1>2

\* So does a fault: none of them touches a handoff.
LEMMA FaultSafe ==
    ASSUME QueueInv, Faulty
    PROVE  QueueInv'
<1> TypeOK
  BY DEF QueueInv, WellFormed
<1>held. \A v \in Workers : pc[v] # "idle" => job[v] \in JobIds /\ handoff[job[v]] # "none"
  BY DEF QueueInv, WellFormed, HeldJobs
<1>0. \A w \in Workers : pc[w] # "idle" => Task(w) \in TaskIds /\ status[Task(w)] # "none"
  BY HeldTask DEF QueueInv
<1> TypeOK'
  BY <1>0, FaultType
<1>1. ASSUME NEW j \in JobIds, Stall(j) PROVE QueueInv'
  <2>1. /\ queue[j] = "hidden" /\ queue' = [queue EXCEPT ![j] = "visible"]
        /\ UNCHANGED <<taskVars, outVars, handoff, jtask, jpart, pc, job>>
    BY <1>1 DEF Stall
  <2>2. QueueMatchesHandoff'
    BY <2>1 DEF QueueInv, QueueMatchesHandoff, TypeOK
  <2> QED
    BY <1>held, <2>1, <2>2, QueueStep
<1>2. ASSUME NEW w \in Workers, Raise(w) \/ SummarizeRaises(w) \/ CacheHitFails(w) PROVE QueueInv'
  <2>1. /\ pc[w] # "idle"
        /\ \E p : Goto(w, p)
        /\ UNCHANGED <<status, queueVars, job>>
    <3>1. CASE Raise(w)
      BY <3>1, Literals DEF Raise
    <3>2. CASE SummarizeRaises(w)
      BY <3>2 DEF SummarizeRaises
    <3>3. CASE CacheHitFails(w)
      BY <3>3 DEF CacheHitFails
    <3> QED
      BY <1>2, <3>1, <3>2, <3>3
  <2>2. \A t \in TaskIds : t # Task(w) => ostatus'[t] = ostatus[t]
    <3>1. CASE CacheHitFails(w)
      <4>1. PICK c, O : CopyOutputs(Task(w), c, O)
        BY <3>1 DEF CacheHitFails
      <4> QED
        BY <1>0, <2>1, <4>1, CopyOutputsFrame
    <3>2. CASE Raise(w) \/ SummarizeRaises(w)
      BY <3>2 DEF Raise, SummarizeRaises
    <3> QED
      BY <1>2, <3>1, <3>2
  <2>3. \A v \in Workers : pc'[v] # "idle" => job'[v] \in JobIds /\ handoff[job'[v]] # "none"
    BY <1>held, <2>1, GotoFrame
  <2>4. QueueMatchesHandoff'
    BY <2>1 DEF QueueInv, QueueMatchesHandoff
  <2> QED
    BY <1>0, <2>1, <2>2, <2>3, <2>4, QueueStep
<1>3. ASSUME NEW w \in Workers, Crash(w) \/ CrashCopying(w) PROVE QueueInv'
  <2>1. Release(w) /\ UNCHANGED <<taskVars, queueVars>>
    BY <1>3 DEF Crash, CrashCopying
  <2>4. \A t \in TaskIds : status[t] = "none" => ostatus'[t] = ostatus[t]
    <3>1. CASE Crash(w)
      BY <3>1 DEF Crash
    <3>2. CASE CrashCopying(w)
      <4>1. PICK c, O : CopyOutputs(Task(w), c, O)
        BY <3>2 DEF CrashCopying
      <4>2. Task(w) \in TaskIds /\ status[Task(w)] # "none"
        BY <1>0, <3>2 DEF CrashCopying
      <4> QED
        BY <4>1, <4>2, CopyOutputsFrame
    <3> QED
      BY <1>3, <3>1, <3>2
  <2>2. \A v \in Workers : pc'[v] # "idle" => job'[v] \in JobIds /\ handoff[job'[v]] # "none"
    BY <1>held, <2>1, ReleaseFrame
  <2>3. QueueMatchesHandoff'
    BY <2>1 DEF QueueInv, QueueMatchesHandoff
  <2> QED
    BY <2>1, <2>2, <2>3, <2>4, QueueStep
<1> QED
  BY <1>1, <1>2, <1>3 DEF Faulty

\* Every step keeps the queue invariant; so does the passing of a visibility timeout.
LEMMA QueueInductive == QueueInv /\ [Next]_vars => QueueInv'
<1> SUFFICES ASSUME QueueInv, [Next]_vars PROVE QueueInv'
  OBVIOUS
<1> TypeOK
  BY DEF QueueInv, WellFormed
<1>1. CASE Request
  BY <1>1, RequestSafe
<1>2. ASSUME NEW j \in JobIds, Expire(j) PROVE QueueInv'
  <2>1. /\ queue[j] = "hidden" /\ queue' = [queue EXCEPT ![j] = "visible"]
        /\ UNCHANGED <<taskVars, outVars, handoff, reads, jtask, jpart, workerVars, faults>>
    BY <1>2 DEF Expire
  <2>2. QueueMatchesHandoff' /\ TypeOK'
    BY <2>1 DEF QueueInv, QueueMatchesHandoff, TypeOK
  <2> QED
    BY <2>1, <2>2, QueueStep DEF QueueInv, WellFormed, HeldJobs
<1>3. ASSUME NEW w \in Workers, WorkerStep(w) \/ Heartbeat(w) PROVE QueueInv'
  BY <1>3, WorkerSafe
<1>4. CASE Faulty
  BY <1>4, FaultSafe
<1>5. CASE UNCHANGED vars
  BY <1>5 DEF vars, QueueInv, WellFormed, TypeOK, SentJobs, HeldJobs, NewTasks,
              QueueMatchesHandoff, OneQueuedJobPerKey
<1> QED
  BY <1>1, <1>2, <1>3, <1>4, <1>5 DEF Next

\* The queue invariant holds in every reachable state, whatever the number of workers and faults.
THEOREM QueueInvariant == Spec => []QueueInv
<1>1. Init => QueueInv
  BY InitType DEF Init, QueueInv, QueueMatchesHandoff, OneQueuedJobPerKey
<1> QED
  BY <1>1, QueueInductive, PTL DEF Spec

\* Every variable keeps its type, whatever the workers, the requests and the faults do.
THEOREM TypeCorrect == Spec => []TypeOK
<1>1. QueueInv => TypeOK
  BY DEF QueueInv, WellFormed
<1> QED
  BY <1>1, QueueInvariant, PTL

\* A message is in the queue exactly while its handoff is queued, with any number of workers and
\* through every crash, exception and lapsed lease.
THEOREM QueueAndHandoffAgree == Spec => []QueueMatchesHandoff
<1>1. QueueInv => QueueMatchesHandoff
  BY DEF QueueInv
<1> QED
  BY <1>1, QueueInvariant, PTL

\* The transactions never run into the unique index on the active job key.
THEOREM JobKeysUnique == Spec => []OneQueuedJobPerKey
<1>1. QueueInv => OneQueuedJobPerKey
  BY DEF QueueInv
<1> QED
  BY <1>1, QueueInvariant, PTL

-----------------------------------------------------------------------------
(***************************************************************************)
(* What TaskPipeline guarantees when no lease lapses under a live worker:  *)
(* crashes, exceptions, redeliveries and concurrent requests neither       *)
(* strand a task nor take a completed one back.  The argument is mutual    *)
(* exclusion: a hidden message has one holder, a task has one queued       *)
(* process_video job, so one worker at a time writes the task's row.       *)
(***************************************************************************)

\* A held message is hidden, and held once.
Exclusive ==
    /\ \A w \in Workers : pc[w] # "idle" => queue[job[w]] = "hidden"
    /\ \A v, w \in Workers : v # w /\ pc[v] # "idle" /\ pc[w] # "idle" => job[v] # job[w]

\* The graph runs for a task that is not completed yet; a process_video delivery that is about to
\* be archived has left its task in a terminal state.
GraphAt(w) ==
    /\ pc[w] \in TaskPCs => Part(w) = "task" /\ status[Task(w)] # "completed"
    /\ pc[w] \in {"retry", "rewrite"} => Part(w) # "task"
    /\ pc[w] \in {"done", "buried"} /\ Part(w) = "task" => status[Task(w)] \in {"completed", "error"}

LeaseInv ==
    /\ QueueInv
    /\ Exclusive
    /\ \A w \in Workers : GraphAt(w)
    /\ NoStrandedTask

CompletedStays == \A t \in TaskIds : status[t] = "completed" => status'[t] = "completed"

\* A held job is queued, and its task exists.
LEMMA HeldQueued ==
    ASSUME LeaseInv, NEW w \in Workers, pc[w] # "idle"
    PROVE  /\ job[w] \in JobIds /\ handoff[job[w]] = "queued" /\ queue[job[w]] = "hidden"
           /\ Task(w) \in TaskIds /\ Part(w) \in Parts /\ status[Task(w)] # "none"
           /\ Part(w) = "task" => Queued(Task(w), "task")
<1>1. /\ job[w] \in JobIds
      /\ Task(w) \in TaskIds /\ Part(w) \in Parts /\ status[Task(w)] # "none"
  BY HeldTask DEF LeaseInv, QueueInv
<1>2. queue[job[w]] = "hidden"
  BY DEF LeaseInv, Exclusive
<1>3. handoff[job[w]] = "queued"
  BY <1>1, <1>2 DEF LeaseInv, QueueInv, QueueMatchesHandoff
<1> QED
  BY <1>1, <1>2, <1>3 DEF Queued, Task, Part

\* Two workers never run process_video for the same task.
LEMMA SoleWriter ==
    ASSUME LeaseInv, NEW v \in Workers, NEW w \in Workers, v # w,
           pc[v] # "idle", pc[w] # "idle", Part(v) = "task", Part(w) = "task"
    PROVE  Task(v) # Task(w)
<1>1. job[v] # job[w]
  BY DEF LeaseInv, Exclusive
<1>2. /\ job[v] \in JobIds /\ handoff[job[v]] = "queued"
      /\ job[w] \in JobIds /\ handoff[job[w]] = "queued"
  BY HeldQueued
<1> QED
  BY <1>1, <1>2 DEF LeaseInv, QueueInv, OneQueuedJobPerKey, Task, Part

\* A step of a worker that keeps its job and writes at most its own task's status.
LEMMA LocalStep ==
    ASSUME LeaseInv, QueueInv', NEW w \in Workers, pc[w] # "idle",
           UNCHANGED <<queueVars, job>>,
           \A v \in Workers : v # w => pc'[v] = pc[v],
           \A t \in TaskIds : t # Task(w) => status'[t] = status[t],
           status'[Task(w)] # status[Task(w)] => Part(w) = "task",
           GraphAt(w)'
    PROVE  LeaseInv'
<1>1. Exclusive'
  BY DEF LeaseInv, Exclusive
<1>2. ASSUME NEW v \in Workers PROVE GraphAt(v)'
  <2>1. CASE v = w
    BY <2>1
  <2>2. CASE v # w
    <3>1. pc'[v] = pc[v] /\ Task(v)' = Task(v) /\ Part(v)' = Part(v)
      BY <2>2 DEF Task, Part
    <3>2. CASE pc[v] # "idle" /\ Part(v) = "task"
      <4>1. Task(v) \in TaskIds
        BY <3>2, HeldQueued
      <4>2. status'[Task(v)] = status[Task(v)]
        BY <2>2, <3>2, <4>1, SoleWriter
      <4> QED
        BY <3>1, <4>2 DEF LeaseInv, GraphAt
    <3>3. CASE pc[v] = "idle" \/ Part(v) # "task"
      BY <3>1, <3>3 DEF LeaseInv, GraphAt, TaskPCs
    <3> QED
      BY <3>2, <3>3
  <2> QED
    BY <2>1, <2>2
<1>3. NoStrandedTask'
  <2>1. \A t \in TaskIds : Queued(t, "task")' <=> Queued(t, "task")
    BY DEF Queued
  <2>2. Part(w) = "task" => Queued(Task(w), "task")
    BY HeldQueued
  <2> QED
    BY <2>1, <2>2 DEF LeaseInv, NoStrandedTask
<1> QED
  BY <1>1, <1>2, <1>3 DEF LeaseInv

\* A step that ends an attempt: only the released job's message and handoff may change.
LEMMA ReleaseStep ==
    ASSUME LeaseInv, QueueInv', NEW w \in Workers, pc[w] # "idle", Release(w),
           UNCHANGED <<status, jtask, jpart>>,
           \A j \in JobIds : j # job[w] => queue'[j] = queue[j] /\ handoff'[j] = handoff[j],
           handoff'[job[w]] = handoff[job[w]] \/ (Part(w) = "task" => status[Task(w)] \in {"completed", "error"})
    PROVE  LeaseInv'
<1> TypeOK
  BY DEF LeaseInv, QueueInv, WellFormed
<1>1. pc'[w] = "idle" /\ \A v \in Workers : v # w => pc'[v] = pc[v] /\ job'[v] = job[v]
  BY ReleaseFrame
<1>2. Exclusive'
  <2>1. \A v \in Workers : v # w /\ pc[v] # "idle" => job[v] # job[w] /\ job[v] \in JobIds
    BY HeldQueued DEF LeaseInv, Exclusive
  <2> QED
    BY <1>1, <2>1 DEF LeaseInv, Exclusive
<1>3. ASSUME NEW v \in Workers PROVE GraphAt(v)'
  <2>1. CASE v = w
    BY <1>1, <2>1 DEF GraphAt, TaskPCs
  <2>2. CASE v # w
    BY <1>1, <2>2 DEF LeaseInv, GraphAt, Task, Part
  <2> QED
    BY <2>1, <2>2
<1>4. NoStrandedTask'
  <2> SUFFICES ASSUME NEW t \in TaskIds, status[t] \in {"pending", "processing"}
               PROVE  Queued(t, "task")'
    BY DEF NoStrandedTask
  <2>1. PICK j \in JobIds : handoff[j] = "queued" /\ jtask[j] = t /\ jpart[j] = "task"
    BY DEF LeaseInv, NoStrandedTask, Queued
  <2>2. handoff'[j] = "queued"
    BY <2>1 DEF Task, Part
  <2> QED
    BY <2>1, <2>2 DEF Queued
<1> QED
  BY <1>2, <1>3, <1>4 DEF LeaseInv

-----------------------------------------------------------------------------
(* Requests: a status they write belongs to a task no worker processes. *)

\* An enqueue leaves every job that was already sent alone, and queues its key.
LEMMA SendFrame ==
    ASSUME QueueInv, NEW t \in TaskIds, NEW p \in Parts, Send(t, p)
    PROVE  /\ Queued(t, p)'
           /\ \A j \in JobIds : handoff[j] # "none" =>
                /\ queue'[j] = queue[j] /\ handoff'[j] = handoff[j]
                /\ jtask'[j] = jtask[j] /\ jpart'[j] = jpart[j]
<1>1. PICK j \in JobIds :
            /\ queue[j] = "unsent"
            /\ queue'   = [queue EXCEPT ![j] = "visible"]
            /\ handoff' = [handoff EXCEPT ![j] = "queued"]
            /\ jtask'   = [jtask EXCEPT ![j] = t]
            /\ jpart'   = [jpart EXCEPT ![j] = p]
  BY DEF Send
<1>2. handoff[j] = "none"
  BY <1>1 DEF QueueInv, QueueMatchesHandoff
<1>3. /\ handoff'[j] = "queued" /\ jtask'[j] = t /\ jpart'[j] = p
      /\ \A i \in JobIds : i # j => /\ queue'[i] = queue[i] /\ handoff'[i] = handoff[i]
                                    /\ jtask'[i] = jtask[i] /\ jpart'[i] = jpart[i]
  BY <1>1 DEF QueueInv, WellFormed, TypeOK
<1> QED
  BY <1>2, <1>3 DEF Queued

\* A request keeps the leases: it holds no job, closes no handoff, and a task it takes out of a
\* terminal status gets a queued process_video job in the same transaction.
LEMMA RequestFrame ==
    ASSUME QueueInv, Request
    PROVE  /\ UNCHANGED <<pc, job>>
           /\ \A j \in JobIds : handoff[j] # "none" =>
                /\ queue'[j] = queue[j] /\ handoff'[j] = handoff[j]
                /\ jtask'[j] = jtask[j] /\ jpart'[j] = jpart[j]
           /\ \A t \in TaskIds : status'[t] # status[t] =>
                /\ status[t] # "completed" /\ ~Queued(t, "task") /\ Queued(t, "task")'
<1> TypeOK
  BY DEF QueueInv, WellFormed
<1> DEFINE Kept == \A j \in JobIds : handoff[j] # "none" =>
                /\ queue'[j] = queue[j] /\ handoff'[j] = handoff[j]
                /\ jtask'[j] = jtask[j] /\ jpart'[j] = jpart[j]
<1> DEFINE Fresh == \A t \in TaskIds : status'[t] # status[t] =>
                /\ status[t] # "completed" /\ ~Queued(t, "task") /\ Queued(t, "task")'
<1>p. "task" \in Parts /\ Outputs \subseteq Parts /\ Locales \subseteq Parts
  BY DEF Parts, Outputs
<1>1. ASSUME NEW u \in Urls, ReuseInflight(u) PROVE UNCHANGED <<pc, job>> /\ Kept /\ Fresh
  <2>1. PICK t \in TaskIds : Send(t, "task")
    BY <1>1 DEF ReuseInflight, Newest, Live
  <2>2. Kept
    BY <1>p, <2>1, SendFrame
  <2> QED
    BY <1>1, <2>2 DEF ReuseInflight
<1>2. ASSUME NEW u \in Urls, NEW l \in Locales, ReuseScript(u, l) PROVE UNCHANGED <<pc, job>> /\ Kept /\ Fresh
  <2>1. PICK t \in TaskIds : SendUnlessQueued(t, l)
    BY <1>2 DEF ReuseScript, Newest, Scripted
  <2>2. Send(t, l) \/ UNCHANGED queueVars
    BY <2>1 DEF SendUnlessQueued
  <2>3. Kept
    BY <1>p, <2>2, SendFrame
  <2> QED
    BY <1>2, <2>3 DEF ReuseScript
<1>3. ASSUME NEW u \in Urls, NEW l \in Locales, SubmitNew(u, l) PROVE UNCHANGED <<pc, job>> /\ Kept /\ Fresh
  <2>1. PICK t \in TaskIds :
            /\ status[t] = "none"
            /\ status'  = [status EXCEPT ![t] = "pending"]
            /\ Send(t, "task")
    BY <1>3 DEF SubmitNew
  <2>2. ~Queued(t, "task")
    BY <2>1 DEF Queued, QueueInv, WellFormed, SentJobs
  <2>3. Kept /\ Queued(t, "task")'
    BY <1>p, <2>1, SendFrame
  <2>4. \A s \in TaskIds : s # t => status'[s] = status[s]
    BY <2>1 DEF TypeOK
  <2>5. UNCHANGED <<pc, job>>
    BY <1>3 DEF SubmitNew
  <2> QED
    BY <2>1, <2>2, <2>3, <2>4, <2>5
<1>4. ASSUME NEW t \in TaskIds, RetryTask(t) PROVE UNCHANGED <<pc, job>> /\ Kept /\ Fresh
  <2>1. /\ status[t] = "error" /\ ~Queued(t, "task") /\ Send(t, "task")
        /\ status' = [status EXCEPT ![t] = "pending"]
        /\ UNCHANGED <<pc, job>>
    BY <1>4 DEF RetryTask
  <2>2. Kept /\ Queued(t, "task")'
    BY <1>p, <2>1, SendFrame
  <2>3. \A s \in TaskIds : s # t => status'[s] = status[s]
    BY <2>1 DEF TypeOK
  <2> QED
    BY <2>1, <2>2, <2>3
<1>5. ASSUME NEW t \in TaskIds, NEW o \in Outputs, RetryOutput(t, o) PROVE UNCHANGED <<pc, job>> /\ Kept /\ Fresh
  <2>1. Send(t, o) /\ UNCHANGED <<status, pc, job>>
    BY <1>5 DEF RetryOutput
  <2>2. Kept
    BY <1>p, <2>1, SendFrame
  <2> QED
    BY <2>1, <2>2
<1> QED
  BY <1>1, <1>2, <1>3, <1>4, <1>5 DEF Request

\* A submission or a retry keeps the lease invariant.
LEMMA RequestLease ==
    ASSUME LeaseInv, QueueInv', Request
    PROVE  LeaseInv' /\ CompletedStays
<1>1. /\ UNCHANGED <<pc, job>>
      /\ \A j \in JobIds : handoff[j] # "none" =>
            /\ queue'[j] = queue[j] /\ handoff'[j] = handoff[j]
            /\ jtask'[j] = jtask[j] /\ jpart'[j] = jpart[j]
      /\ \A t \in TaskIds : status'[t] # status[t] =>
            /\ status[t] # "completed" /\ ~Queued(t, "task") /\ Queued(t, "task")'
  BY RequestFrame DEF LeaseInv
<1>2. ASSUME NEW w \in Workers, pc[w] # "idle"
      PROVE  /\ queue'[job[w]] = "hidden"
             /\ Task(w)' = Task(w) /\ Part(w)' = Part(w)
             /\ Part(w) = "task" => status'[Task(w)] = status[Task(w)]
  BY <1>1, <1>2, HeldQueued DEF Task, Part
<1>3. Exclusive'
  BY <1>1, <1>2 DEF LeaseInv, Exclusive
<1>4. ASSUME NEW w \in Workers PROVE GraphAt(w)'
  <2>1. CASE pc[w] = "idle"
    BY <1>1, <2>1 DEF GraphAt, TaskPCs
  <2>2. CASE pc[w] # "idle"
    BY <1>1, <1>2, <2>2 DEF LeaseInv, GraphAt
  <2> QED
    BY <2>1, <2>2
<1>5. NoStrandedTask'
  <2>1. \A t \in TaskIds : Queued(t, "task") => Queued(t, "task")'
    BY <1>1 DEF Queued
  <2> QED
    BY <1>1, <2>1 DEF LeaseInv, NoStrandedTask
<1>6. CompletedStays
  BY <1>1 DEF CompletedStays
<1> QED
  BY <1>3, <1>4, <1>5, <1>6 DEF LeaseInv

-----------------------------------------------------------------------------
(* The worker. *)

\* A step of the pipeline graph keeps the lease invariant: it writes its own task only.
LEMMA PipelineLease ==
    ASSUME LeaseInv, QueueInv', NEW w \in Workers, pc[w] # "idle", Pipeline(w)
    PROVE  LeaseInv' /\ CompletedStays
<1>0. Task(w) \in TaskIds /\ status[Task(w)] # "none"
  BY HeldQueued
<1>1. UNCHANGED <<queueVars, job>> /\ Isolated(w) /\ Continues(w)
  BY <1>0, PipelineFrame DEF LeaseInv, QueueInv, WellFormed
<1>2. Task(w)' = Task(w) /\ Part(w)' = Part(w)
  BY <1>1 DEF Task, Part
<1>3. GraphAt(w)
  BY DEF LeaseInv
<1>4. pc[w] \in TaskPCs \/ (pc[w] \in {"retry", "rewrite"} /\ status' = status)
  BY <1>1 DEF Continues
<1>5. status'[Task(w)] # status[Task(w)] => Part(w) = "task" /\ status[Task(w)] # "completed"
  BY <1>3, <1>4 DEF GraphAt
<1>6. GraphAt(w)'
  <2>1. CASE pc[w] \in TaskPCs /\ pc'[w] \in TaskPCs \cup {"failed", "reject"}
             /\ (status'[Task(w)] = "completed" => status[Task(w)] = "completed")
    BY <1>2, <1>3, <2>1 DEF GraphAt, TaskPCs
  <2>2. CASE pc[w] \in TaskPCs /\ pc'[w] = "done" /\ status'[Task(w)] = "completed"
    BY <1>2, <2>2 DEF GraphAt, TaskPCs
  <2>3. CASE pc[w] \in {"retry", "rewrite"} /\ pc'[w] \in {"rewrite", "done", "reject", "failed"}
    BY <1>2, <1>3, <2>3 DEF GraphAt, TaskPCs
  <2> QED
    BY <1>1, <2>1, <2>2, <2>3 DEF Continues
<1>7. LeaseInv'
  BY <1>1, <1>5, <1>6, LocalStep DEF Isolated
<1>8. CompletedStays
  BY <1>1, <1>5 DEF CompletedStays, Isolated
<1> QED
  BY <1>7, <1>8

\* So does every other step of a worker: reading, validating, deferring and archiving.
LEMMA DeliveryLease ==
    ASSUME LeaseInv, QueueInv', NEW w \in Workers, WorkerStep(w) \/ Heartbeat(w), ~Pipeline(w)
    PROVE  LeaseInv' /\ CompletedStays
<1> TypeOK
  BY DEF LeaseInv, QueueInv, WellFormed
<1>0. pc[w] # "idle" =>
        /\ job[w] \in JobIds /\ handoff[job[w]] = "queued" /\ queue[job[w]] = "hidden"
        /\ Task(w) \in TaskIds /\ Part(w) \in Parts /\ status[Task(w)] # "none"
  BY HeldQueued
<1>g. GraphAt(w)
  BY DEF LeaseInv
<1>1. ASSUME NEW j \in JobIds, Read(w, j) PROVE LeaseInv' /\ CompletedStays
  <2>1. /\ queue[j] = "visible" /\ queue' = [queue EXCEPT ![j] = "hidden"]
        /\ job' = [job EXCEPT ![w] = j]
        /\ Goto(w, "validate") /\ pc[w] = "idle"
        /\ UNCHANGED <<status, handoff, jtask, jpart>>
    BY <1>1 DEF Read
  <2>2. /\ pc'[w] = "validate" /\ job'[w] = j /\ queue'[j] = "hidden"
        /\ \A v \in Workers : v # w => pc'[v] = pc[v] /\ job'[v] = job[v]
        /\ \A i \in JobIds : i # j => queue'[i] = queue[i]
    BY <2>1, GotoFrame DEF TypeOK
  <2>3. \A v \in Workers : pc[v] # "idle" => job[v] # j /\ job[v] \in JobIds
    BY <2>1, HeldQueued
  <2>4. Exclusive'
    BY <2>2, <2>3 DEF LeaseInv, Exclusive
  <2>5. ASSUME NEW v \in Workers PROVE GraphAt(v)'
    <3>1. CASE v = w
      BY <2>2, <3>1 DEF GraphAt, TaskPCs
    <3>2. CASE v # w
      BY <2>1, <2>2, <3>2 DEF LeaseInv, GraphAt, Task, Part
    <3> QED
      BY <3>1, <3>2
  <2>6. NoStrandedTask'
    BY <2>1 DEF LeaseInv, NoStrandedTask, Queued
  <2> QED
    BY <2>1, <2>4, <2>5, <2>6 DEF LeaseInv, CompletedStays
<1>2. CASE Validate(w)
  <2>1. pc[w] # "idle" /\ Goto(w, "dispatch") /\ UNCHANGED <<status, queueVars, job>>
    BY <1>2 DEF Validate
  <2>2. GraphAt(w)'
    BY <2>1, GotoFrame DEF GraphAt, TaskPCs
  <2> QED
    BY <2>1, <2>2, GotoFrame, LocalStep DEF CompletedStays
<1>3. CASE ArchiveInvalid(w)
  BY <1>0, <1>3 DEF ArchiveInvalid
<1>4. CASE HeartbeatLost(w)
  BY <1>0, <1>4, Literals DEF HeartbeatLost
<1>5. CASE Heartbeat(w)
  BY <1>0, <1>5, Literals DEF Heartbeat
<1>6. CASE Dispatch(w)
  <2>1. pc[w] # "idle" /\ UNCHANGED <<status, queueVars, job>>
    BY <1>6 DEF Dispatch
  <2>2. Task(w)' = Task(w) /\ Part(w)' = Part(w)
    BY <2>1 DEF Task, Part
  <2>3. \/ Part(w) = "task" /\ status[Task(w)] = "completed" /\ Goto(w, "done")
        \/ Goto(w, "reject")
        \/ Part(w) = "task" /\ status[Task(w)] # "completed" /\ Goto(w, "cache")
        \/ Part(w) # "task" /\ (Goto(w, "done") \/ Goto(w, "retry"))
    BY <1>6, Zenon DEF Dispatch
  <2>4. GraphAt(w)'
    BY <2>1, <2>2, <2>3, GotoFrame DEF GraphAt, TaskPCs
  <2>5. \E p : Goto(w, p)
    BY <2>3
  <2>6. \A v \in Workers : v # w => pc'[v] = pc[v]
    BY <2>5, GotoFrame
  <2> QED
    BY <2>1, <2>4, <2>6, LocalStep DEF CompletedStays
<1>7. CASE MarkFailed(w)
  <2>1. pc[w] # "idle" /\ Goto(w, "buried") /\ UNCHANGED <<queueVars, job>>
    BY <1>7 DEF MarkFailed
  <2>2. Task(w)' = Task(w) /\ Part(w)' = Part(w)
    BY <2>1 DEF Task, Part
  <2>3. \/ Part(w) = "task" /\ status[Task(w)] # "completed" /\ status' = [status EXCEPT ![Task(w)] = "error"]
        \/ (Part(w) = "task" => status[Task(w)] = "completed") /\ status' = status
    BY <1>7 DEF MarkFailed, MarkTaskFailed
  <2>4. /\ \A t \in TaskIds : t # Task(w) => status'[t] = status[t]
        /\ status'[Task(w)] # status[Task(w)] => Part(w) = "task" /\ status[Task(w)] # "completed"
        /\ Part(w) = "task" => status'[Task(w)] \in {"completed", "error"}
    BY <1>0, <2>1, <2>3 DEF TypeOK
  <2>5. GraphAt(w)'
    BY <2>1, <2>2, <2>4, GotoFrame DEF GraphAt, TaskPCs
  <2>6. CompletedStays
    BY <2>4 DEF CompletedStays
  <2> QED
    BY <2>1, <2>4, <2>5, <2>6, GotoFrame, LocalStep
<1>8. CASE Defer(w)
  <2>1. /\ pc[w] # "idle" /\ Release(w) /\ UNCHANGED <<status, handoff, jtask, jpart>>
        /\ queue' = [queue EXCEPT ![job[w]] = IF @ = "archived" THEN @ ELSE "hidden"]
    BY <1>8 DEF Defer
  <2>2. \A j \in JobIds : j # job[w] => queue'[j] = queue[j]
    BY <2>1 DEF TypeOK
  <2> QED
    BY <2>1, <2>2, ReleaseStep DEF CompletedStays
<1>9. ASSUME NEW here \in {"done", "buried"}, NEW outcome, Archive(w, here, outcome)
      PROVE  LeaseInv' /\ CompletedStays
  <2>1. pc[w] = here /\ Release(w) /\ UNCHANGED <<status, jtask, jpart>>
    BY <1>9 DEF Archive
  <2>2. pc[w] # "idle" /\ pc[w] \in {"done", "buried"}
    BY <2>1
  <2>3. /\ queue' = [queue EXCEPT ![job[w]] = "archived"]
        /\ handoff' = [handoff EXCEPT ![job[w]] = outcome]
    BY <1>0, <1>9, <2>2 DEF Archive
  <2>4. \A j \in JobIds : j # job[w] => queue'[j] = queue[j] /\ handoff'[j] = handoff[j]
    BY <2>3 DEF TypeOK
  <2>5. Part(w) = "task" => status[Task(w)] \in {"completed", "error"}
    BY <1>g, <2>2 DEF GraphAt
  <2> QED
    BY <2>1, <2>2, <2>4, <2>5, ReleaseStep DEF CompletedStays
<1>10. CASE ArchiveCompleted(w) \/ ArchiveFailed(w)
  BY <1>9, <1>10 DEF ArchiveCompleted, ArchiveFailed
<1> QED
  BY <1>1, <1>2, <1>3, <1>4, <1>5, <1>6, <1>7, <1>8, <1>10 DEF WorkerStep

\* A crash or a raised exception keeps it too, for the message stays in the queue.
LEMMA FaultLease ==
    ASSUME LeaseInv, QueueInv', Faulty, "stall" \notin FaultKinds
    PROVE  LeaseInv' /\ CompletedStays
<1> TypeOK
  BY DEF LeaseInv, QueueInv, WellFormed
<1>1. ASSUME NEW j \in JobIds, Stall(j) PROVE FALSE
  BY <1>1 DEF Stall, Fault
<1>2. ASSUME NEW w \in Workers, Raise(w) PROVE LeaseInv' /\ CompletedStays
  <2>1. pc[w] # "idle" /\ Goto(w, "failed") /\ UNCHANGED <<status, queueVars, job>>
    BY <1>2, Literals DEF Raise
  <2>2. GraphAt(w)'
    BY <2>1, GotoFrame DEF GraphAt, TaskPCs
  <2> QED
    BY <2>1, <2>2, GotoFrame, LocalStep DEF CompletedStays
<1>3. ASSUME NEW w \in Workers, CacheHitFails(w) \/ SummarizeRaises(w) PROVE LeaseInv' /\ CompletedStays
  <2>1. /\ pc[w] \in {"cache", "summarize"}
        /\ Goto(w, "cognition") \/ Goto(w, "cleanup") \/ Goto(w, "ingest")
        /\ UNCHANGED <<status, queueVars, job>>
    <3>1. CASE CacheHitFails(w)
      <4>1. PICK O : \/ Goto(w, IF O \cap Locales = {} THEN "cognition" ELSE "cleanup")
                     \/ Goto(w, "ingest")
        BY <3>1 DEF CacheHitFails
      <4>2. Goto(w, "cognition") \/ Goto(w, "cleanup") \/ Goto(w, "ingest")
        BY <4>1
      <4> QED
        BY <3>1, <4>2 DEF CacheHitFails
    <3>2. CASE SummarizeRaises(w)
      BY <3>2 DEF SummarizeRaises
    <3> QED
      BY <1>3, <3>1, <3>2
  <2>2. pc[w] # "idle" /\ pc[w] \in TaskPCs
    BY <2>1 DEF TaskPCs
  <2>3. Task(w)' = Task(w) /\ Part(w)' = Part(w)
    BY <2>1 DEF Task, Part
  <2>4. GraphAt(w)'
    BY <2>1, <2>2, <2>3, GotoFrame DEF LeaseInv, GraphAt, TaskPCs
  <2> QED
    BY <2>1, <2>2, <2>4, GotoFrame, LocalStep DEF CompletedStays
<1>4. ASSUME NEW w \in Workers, Crash(w) \/ CrashCopying(w) PROVE LeaseInv' /\ CompletedStays
  BY <1>4, ReleaseStep DEF Crash, CrashCopying, CompletedStays
<1> QED
  BY <1>1, <1>2, <1>3, <1>4 DEF Faulty

\* The lease invariant is inductive as long as no lease lapses under a live worker.
LEMMA LeaseInductive ==
    ASSUME LeaseInv, [Next]_vars, "stall" \notin FaultKinds
    PROVE  LeaseInv' /\ CompletedStays
<1> QueueInv'
  BY QueueInductive DEF LeaseInv
<1> TypeOK
  BY DEF LeaseInv, QueueInv, WellFormed
<1>1. CASE Request
  BY <1>1, RequestLease
<1>2. ASSUME NEW j \in JobIds, Expire(j) PROVE LeaseInv' /\ CompletedStays
  <2>1. /\ \A w \in Workers : ~Holds(w, j)
        /\ queue' = [queue EXCEPT ![j] = "visible"]
        /\ UNCHANGED <<status, handoff, jtask, jpart, pc, job>>
    BY <1>2 DEF Expire
  <2>2. Exclusive'
    <3>1. \A w \in Workers : pc[w] # "idle" => job[w] # j /\ job[w] \in JobIds
      BY <2>1, HeldQueued DEF Holds
    <3> QED
      BY <2>1, <3>1 DEF LeaseInv, Exclusive, TypeOK
  <2> QED
    BY <2>1, <2>2 DEF LeaseInv, GraphAt, Task, Part, NoStrandedTask, Queued, CompletedStays
<1>3. ASSUME NEW w \in Workers, WorkerStep(w) \/ Heartbeat(w) PROVE LeaseInv' /\ CompletedStays
  <2>1. CASE Pipeline(w)
    <3>1. pc[w] # "idle"
      BY <2>1 DEF Pipeline, CacheMiss, CacheHit, EnsureOutputs, Supadata, Vtt, FailCaption, PersistRaw,
           PersistScript, Persist, SkipCognition, StartCognition, AdvanceRead, AdvanceWrite, Summarize,
           SaveSummary, SummaryFails, Cleanup, RetryStart, RetryFinish
    <3> QED
      BY <2>1, <3>1, PipelineLease
  <2>2. CASE ~Pipeline(w)
    BY <1>3, <2>2, DeliveryLease
  <2> QED
    BY <2>1, <2>2
<1>4. CASE Faulty
  BY <1>4, FaultLease
<1>5. CASE UNCHANGED vars
  BY <1>5 DEF vars, LeaseInv, Exclusive, GraphAt, Task, Part, NoStrandedTask, Queued, CompletedStays
<1> QED
  BY <1>1, <1>2, <1>3, <1>4, <1>5 DEF Next

\* Without lapsed leases a queued job has at most one holder, a worker inside the graph works on a
\* process_video job, and no task is stranded.
THEOREM LeaseInvariant ==
    ASSUME "stall" \notin FaultKinds
    PROVE  Spec => []LeaseInv
<1>1. Init => LeaseInv
  <2>1. Init => QueueInv
    BY InitType DEF Init, QueueInv, QueueMatchesHandoff, OneQueuedJobPerKey
  <2>2. Init => Exclusive /\ NoStrandedTask /\ \A w \in Workers : GraphAt(w)
    BY DEF Init, Exclusive, GraphAt, TaskPCs, NoStrandedTask
  <2> QED
    BY <2>1, <2>2 DEF LeaseInv
<1>2. LeaseInv /\ [Next]_vars => LeaseInv'
  BY LeaseInductive
<1> QED
  BY <1>1, <1>2, PTL DEF Spec

\* While every live worker keeps its lease, no crash, exception, redelivery or retry leaves a task
\* pending or processing without a queued process_video job, for any number of tasks and workers.
THEOREM NoTaskStranded ==
    ASSUME "stall" \notin FaultKinds
    PROVE  Spec => []NoStrandedTask
<1>1. LeaseInv => NoStrandedTask
  BY DEF LeaseInv
<1> QED
  BY <1>1, LeaseInvariant, PTL

\* Under the same assumption no delivery, retry or fault takes a completed task back.
THEOREM CompletionIsFinal ==
    ASSUME "stall" \notin FaultKinds
    PROVE  Spec => CompletedIsFinal
<1>1. LeaseInv /\ [Next]_vars => [CompletedStays]_status
  BY LeaseInductive
<1> QED
  BY <1>1, LeaseInvariant, PTL DEF Spec, CompletedIsFinal, CompletedStays

-----------------------------------------------------------------------------
(***************************************************************************)
(* How far a delivery gets: attempts are bounded whatever goes wrong, and, *)
(* while no lease lapses under a live worker, a message is archived after  *)
(* its task's terminal status, a milestone never takes progress back and a *)
(* task is completed with a summary to show.                               *)
(***************************************************************************)

-----------------------------------------------------------------------------
(* Attempts.  A queued message that has used up its allowance is in the    *)
(* hands of the worker that made the last read, and that worker buries it. *)

LastAttempt(j) == queue[j] = "hidden" /\ \E w \in Workers : Holds(w, j) /\ attempt[w] = reads[j]

ReadsKept(j) ==
    /\ queue[j] = "unsent" => reads[j] = 0
    /\ reads[j] <= MaxAttempts + faults
    /\ queue[j] \in {"visible", "hidden"} => reads[j] < MaxAttempts + faults \/ LastAttempt(j)

AttemptsInv == QueueInv /\ \A j \in JobIds : ReadsKept(j)

\* A request sends at most one message, never read before, and no worker takes part.
LEMMA RequestQueue ==
    ASSUME Request
    PROVE  /\ UNCHANGED <<reads, workerVars, faults>>
           /\ \/ queue' = queue
              \/ \E j \in JobIds : queue[j] = "unsent" /\ queue' = [queue EXCEPT ![j] = "visible"]
<1>1. ASSUME NEW t, NEW p, Send(t, p)
      PROVE  /\ UNCHANGED reads
             /\ \E j \in JobIds : queue[j] = "unsent" /\ queue' = [queue EXCEPT ![j] = "visible"]
  BY <1>1 DEF Send
<1>2. CASE \E u \in Urls : ReuseInflight(u)
  BY <1>1, <1>2 DEF ReuseInflight
<1>3. CASE \E u \in Urls, l \in Locales : ReuseScript(u, l)
  BY <1>1, <1>3 DEF ReuseScript, SendUnlessQueued
<1>4. CASE \E u \in Urls, l \in Locales : SubmitNew(u, l)
  BY <1>1, <1>4 DEF SubmitNew
<1>5. CASE \E t \in TaskIds : RetryTask(t)
  BY <1>1, <1>5 DEF RetryTask
<1>6. CASE \E t \in TaskIds, o \in Outputs : RetryOutput(t, o)
  BY <1>1, <1>6 DEF RetryOutput
<1> QED
  BY <1>2, <1>3, <1>4, <1>5, <1>6 DEF Request

\* A step of one worker that reads nothing: it keeps its attempt, or it lets go of a message that
\* is archived or was not on its last attempt.
LEMMA ReadsStep ==
    ASSUME TypeOK, NEW w \in Workers, UNCHANGED <<reads, faults>>,
           \A j \in JobIds : ReadsKept(j),
           \A v \in Workers : v # w => pc'[v] = pc[v] /\ job'[v] = job[v] /\ attempt'[v] = attempt[v],
           \A j \in JobIds : \/ queue'[j] = "archived" \/ queue'[j] = queue[j]
                             \/ queue[j] = "visible" /\ queue'[j] = "hidden",
           \/ pc'[w] # "idle" /\ job'[w] = job[w] /\ attempt'[w] = attempt[w]
           \/ attempt[w] < MaxAttempts
           \/ \A j \in JobIds : Holds(w, j) => queue'[j] = "archived"
    PROVE  \A j \in JobIds : ReadsKept(j)'
<1> SUFFICES ASSUME NEW j \in JobIds PROVE ReadsKept(j)'
  OBVIOUS
<1> ReadsKept(j)
  OBVIOUS
<1>t. reads[j] \in Nat /\ faults \in Nat /\ attempt[w] \in Nat
  BY PipelineAssumption DEF TypeOK
<1>1. CASE reads[j] < MaxAttempts + faults
  BY <1>1, <1>t DEF ReadsKept
<1>2. CASE queue'[j] \notin {"visible", "hidden"}
  BY <1>2, <1>t DEF ReadsKept
<1>3. CASE reads[j] = MaxAttempts + faults /\ queue'[j] \in {"visible", "hidden"}
  <2>1. queue[j] \in {"visible", "hidden"}
    BY <1>3
  <2>2. ~(reads[j] < MaxAttempts + faults)
    BY <1>3, <1>t, PipelineAssumption
  <2>3. queue[j] = "hidden" /\ queue'[j] = "hidden"
    BY <1>3, <2>1, <2>2 DEF ReadsKept, LastAttempt
  <2>4. PICK v \in Workers : Holds(v, j) /\ attempt[v] = reads[j]
    BY <2>1, <2>2 DEF ReadsKept, LastAttempt
  <2>5. ~(attempt[v] < MaxAttempts)
    BY <1>3, <1>t, <2>4, PipelineAssumption
  <2>6. pc'[v] # "idle" /\ job'[v] = j /\ attempt'[v] = attempt[v]
    BY <2>3, <2>4, <2>5 DEF Holds
  <2>7. LastAttempt(j)'
    BY <2>3, <2>4, <2>6 DEF LastAttempt, Holds
  <2> QED
    BY <1>3, <1>t, <2>3, <2>7, PipelineAssumption DEF ReadsKept
<1> QED
  BY <1>1, <1>2, <1>3, <1>t, PipelineAssumption DEF ReadsKept

\* A fault grants every message one more attempt.
LEMMA ReadsFault ==
    ASSUME TypeOK, \A j \in JobIds : ReadsKept(j), faults' = faults + 1, reads' = reads,
           \A j \in JobIds : queue'[j] = "unsent" => queue[j] = "unsent"
    PROVE  \A j \in JobIds : ReadsKept(j)'
<1>1. \A j \in JobIds : reads[j] \in Nat /\ faults \in Nat
  BY PipelineAssumption DEF TypeOK
<1> QED
  BY <1>1, PipelineAssumption DEF ReadsKept

\* A step of a worker keeps the attempts of every message within bounds.
LEMMA WorkerAttempts ==
    ASSUME AttemptsInv, NEW w \in Workers, WorkerStep(w) \/ Heartbeat(w)
    PROVE  \A j \in JobIds : ReadsKept(j)'
<1> TypeOK
  BY DEF AttemptsInv, QueueInv, WellFormed
<1>k. \A j \in JobIds : ReadsKept(j)
  BY DEF AttemptsInv
<1>0. pc[w] # "idle" => /\ job[w] \in JobIds /\ Task(w) \in TaskIds /\ status[Task(w)] # "none"
  BY HeldTask DEF AttemptsInv, QueueInv
<1>goto. ASSUME NEW p, Goto(w, p), p # "idle", UNCHANGED <<queueVars, job, attempt, faults>>
         PROVE  \A j \in JobIds : ReadsKept(j)'
  BY <1>k, <1>goto, GotoFrame, ReadsStep
<1>release. ASSUME Release(w)
            PROVE  \A v \in Workers : v # w => pc'[v] = pc[v] /\ job'[v] = job[v] /\ attempt'[v] = attempt[v]
  BY <1>release DEF Release, TypeOK
<1>1. CASE Pipeline(w)
  <2>1. pc[w] # "idle"
    BY <1>1 DEF Pipeline, CacheMiss, CacheHit, EnsureOutputs, Supadata, Vtt, FailCaption, PersistRaw,
         PersistScript, Persist, SkipCognition, StartCognition, AdvanceRead, AdvanceWrite, Summarize,
         SaveSummary, SummaryFails, Cleanup, RetryStart, RetryFinish
  <2>2. UNCHANGED <<queueVars, job, attempt, faults>> /\ Isolated(w) /\ Continues(w)
    BY <1>0, <1>1, <2>1, PipelineFrame
  <2>3. pc'[w] # "idle"
    BY <2>2 DEF Continues, TaskPCs
  <2> QED
    BY <1>k, <2>2, <2>3, ReadsStep DEF Isolated
<1>2. ASSUME NEW i \in JobIds, Read(w, i) PROVE \A j \in JobIds : ReadsKept(j)'
  <2>1. /\ pc[w] = "idle" /\ queue[i] = "visible"
        /\ queue' = [queue EXCEPT ![i] = "hidden"]
        /\ reads' = [reads EXCEPT ![i] = @ + 1]
        /\ job' = [job EXCEPT ![w] = i]
        /\ attempt' = [attempt EXCEPT ![w] = reads[i] + 1]
        /\ Goto(w, "validate") /\ faults' = faults
    BY <1>2 DEF Read
  <2>2. /\ pc'[w] = "validate" /\ job'[w] = i /\ attempt'[w] = reads[i] + 1
        /\ \A v \in Workers : v # w => pc'[v] = pc[v] /\ job'[v] = job[v] /\ attempt'[v] = attempt[v]
    BY <2>1, GotoFrame DEF TypeOK
  <2>3. /\ queue'[i] = "hidden" /\ reads'[i] = reads[i] + 1
        /\ \A j \in JobIds : j # i => queue'[j] = queue[j] /\ reads'[j] = reads[j]
    BY <2>1 DEF TypeOK
  <2>4. \A j \in JobIds : reads[j] \in Nat /\ faults \in Nat
    BY PipelineAssumption DEF TypeOK
  <2>5. ReadsKept(i)'
    <3>1. reads[i] < MaxAttempts + faults
      BY <1>k, <2>1 DEF ReadsKept, LastAttempt
    <3>2. LastAttempt(i)'
      BY <2>2, <2>3 DEF LastAttempt, Holds
    <3> QED
      BY <2>1, <2>3, <2>4, <3>1, <3>2, PipelineAssumption DEF ReadsKept
  <2>6. ASSUME NEW j \in JobIds, j # i PROVE ReadsKept(j)'
    <3>1. LastAttempt(j) => LastAttempt(j)'
      BY <2>1, <2>2, <2>3, <2>6 DEF LastAttempt, Holds
    <3> QED
      BY <1>k, <2>1, <2>3, <2>6, <3>1 DEF ReadsKept
  <2> QED
    BY <2>5, <2>6
<1>3. CASE Validate(w)
  BY <1>3, <1>goto DEF Validate
<1>4. CASE ArchiveInvalid(w)
  <2>1. Release(w) /\ queue' = [queue EXCEPT ![job[w]] = "archived"] /\ UNCHANGED <<reads, faults>>
    BY <1>4 DEF ArchiveInvalid
  <2>2. /\ \A j \in JobIds : queue'[j] = "archived" \/ queue'[j] = queue[j]
        /\ \A j \in JobIds : Holds(w, j) => queue'[j] = "archived"
    BY <2>1 DEF Holds, TypeOK
  <2> QED
    BY <1>k, <1>release, <2>1, <2>2, ReadsStep
<1>5. CASE HeartbeatLost(w)
  <2>1. /\ Release(w) /\ UNCHANGED <<queueVars, faults>>
        /\ \A j \in JobIds : Holds(w, j) => queue'[j] = "archived"
    BY <1>5 DEF HeartbeatLost, Holds
  <2> QED
    BY <1>k, <1>release, <2>1, ReadsStep
<1>6. CASE Heartbeat(w)
  <2>1. /\ queue[job[w]] = "visible" /\ queue' = [queue EXCEPT ![job[w]] = "hidden"]
        /\ UNCHANGED <<reads, workerVars, faults>> /\ pc[w] # "idle"
    BY <1>6, Literals DEF Heartbeat
  <2>2. \A j \in JobIds : queue'[j] = queue[j] \/ (queue[j] = "visible" /\ queue'[j] = "hidden")
    BY <2>1 DEF TypeOK
  <2> QED
    BY <1>k, <2>1, <2>2, ReadsStep
<1>7. CASE Dispatch(w)
  <2>1. \E p \in {"done", "reject", "cache", "retry"} : Goto(w, p)
    BY <1>7 DEF Dispatch
  <2> QED
    BY <1>7, <1>goto, <2>1 DEF Dispatch
<1>8. CASE MarkFailed(w)
  BY <1>8, <1>goto DEF MarkFailed
<1>9. CASE Defer(w)
  <2>1. /\ ~Exhausted(w) /\ pc[w] = "failed" /\ Release(w) /\ UNCHANGED <<reads, faults>>
        /\ queue' = [queue EXCEPT ![job[w]] = IF @ = "archived" THEN @ ELSE "hidden"]
    BY <1>9 DEF Defer
  <2>2. attempt[w] < MaxAttempts
    BY <2>1, PipelineAssumption DEF Exhausted, TypeOK
  <2>3. handoff[job[w]] # "none" /\ job[w] \in JobIds
    BY <2>1, HeldTask DEF AttemptsInv, QueueInv
  <2>4. queue[job[w]] # "unsent"
    BY <2>3 DEF AttemptsInv, QueueInv, QueueMatchesHandoff
  <2>5. \A j \in JobIds : \/ queue'[j] = "archived" \/ queue'[j] = queue[j]
                          \/ queue[j] = "visible" /\ queue'[j] = "hidden"
    BY <2>1, <2>4 DEF TypeOK
  <2> QED
    BY <1>k, <1>release, <2>1, <2>2, <2>5, ReadsStep
<1>10. ASSUME NEW here \in {"done", "buried"}, NEW outcome, Archive(w, here, outcome)
       PROVE  \A j \in JobIds : ReadsKept(j)'
  <2>1. Release(w) /\ pc[w] = here /\ UNCHANGED <<reads, faults>>
    BY <1>10 DEF Archive
  <2>2. job[w] \in JobIds /\ handoff[job[w]] # "none"
    BY <2>1, HeldTask DEF AttemptsInv, QueueInv
  <2>3. /\ \A j \in JobIds : queue'[j] = "archived" \/ queue'[j] = queue[j]
        /\ queue'[job[w]] = "archived"
    <3>1. CASE handoff[job[w]] = "queued"
      <4>1. queue' = [queue EXCEPT ![job[w]] = "archived"]
        BY <1>10, <3>1 DEF Archive
      <4> QED
        BY <2>2, <4>1 DEF TypeOK
    <3>2. CASE handoff[job[w]] # "queued"
      <4>1. queue' = queue
        BY <1>10, <3>2 DEF Archive
      <4> QED
        BY <2>2, <3>2, <4>1 DEF AttemptsInv, QueueInv, QueueMatchesHandoff, TypeOK
    <3> QED
      BY <3>1, <3>2
  <2> QED
    BY <1>k, <1>release, <2>1, <2>3, ReadsStep DEF Holds
<1>11. CASE ArchiveCompleted(w) \/ ArchiveFailed(w)
  BY <1>10, <1>11 DEF ArchiveCompleted, ArchiveFailed
<1> QED
  BY <1>1, <1>2, <1>3, <1>4, <1>5, <1>6, <1>7, <1>8, <1>9, <1>11 DEF WorkerStep

\* Every step keeps them within bounds: a crash or an expired lease costs an attempt, but it also
\* counts as a fault, and a deferral is refused on the last attempt.
LEMMA AttemptsInductive == AttemptsInv /\ [Next]_vars => AttemptsInv'
<1> SUFFICES ASSUME AttemptsInv, [Next]_vars PROVE AttemptsInv'
  OBVIOUS
<1> TypeOK
  BY DEF AttemptsInv, QueueInv, WellFormed
<1>k. \A j \in JobIds : ReadsKept(j)
  BY DEF AttemptsInv
<1>q. QueueInv'
  BY QueueInductive DEF AttemptsInv
<1>n. \A j \in JobIds : reads[j] \in Nat /\ faults \in Nat
  BY PipelineAssumption DEF TypeOK
<1>1. ASSUME Request PROVE \A j \in JobIds : ReadsKept(j)'
  <2>1. UNCHANGED <<reads, workerVars, faults>>
    BY <1>1, RequestQueue
  <2>2. CASE queue' = queue
    BY <1>k, <2>1, <2>2 DEF ReadsKept, LastAttempt, Holds
  <2>3. ASSUME NEW i \in JobIds, queue[i] = "unsent", queue' = [queue EXCEPT ![i] = "visible"]
        PROVE  \A j \in JobIds : ReadsKept(j)'
    <3>1. queue'[i] = "visible" /\ \A j \in JobIds : j # i => queue'[j] = queue[j]
      BY <2>3 DEF TypeOK
    <3>2. ReadsKept(i)'
      BY <1>k, <1>n, <2>1, <2>3, <3>1, PipelineAssumption DEF ReadsKept
    <3>3. \A j \in JobIds : j # i => ReadsKept(j)'
      BY <1>k, <2>1, <3>1 DEF ReadsKept, LastAttempt, Holds
    <3> QED
      BY <3>2, <3>3
  <2> QED
    BY <1>1, <2>2, <2>3, RequestQueue
<1>2. ASSUME NEW i \in JobIds, Expire(i) PROVE \A j \in JobIds : ReadsKept(j)'
  <2>1. /\ queue[i] = "hidden" /\ \A w \in Workers : ~Holds(w, i)
        /\ queue' = [queue EXCEPT ![i] = "visible"]
        /\ UNCHANGED <<reads, workerVars, faults>>
    BY <1>2 DEF Expire
  <2>2. queue'[i] = "visible" /\ \A j \in JobIds : j # i => queue'[j] = queue[j]
    BY <2>1 DEF TypeOK
  <2>3. ReadsKept(i)'
    BY <1>k, <2>1, <2>2 DEF ReadsKept, LastAttempt
  <2>4. \A j \in JobIds : j # i => ReadsKept(j)'
    BY <1>k, <2>1, <2>2 DEF ReadsKept, LastAttempt, Holds
  <2> QED
    BY <2>3, <2>4
<1>3. ASSUME NEW w \in Workers, WorkerStep(w) \/ Heartbeat(w) PROVE \A j \in JobIds : ReadsKept(j)'
  BY <1>3, WorkerAttempts
<1>4. ASSUME Faulty PROVE \A j \in JobIds : ReadsKept(j)'
  <2>1. faults' = faults + 1 /\ reads' = reads /\ (queue' = queue \/ \E j \in JobIds : queue' = [queue EXCEPT ![j] = "visible"])
    BY <1>4 DEF Faulty, Fault, Stall, Raise, Crash, CrashCopying, CacheHitFails, SummarizeRaises
  <2>2. \A j \in JobIds : queue'[j] = "unsent" => queue[j] = "unsent"
    BY <2>1 DEF TypeOK
  <2> QED
    BY <1>k, <2>1, <2>2, ReadsFault
<1>5. CASE UNCHANGED vars
  BY <1>5, <1>k, <1>q DEF vars, AttemptsInv, ReadsKept, LastAttempt, Holds
<1> QED
  BY <1>1, <1>2, <1>3, <1>4, <1>5, <1>q DEF Next, AttemptsInv

\* Whatever crashes, raises or loses its lease, a job is read at most MaxAttempts times and once
\* more for each fault: no redelivery loop, for any number of workers.
THEOREM AttemptsAreBounded == Spec => []AttemptsBounded
<1>1. Init => AttemptsInv
  <2>1. Init => QueueInv
    BY InitType DEF Init, QueueInv, QueueMatchesHandoff, OneQueuedJobPerKey
  <2>2. Init => \A j \in JobIds : ReadsKept(j)
    BY PipelineAssumption DEF Init, ReadsKept
  <2> QED
    BY <2>1, <2>2 DEF AttemptsInv
<1>2. AttemptsInv => AttemptsBounded
  BY DEF AttemptsInv, ReadsKept, AttemptsBounded
<1> QED
  BY <1>1, <1>2, AttemptsInductive, PTL DEF Spec

-----------------------------------------------------------------------------
(* Archival. *)

\* A process_video message that leaves the queue leaves a completed or failed task behind.
LEMMA ArchiveLast ==
    ASSUME LeaseInv, [Next]_vars, "stall" \notin FaultKinds,
           NEW j \in JobIds, queue[j] # "archived", queue'[j] = "archived", jpart[j] = "task"
    PROVE  status[jtask[j]] \in {"completed", "error"}
<1> TypeOK
  BY DEF LeaseInv, QueueInv, WellFormed
<1>0. ASSUME NEW i \in JobIds, NEW s \in {"visible", "hidden"}, queue' = [queue EXCEPT ![i] = s] PROVE FALSE
  BY <1>0 DEF TypeOK
<1>n. queue' # queue
  OBVIOUS
<1>1. CASE Request
  BY <1>0, <1>1, <1>n, RequestQueue
<1>2. ASSUME NEW i \in JobIds, Expire(i) PROVE FALSE
  BY <1>0, <1>2 DEF Expire
<1>3. ASSUME NEW w \in Workers, WorkerStep(w) \/ Heartbeat(w) PROVE status[jtask[j]] \in {"completed", "error"}
  <2>0. pc[w] # "idle" => job[w] \in JobIds /\ handoff[job[w]] = "queued" /\ queue[job[w]] = "hidden"
    BY HeldQueued
  <2>1. CASE Pipeline(w)
    <3>1. queue' = queue
      BY <2>1 DEF Pipeline, CacheMiss, CacheHit, EnsureOutputs, Supadata, Vtt, FailCaption, PersistRaw,
           PersistScript, Persist, SkipCognition, StartCognition, AdvanceRead, AdvanceWrite, Summarize,
           SaveSummary, SummaryFails, Cleanup, RetryStart, RetryFinish
    <3> QED
      BY <3>1, <1>n
  <2>2. ASSUME NEW i \in JobIds, Read(w, i) PROVE FALSE
    BY <1>0, <2>2 DEF Read
  <2>3. CASE Validate(w) \/ Dispatch(w) \/ MarkFailed(w)
    BY <1>n, <2>3 DEF Validate, Dispatch, MarkFailed
  <2>4. CASE ArchiveInvalid(w) \/ HeartbeatLost(w) \/ Heartbeat(w)
    BY <2>0, <2>4, Literals DEF ArchiveInvalid, HeartbeatLost, Heartbeat
  <2>5. CASE Defer(w)
    <3>1. queue' = [queue EXCEPT ![job[w]] = "hidden"] /\ job[w] \in JobIds
      BY <2>0, <2>5 DEF Defer
    <3> QED
      BY <1>0, <3>1
  <2>6. CASE ArchiveCompleted(w) \/ ArchiveFailed(w)
    <3>1. pc[w] \in {"done", "buried"} /\ (queue' = queue \/ queue' = [queue EXCEPT ![job[w]] = "archived"])
      BY <2>6 DEF ArchiveCompleted, ArchiveFailed, Archive
    <3>2. job[w] = j
      BY <1>n, <3>1 DEF TypeOK
    <3>3. GraphAt(w)
      BY DEF LeaseInv
    <3> QED
      BY <3>1, <3>2, <3>3 DEF GraphAt, Task, Part
  <2> QED
    BY <1>3, <2>1, <2>2, <2>3, <2>4, <2>5, <2>6 DEF WorkerStep
<1>4. CASE Faulty
  <2>1. \/ queue' = queue
        \/ \E i \in JobIds : queue' = [queue EXCEPT ![i] = "visible"]
    BY <1>4 DEF Faulty, Stall, Raise, Crash, CrashCopying, CacheHitFails, SummarizeRaises
  <2> QED
    BY <1>0, <1>n, <2>1
<1>5. CASE UNCHANGED vars
  BY <1>5, <1>n DEF vars
<1> QED
  BY <1>1, <1>2, <1>3, <1>4, <1>5 DEF Next

\* Terminal persistence precedes archival through every crash, exception and redelivery, while live
\* workers keep their leases.
THEOREM TerminalBeforeArchival ==
    ASSUME "stall" \notin FaultKinds
    PROVE  Spec => ArchivedAfterTerminal
<1> DEFINE Step == \A j \in JobIds : queue[j] # "archived" /\ queue'[j] = "archived" /\ jpart[j] = "task"
                        => status[jtask[j]] \in {"completed", "error"}
<1>1. LeaseInv /\ [Next]_vars => [Step]_queue
  BY ArchiveLast
<1> QED
  BY <1>1, LeaseInvariant, PTL DEF Spec, ArchivedAfterTerminal

-----------------------------------------------------------------------------
(* Milestones and summaries.  The worker that is about to write a          *)
(* milestone read a smaller one, and nobody else writes its task's row in  *)
(* between; past the summary step, or out of the cache, there is a summary.*)

HasSummary(t) == \E l \in Locales : content[t][l]

\* A completed output row has its content.
ContentHonest == \A t \in TaskIds, o \in Outputs : ostatus[t][o] = "completed" => content[t][o]

WantedLocale == \A t \in TaskIds : status[t] # "none" => want[t] \in Locales

AdvanceAt(w) ==
    /\ pc[w] \in {"read", "write"} =>
            target[w] \in {80, 85, 92} /\ (target[w] = 92 => HasSummary(Task(w)))
    /\ pc[w] = "write" => progress[Task(w)] < target[w]
    /\ pc[w] = "cleanup" /\ errs[w] = "none" => HasSummary(Task(w))

RowsInv == ContentHonest /\ WantedLocale

AdvanceInv == LeaseInv /\ RowsInv /\ \A w \in Workers : AdvanceAt(w)

\* What a step of w's graph does to the rows: its own task only, and forward.
Forward(w) ==
    /\ want' = want
    /\ \A v \in Workers : v # w => target'[v] = target[v] /\ errs'[v] = errs[v]
    /\ \A t \in TaskIds : t # Task(w) => progress'[t] = progress[t] /\ content'[t] = content[t]
    /\ Part(w) # "task" => progress' = progress /\ (HasSummary(Task(w)) => HasSummary(Task(w))')
    /\ pc[w] = "write" => progress'[Task(w)] >= progress[Task(w)]
    /\ status'[Task(w)] = "completed" /\ status[Task(w)] # "completed" => HasSummary(Task(w))
    /\ ContentHonest' /\ AdvanceAt(w)'

\* Copying completed rows of another task copies their content, and empties none.
LEMMA CopyRows ==
    ASSUME TypeOK, ContentHonest, NEW t \in TaskIds, NEW c \in TaskIds,
           NEW O \in SUBSET CompletedRows(c), CopyOutputs(t, c, O)
    PROVE  /\ ContentHonest'
           /\ \A s \in TaskIds : s # t => content'[s] = content[s]
           /\ \A s \in TaskIds, o \in Outputs : content[s][o] => content'[s][o]
           /\ \A o \in O : content'[t][o]
<1>1. /\ ostatus' = [ostatus EXCEPT ![t] = [o \in Outputs |-> IF o \in O THEN "completed" ELSE ostatus[t][o]]]
      /\ content' = [content EXCEPT ![t] = [o \in Outputs |-> IF o \in O THEN content[c][o] ELSE content[t][o]]]
  BY DEF CopyOutputs, TypeOK
<1>2. /\ \A s \in TaskIds : s # t => content'[s] = content[s] /\ ostatus'[s] = ostatus[s]
      /\ \A o \in Outputs : content'[t][o] = IF o \in O THEN content[c][o] ELSE content[t][o]
      /\ \A o \in Outputs : ostatus'[t][o] = IF o \in O THEN "completed" ELSE ostatus[t][o]
  BY <1>1 DEF TypeOK
<1>3. \A o \in O : o \in Outputs /\ content[c][o]
  BY DEF CompletedRows, ContentHonest
<1>4. ContentHonest'
  BY <1>2, <1>3 DEF ContentHonest
<1> QED
  BY <1>2, <1>3, <1>4

\* A write of one output row touches that row only.
LEMMA OutputFrame ==
    ASSUME TypeOK, NEW t \in TaskIds, NEW o \in Outputs
    PROVE  /\ \A x \in OutStatus : ostatus' = [ostatus EXCEPT ![t][o] = x] =>
                /\ ostatus'[t][o] = x
                /\ \A s \in TaskIds, q \in Outputs : s # t \/ q # o => ostatus'[s][q] = ostatus[s][q]
           /\ \A x \in BOOLEAN : content' = [content EXCEPT ![t][o] = x] =>
                /\ content'[t][o] = x
                /\ \A s \in TaskIds : s # t => content'[s] = content[s]
                /\ \A s \in TaskIds, q \in Outputs : s # t \/ q # o => content'[s][q] = content[s][q]
BY DEF TypeOK

\* A completed write of one output row.
LEMMA CompletesRow ==
    ASSUME TypeOK, ContentHonest, NEW t \in TaskIds, NEW o \in Outputs,
           ostatus' = [ostatus EXCEPT ![t][o] = "completed"],
           content' = [content EXCEPT ![t][o] = TRUE]
    PROVE  /\ ContentHonest'
           /\ content'[t][o]
           /\ \A s \in TaskIds : s # t => content'[s] = content[s]
           /\ \A s \in TaskIds, q \in Outputs : content[s][q] => content'[s][q]
<1>1. "completed" \in OutStatus /\ TRUE \in BOOLEAN
  BY DEF OutStatus, Status
<1>2. /\ content'[t][o] = TRUE
      /\ \A s \in TaskIds : s # t => content'[s] = content[s]
      /\ \A s \in TaskIds, q \in Outputs : s # t \/ q # o => content'[s][q] = content[s][q]
      /\ \A s \in TaskIds, q \in Outputs : s # t \/ q # o => ostatus'[s][q] = ostatus[s][q]
  BY <1>1, OutputFrame
<1>3. content'[t][o]
  BY <1>2
<1>4. \A s \in TaskIds, q \in Outputs : content[s][q] => content'[s][q]
  BY <1>2, <1>3
<1>5. ContentHonest'
  BY <1>2, <1>3 DEF ContentHonest
<1> QED
  BY <1>2, <1>3, <1>4, <1>5

\* A step that writes no content and completes no output row keeps the rows honest.
LEMMA QuietRows ==
    ASSUME ContentHonest, content' = content,
           \A t \in TaskIds, o \in Outputs : ostatus'[t][o] = "completed" => ostatus[t][o] = "completed"
    PROVE  ContentHonest'
BY DEF ContentHonest

\* The milestone that follows: after the last one comes cleanup, and by then there is a summary.
LEMMA AfterAdvanceNext ==
    ASSUME TypeOK, NEW w \in Workers, AfterAdvance(w), target[w] \in {80, 85, 92}
    PROVE  /\ \A v \in Workers : v # w => target'[v] = target[v]
           /\ \/ pc'[w] = "read" /\ target'[w] = 85
              \/ pc'[w] = "summarize"
              \/ pc'[w] = "cleanup" /\ target[w] = 92
<1>1. target' = [target EXCEPT ![w] = IF target[w] = 80 THEN 85 ELSE 0]
  BY DEF AfterAdvance
<1>2. \/ target[w] = 80 /\ Goto(w, "read")
      \/ target[w] = 85 /\ Goto(w, "summarize")
      \/ target[w] = 92 /\ Goto(w, "cleanup")
  BY DEF AfterAdvance
<1> QED
  BY <1>1, <1>2, GotoFrame DEF TypeOK

\* Every step of the graph goes forward.
LEMMA PipelineForward ==
    ASSUME AdvanceInv, NEW w \in Workers, pc[w] # "idle", Pipeline(w)
    PROVE  Forward(w)
<1> TypeOK /\ ContentHonest /\ WantedLocale /\ AdvanceAt(w) /\ GraphAt(w)
  BY DEF AdvanceInv, RowsInv, LeaseInv, QueueInv, WellFormed
<1>0. Task(w) \in TaskIds /\ Part(w) \in Parts /\ status[Task(w)] # "none"
  BY HeldQueued DEF AdvanceInv
<1>frame. UNCHANGED <<queueVars, job>>
  BY <1>0, PipelineFrame
<1>t. Task(w)' = Task(w)
  BY <1>frame DEF Task
<1>l. Locales \subseteq Outputs
  BY DEF Outputs
<1>part. pc[w] \in TaskPCs => Part(w) = "task"
  BY DEF GraphAt
<1>n. progress[Task(w)] \in Nat /\ target[w] \in Nat
  <2>1. progress[Task(w)] \in Percent /\ target[w] \in Percent
    BY <1>0 DEF TypeOK
  <2>2. Percent \subseteq Nat
    BY DEF Percent
  <2> QED
    BY <2>1, <2>2
<1>quiet. ASSUME UNCHANGED <<progress, want, target, errs, content>>,
                 status'[Task(w)] = "completed" => status[Task(w)] = "completed",
                 \A t \in TaskIds, o \in Outputs : ostatus'[t][o] = "completed" => ostatus[t][o] = "completed",
                 NEW p, Goto(w, p), p \notin {"read", "write", "cleanup"}
          PROVE  Forward(w)
  <2>1. ContentHonest'
    BY <1>quiet, QuietRows
  <2>2. AdvanceAt(w)'
    BY <1>quiet, GotoFrame DEF AdvanceAt
  <2>3. progress[Task(w)] \in Nat
    BY <1>n
  <2>4. HasSummary(Task(w)) => HasSummary(Task(w))'
    BY <1>quiet, <1>t DEF HasSummary
  <2> QED
    BY <1>quiet, <2>1, <2>2, <2>3, <2>4 DEF Forward
<1>own. ASSUME pc[w] \in TaskPCs, pc[w] # "write", want' = want,
               \A v \in Workers : v # w => target'[v] = target[v] /\ errs'[v] = errs[v],
               \A t \in TaskIds : t # Task(w) => progress'[t] = progress[t] /\ content'[t] = content[t],
               status'[Task(w)] = "completed" /\ status[Task(w)] # "completed" => HasSummary(Task(w)),
               ContentHonest', AdvanceAt(w)'
        PROVE  Forward(w)
  BY <1>own, <1>part DEF Forward
<1>1. CASE CacheMiss(w)
  BY <1>1, <1>quiet DEF CacheMiss
<1>2. CASE CacheHit(w)
  <2>c. PICK c \in Newest(Scripted(url[Task(w)])) : \E R \in ReusedSummaries(c) :
            /\ CopyOutputs(Task(w), c, (CompletedRows(c) \cap {"script", "script_raw"}) \cup R)
            /\ Goto(w, IF R = {} THEN "cognition" ELSE "cleanup")
    BY <1>2 DEF CacheHit
  <2>1. PICK R \in ReusedSummaries(c) :
            /\ CopyOutputs(Task(w), c, (CompletedRows(c) \cap {"script", "script_raw"}) \cup R)
            /\ Goto(w, IF R = {} THEN "cognition" ELSE "cleanup")
    BY <2>c
  <2>2. c \in TaskIds /\ R \subseteq CompletedRows(c) /\ R \subseteq Locales
    BY DEF Newest, Scripted, ReusedSummaries
  <2>3. (CompletedRows(c) \cap {"script", "script_raw"}) \cup R \in SUBSET CompletedRows(c)
    BY <2>2
  <2>4. /\ ContentHonest'
        /\ \A s \in TaskIds : s # Task(w) => content'[s] = content[s]
        /\ \A o \in R : content'[Task(w)][o]
    BY <1>0, <2>1, <2>2, <2>3, CopyRows
  <2>5. AdvanceAt(w)'
    <3>1. CASE R = {}
      BY <2>1, <3>1, GotoFrame DEF AdvanceAt
    <3>2. CASE R # {}
      <4>1. pc'[w] = "cleanup"
        BY <2>1, <3>2, GotoFrame
      <4>2. HasSummary(Task(w))'
        BY <1>t, <2>2, <2>4, <3>2 DEF HasSummary
      <4> QED
        BY <4>1, <4>2 DEF AdvanceAt
    <3> QED
      BY <3>1, <3>2
  <2> QED
    BY <1>2, <1>own, <2>4, <2>5 DEF CacheHit, TaskPCs
<1>3. CASE EnsureOutputs(w)
  <2>1. \A t \in TaskIds, o \in Outputs : ostatus'[t][o] = "completed" => ostatus[t][o] = "completed"
    <3>1. ostatus' = [ostatus EXCEPT ![Task(w)]["script_raw"] =
                        IF ostatus[Task(w)]["script_raw"] = "none" THEN "pending" ELSE ostatus[Task(w)]["script_raw"]]
      BY <1>0, <1>3 DEF EnsureOutputs, TypeOK, Outputs
    <3> QED
      BY <1>0, <3>1 DEF TypeOK, Outputs
  <2> QED
    BY <1>3, <1>quiet, <2>1 DEF EnsureOutputs
<1>4. CASE Supadata(w) \/ Vtt(w)
  <2>1. /\ \E p : WriteProcessing(Task(w), p)
        /\ \E p \in {"raw", "vtt", "nocaptions"} : Goto(w, p)
        /\ pc[w] \in TaskPCs /\ pc[w] # "write" /\ UNCHANGED <<outVars, localVars>>
    BY <1>4 DEF Supadata, Vtt, TaskPCs
  <2>2. /\ \A t \in TaskIds : t # Task(w) => progress'[t] = progress[t]
        /\ status'[Task(w)] = "completed" => status[Task(w)] = "completed"
        /\ want' = want
    BY <1>0, <2>1 DEF WriteProcessing, TypeOK
  <2>3. AdvanceAt(w)'
    BY <2>1, GotoFrame DEF AdvanceAt
  <2>4. ContentHonest'
    BY <2>1, QuietRows
  <2> QED
    BY <1>own, <2>1, <2>2, <2>3, <2>4
<1>5. CASE FailCaption(w)
  <2>1. CASE status[Task(w)] = "completed" \/ ScriptReady(Task(w))
    BY <1>5, <1>quiet, <2>1 DEF FailCaption
  <2>2. CASE ~(status[Task(w)] = "completed" \/ ScriptReady(Task(w)))
    <3>1. /\ status' = [status EXCEPT ![Task(w)] = "error"]
          /\ errs' = [errs EXCEPT ![w] = "caption"]
          /\ Goto(w, "cognition")
          /\ UNCHANGED <<progress, want, content, target>>
          /\ pc[w] \in TaskPCs /\ pc[w] # "write"
      BY <1>5, <2>2 DEF FailCaption, TaskPCs
    <3>2. ostatus' = [ostatus EXCEPT ![Task(w)] =
                [o \in Outputs |-> IF ostatus[Task(w)][o] \in {"none", "completed"} THEN ostatus[Task(w)][o] ELSE "error"]]
      BY <1>0, <1>5, <2>2 DEF FailCaption, TypeOK
    <3>3. ContentHonest'
      <4>1. \A t \in TaskIds, o \in Outputs : ostatus'[t][o] = "completed" => ostatus[t][o] = "completed"
        BY <1>0, <3>2 DEF TypeOK
      <4> QED
        BY <3>1, <4>1, QuietRows
    <3>4. AdvanceAt(w)'
      BY <3>1, GotoFrame DEF AdvanceAt
    <3>5. status'[Task(w)] # "completed" /\ \A v \in Workers : v # w => errs'[v] = errs[v]
      BY <1>0, <3>1 DEF TypeOK
    <3> QED
      BY <1>own, <3>1, <3>3, <3>4, <3>5
  <2> QED
    BY <2>1, <2>2
<1>6. ASSUME NEW here \in TaskPCs, here # "write", NEW there, there \notin {"read", "write", "cleanup"},
             NEW o \in Outputs, Persist(w, here, there, o)
      PROVE  Forward(w)
  <2>1. /\ ostatus' = [ostatus EXCEPT ![Task(w)][o] = "completed"]
        /\ content' = [content EXCEPT ![Task(w)][o] = TRUE]
        /\ Goto(w, there) /\ pc[w] = here /\ UNCHANGED <<taskVars, target, errs>>
    BY <1>6 DEF Persist
  <2>2. ContentHonest' /\ \A s \in TaskIds : s # Task(w) => content'[s] = content[s]
    BY <1>0, <2>1, CompletesRow
  <2>3. AdvanceAt(w)'
    BY <1>6, <2>1, GotoFrame DEF AdvanceAt
  <2> QED
    BY <1>6, <1>own, <2>1, <2>2, <2>3
<1>7. CASE PersistRaw(w) \/ PersistScript(w)
  BY <1>6, <1>7 DEF PersistRaw, PersistScript, Outputs, TaskPCs
<1>8. CASE SkipCognition(w)
  <2>1. /\ errs' = [errs EXCEPT ![w] = IF errs[w] = "none" THEN "other" ELSE errs[w]]
        /\ Goto(w, "cleanup") /\ UNCHANGED <<taskVars, outVars, target>>
        /\ pc[w] = "cognition"
    BY <1>8 DEF SkipCognition, TypeOK
  <2>2. errs'[w] # "none" /\ \A v \in Workers : v # w => errs'[v] = errs[v]
    BY <2>1 DEF TypeOK
  <2>3. AdvanceAt(w)'
    BY <2>1, <2>2, GotoFrame DEF AdvanceAt
  <2>4. ContentHonest'
    BY <2>1, QuietRows
  <2> QED
    BY <1>own, <2>1, <2>2, <2>3, <2>4 DEF TaskPCs
<1>9. CASE StartCognition(w)
  <2>1. /\ target' = [target EXCEPT ![w] = 80] /\ Goto(w, "read")
        /\ UNCHANGED <<taskVars, outVars, errs>> /\ pc[w] = "cognition"
    BY <1>9 DEF StartCognition
  <2>2. target'[w] = 80 /\ \A v \in Workers : v # w => target'[v] = target[v]
    BY <2>1 DEF TypeOK
  <2>3. AdvanceAt(w)'
    BY <2>1, <2>2, GotoFrame DEF AdvanceAt
  <2>4. ContentHonest'
    BY <2>1, QuietRows
  <2> QED
    BY <1>own, <2>1, <2>2, <2>3, <2>4 DEF TaskPCs
<1>10. ASSUME AfterAdvance(w), pc[w] \in {"read", "write"}, UNCHANGED <<outVars, errs>>
       PROVE  /\ \A v \in Workers : v # w => target'[v] = target[v]
              /\ ContentHonest' /\ AdvanceAt(w)'
  <2>1. target[w] \in {80, 85, 92} /\ (target[w] = 92 => HasSummary(Task(w)))
    BY <1>10 DEF AdvanceAt
  <2>2. /\ \A v \in Workers : v # w => target'[v] = target[v]
        /\ \/ pc'[w] = "read" /\ target'[w] = 85
           \/ pc'[w] = "summarize"
           \/ pc'[w] = "cleanup" /\ target[w] = 92
    BY <1>10, <2>1, AfterAdvanceNext
  <2>3. HasSummary(Task(w)) => HasSummary(Task(w))'
    BY <1>10, <1>t DEF HasSummary
  <2>4. AdvanceAt(w)'
    BY <2>1, <2>2, <2>3 DEF AdvanceAt
  <2>5. ContentHonest'
    BY <1>10, QuietRows
  <2> QED
    BY <2>2, <2>4, <2>5
<1>11. CASE AdvanceRead(w)
  <2>0. pc[w] = "read" /\ UNCHANGED <<taskVars, outVars, errs>>
    BY <1>11 DEF AdvanceRead
  <2>1. CASE target[w] > progress[Task(w)]
    <3>1. Goto(w, "write") /\ target' = target
      BY <1>11, <2>1 DEF AdvanceRead
    <3>2. HasSummary(Task(w))' <=> HasSummary(Task(w))
      BY <1>t, <2>0 DEF HasSummary
    <3>4. AdvanceAt(w)'
      BY <1>n, <1>t, <2>0, <2>1, <3>1, <3>2, GotoFrame DEF AdvanceAt
    <3>5. ContentHonest'
      BY <2>0, QuietRows
    <3> QED
      BY <1>own, <2>0, <3>1, <3>4, <3>5 DEF TaskPCs
  <2>2. CASE ~(target[w] > progress[Task(w)])
    <3>1. AfterAdvance(w)
      BY <1>11, <2>2 DEF AdvanceRead
    <3> QED
      BY <1>10, <1>own, <2>0, <3>1 DEF TaskPCs
  <2> QED
    BY <2>1, <2>2
<1>12. CASE AdvanceWrite(w)
  <2>1. /\ pc[w] = "write" /\ WriteProcessing(Task(w), target[w]) /\ AfterAdvance(w)
        /\ UNCHANGED <<outVars, errs>>
    BY <1>12 DEF AdvanceWrite
  <2>2. progress[Task(w)] < target[w]
    BY <2>1 DEF AdvanceAt
  <2>3. /\ \A t \in TaskIds : t # Task(w) => progress'[t] = progress[t]
        /\ progress'[Task(w)] \in {progress[Task(w)], target[w]}
        /\ status'[Task(w)] = "completed" => status[Task(w)] = "completed"
        /\ want' = want
    BY <1>0, <2>1 DEF WriteProcessing, TypeOK
  <2>4. Part(w) = "task"
    BY <1>part, <2>1 DEF TaskPCs
  <2> QED
    BY <1>10, <1>n, <2>1, <2>2, <2>3, <2>4 DEF Forward
<1>13. CASE Summarize(w)
  <2>0. pc[w] = "summarize" /\ UNCHANGED <<taskVars, outVars, errs>>
    BY <1>13 DEF Summarize
  <2>1. CASE ostatus[Task(w)][want[Task(w)]] = "completed" /\ content[Task(w)][want[Task(w)]]
    <3>1. Goto(w, "read") /\ target' = [target EXCEPT ![w] = 92]
      BY <1>13, <2>1 DEF Summarize
    <3>2. HasSummary(Task(w))'
      BY <1>0, <1>t, <2>0, <2>1 DEF HasSummary, WantedLocale
    <3>3. target'[w] = 92 /\ \A v \in Workers : v # w => target'[v] = target[v]
      BY <3>1 DEF TypeOK
    <3>4. AdvanceAt(w)'
      BY <3>1, <3>2, <3>3, GotoFrame DEF AdvanceAt
    <3>5. ContentHonest'
      BY <2>0, QuietRows
    <3> QED
      BY <1>own, <2>0, <3>3, <3>4, <3>5 DEF TaskPCs
  <2>2. CASE ~(ostatus[Task(w)][want[Task(w)]] = "completed" /\ content[Task(w)][want[Task(w)]])
    BY <1>13, <1>quiet, <2>2 DEF Summarize
  <2> QED
    BY <2>1, <2>2
<1>14. CASE SaveSummary(w)
  <2>1. /\ ostatus' = [ostatus EXCEPT ![Task(w)][want[Task(w)]] = "completed"]
        /\ content' = [content EXCEPT ![Task(w)][want[Task(w)]] = TRUE]
        /\ target' = [target EXCEPT ![w] = 92] /\ Goto(w, "read")
        /\ UNCHANGED <<taskVars, errs>> /\ pc[w] = "save"
    BY <1>14 DEF SaveSummary
  <2>2. want[Task(w)] \in Locales /\ want[Task(w)] \in Outputs
    BY <1>0, <1>l DEF WantedLocale
  <2>3. /\ ContentHonest' /\ content'[Task(w)][want[Task(w)]]
        /\ \A s \in TaskIds : s # Task(w) => content'[s] = content[s]
    BY <1>0, <2>1, <2>2, CompletesRow
  <2>4. target'[w] = 92 /\ \A v \in Workers : v # w => target'[v] = target[v]
    BY <2>1 DEF TypeOK
  <2>5. HasSummary(Task(w))'
    BY <1>t, <2>2, <2>3 DEF HasSummary
  <2>6. AdvanceAt(w)'
    BY <2>1, <2>4, <2>5, GotoFrame DEF AdvanceAt
  <2> QED
    BY <1>own, <2>1, <2>3, <2>4, <2>6 DEF TaskPCs
<1>15. CASE SummaryFails(w)
  <2>1. /\ ostatus' = [ostatus EXCEPT ![Task(w)][want[Task(w)]] = "error"]
        /\ content' = [content EXCEPT ![Task(w)][want[Task(w)]] = FALSE]
        /\ errs' = [errs EXCEPT ![w] = "other"] /\ Goto(w, "cleanup")
        /\ UNCHANGED <<taskVars, target>> /\ pc[w] = "save"
    BY <1>15 DEF SummaryFails
  <2>2. want[Task(w)] \in Outputs /\ "error" \in OutStatus /\ FALSE \in BOOLEAN
    BY <1>0, <1>l DEF WantedLocale, OutStatus, Status
  <2>3. /\ \A s \in TaskIds : s # Task(w) => content'[s] = content[s]
        /\ \A s \in TaskIds, q \in Outputs : s # Task(w) \/ q # want[Task(w)] => content'[s][q] = content[s][q]
    BY <1>0, <2>1, <2>2, OutputFrame
  <2>o. /\ ostatus'[Task(w)][want[Task(w)]] = "error"
        /\ \A s \in TaskIds, q \in Outputs : s # Task(w) \/ q # want[Task(w)] => ostatus'[s][q] = ostatus[s][q]
    BY <1>0, <2>1, <2>2, OutputFrame
  <2>4. ContentHonest'
    BY <2>3, <2>o DEF ContentHonest
  <2>5. errs'[w] = "other" /\ \A v \in Workers : v # w => errs'[v] = errs[v]
    BY <2>1 DEF TypeOK
  <2>6. AdvanceAt(w)'
    BY <2>1, <2>5, GotoFrame DEF AdvanceAt
  <2> QED
    BY <1>own, <2>1, <2>3, <2>4, <2>5, <2>6 DEF TaskPCs
<1>16. CASE Cleanup(w)
  <2>1. /\ progress' = [progress EXCEPT ![Task(w)] = 100]
        /\ status' = [status EXCEPT ![Task(w)] = IF errs[w] = "none" THEN "completed" ELSE "error"]
        /\ \E p \in {"done", "reject", "failed"} : Goto(w, p)
        /\ UNCHANGED <<want, outVars, localVars>> /\ pc[w] = "cleanup"
    BY <1>16 DEF Cleanup
  <2>2. status'[Task(w)] = "completed" => HasSummary(Task(w))
    BY <1>0, <2>1 DEF AdvanceAt, TypeOK
  <2>3. \A t \in TaskIds : t # Task(w) => progress'[t] = progress[t]
    BY <2>1 DEF TypeOK
  <2>4. ContentHonest'
    BY <2>1, QuietRows
  <2>5. AdvanceAt(w)'
    BY <2>1, GotoFrame DEF AdvanceAt
  <2> QED
    BY <1>own, <2>1, <2>2, <2>3, <2>4, <2>5 DEF TaskPCs
<1>17. CASE RetryStart(w)
  <2>1. \E p \in {"rewrite", "failed", "reject"} : Goto(w, p)
    BY <1>17 DEF RetryStart
  <2>2. ostatus' = [ostatus EXCEPT ![Task(w)][Part(w)] = "processing"] \/ ostatus' = ostatus
    BY <1>17 DEF RetryStart
  <2>3. Part(w) \in Outputs
    BY <1>0, <1>17 DEF RetryStart, GraphAt, Parts
  <2>4. \A t \in TaskIds, o \in Outputs : ostatus'[t][o] = "completed" => ostatus[t][o] = "completed"
    <3>1. "processing" \in OutStatus
      BY DEF OutStatus, Status
    <3> QED
      BY <1>0, <2>2, <2>3, <3>1, OutputFrame
  <2> QED
    BY <1>17, <1>quiet, <2>1, <2>4 DEF RetryStart
<1>18. CASE RetryFinish(w)
  <2>1. CASE Goto(w, "failed") /\ UNCHANGED outVars
    BY <1>18, <1>quiet, <2>1 DEF RetryFinish
  <2>2. CASE ~(Goto(w, "failed") /\ UNCHANGED outVars)
    <3>1. /\ ostatus' = [ostatus EXCEPT ![Task(w)][Part(w)] = "completed"]
          /\ content' = [content EXCEPT ![Task(w)][Part(w)] = TRUE]
          /\ Goto(w, "done") /\ UNCHANGED <<taskVars, target, errs>> /\ pc[w] = "rewrite"
      BY <1>18, <2>2 DEF RetryFinish
    <3>2. Part(w) \in Outputs
      BY <1>0, <3>1 DEF GraphAt, Parts
    <3>3. /\ ContentHonest'
          /\ \A s \in TaskIds : s # Task(w) => content'[s] = content[s]
          /\ \A s \in TaskIds, q \in Outputs : content[s][q] => content'[s][q]
      BY <1>0, <3>1, <3>2, CompletesRow
    <3>4. HasSummary(Task(w)) => HasSummary(Task(w))'
      BY <1>0, <1>l, <1>t, <3>3 DEF HasSummary
    <3>5. AdvanceAt(w)'
      BY <3>1, GotoFrame DEF AdvanceAt
    <3> QED
      BY <3>1, <3>3, <3>4, <3>5 DEF Forward
  <2> QED
    BY <2>1, <2>2
<1> QED
  BY <1>1, <1>2, <1>3, <1>4, <1>5, <1>7, <1>8, <1>9, <1>11, <1>12, <1>13, <1>14, <1>15, <1>16,
     <1>17, <1>18 DEF Pipeline

\* A worker whose own variables a step leaves alone stays as far as it was, if the step leaves its
\* task's progress alone and empties no summary of it.
LEMMA Undisturbed ==
    ASSUME NEW v \in Workers, AdvanceAt(v), pc'[v] = pc[v], target'[v] = target[v], errs'[v] = errs[v],
           pc[v] \in {"read", "write", "cleanup"} =>
                /\ Task(v)' = Task(v) /\ progress'[Task(v)] = progress[Task(v)]
                /\ HasSummary(Task(v)) => HasSummary(Task(v))'
    PROVE  AdvanceAt(v)'
BY DEF AdvanceAt

\* What the requests do to the rows: they empty and complete no output, and take back the progress
\* only of a task that has no queued process_video job.
LEMMA RequestRows ==
    ASSUME LeaseInv, RowsInv, Request
    PROVE  /\ content' = content /\ RowsInv'
           /\ \A t \in TaskIds : progress'[t] = progress[t] \/ ~Queued(t, "task")
           /\ \A t \in TaskIds : status'[t] = "completed" => status[t] = "completed"
<1> TypeOK /\ ContentHonest /\ WantedLocale
  BY DEF LeaseInv, QueueInv, WellFormed, RowsInv
<1> DEFINE NoneCompleted ==
             \A t \in TaskIds, o \in Outputs : ostatus'[t][o] = "completed" => ostatus[t][o] = "completed"
<1> DEFINE Rows == /\ content' = content /\ RowsInv'
                   /\ \A t \in TaskIds : progress'[t] = progress[t] \/ ~Queued(t, "task")
                   /\ \A t \in TaskIds : status'[t] = "completed" => status[t] = "completed"
<1>p. "pending" \in OutStatus
  BY DEF OutStatus, Status
<1>1. ASSUME NEW u \in Urls, ReuseInflight(u) PROVE Rows
  BY <1>1 DEF ReuseInflight, RowsInv, ContentHonest, WantedLocale
<1>2. ASSUME NEW u \in Urls, NEW l \in Locales, ReuseScript(u, l) PROVE Rows
  <2>1. PICK t \in TaskIds : ostatus' = [ostatus EXCEPT ![t][l] = "pending"]
    BY <1>2 DEF ReuseScript, Newest, Scripted
  <2>2. UNCHANGED <<taskVars, content>>
    BY <1>2 DEF ReuseScript
  <2>3. NoneCompleted
    <3>1. l \in Outputs
      BY DEF Outputs
    <3> QED
      BY <1>p, <2>1, <3>1, OutputFrame
  <2>4. ContentHonest'
    BY <2>2, <2>3, QuietRows
  <2> QED
    BY <2>2, <2>4 DEF RowsInv, WantedLocale
<1>3. ASSUME NEW u \in Urls, NEW l \in Locales, SubmitNew(u, l) PROVE Rows
  <2>1. PICK t \in TaskIds :
            /\ status' = [status EXCEPT ![t] = "pending"]
            /\ want'   = [want EXCEPT ![t] = l]
            /\ ostatus' = [ostatus EXCEPT ![t]["script"] = "pending", ![t][l] = "pending"]
    BY <1>3 DEF SubmitNew
  <2>2. UNCHANGED <<progress, content>>
    BY <1>3 DEF SubmitNew
  <2>3. NoneCompleted
    <3>1. ostatus' = [ostatus EXCEPT ![t] = [[ostatus[t] EXCEPT !["script"] = "pending"] EXCEPT ![l] = "pending"]]
      BY <2>1 DEF TypeOK
    <3>2. \A o \in Outputs : [[ostatus[t] EXCEPT !["script"] = "pending"] EXCEPT ![l] = "pending"][o]
                                \in {"pending", ostatus[t][o]}
      BY DEF TypeOK
    <3> QED
      BY <3>1, <3>2 DEF TypeOK
  <2>4. ContentHonest'
    BY <2>2, <2>3, QuietRows
  <2>5. WantedLocale'
    BY <2>1 DEF WantedLocale, TypeOK
  <2>6. \A s \in TaskIds : status'[s] = "completed" => status[s] = "completed"
    BY <2>1 DEF TypeOK
  <2> QED
    BY <2>2, <2>4, <2>5, <2>6 DEF RowsInv
<1>4. ASSUME NEW t \in TaskIds, RetryTask(t) PROVE Rows
  <2>1. /\ ~Queued(t, "task") /\ status[t] = "error"
        /\ status' = [status EXCEPT ![t] = "pending"]
        /\ progress' = [progress EXCEPT ![t] = 0]
        /\ ostatus' = [ostatus EXCEPT ![t] =
                [o \in Outputs |-> IF ostatus[t][o] \in {"none", "completed"} THEN ostatus[t][o] ELSE "pending"]]
        /\ UNCHANGED <<want, content>>
    BY <1>4 DEF RetryTask, TypeOK
  <2>2. NoneCompleted
    BY <2>1 DEF TypeOK
  <2>3. ContentHonest'
    BY <2>1, <2>2, QuietRows
  <2>4. /\ \A s \in TaskIds : s # t => progress'[s] = progress[s] /\ status'[s] = status[s]
        /\ status'[t] = "pending"
    BY <2>1 DEF TypeOK
  <2>5. WantedLocale'
    BY <2>1, <2>4 DEF WantedLocale
  <2> QED
    BY <2>1, <2>3, <2>4, <2>5 DEF RowsInv
<1>5. ASSUME NEW t \in TaskIds, NEW o \in Outputs, RetryOutput(t, o) PROVE Rows
  <2>1. ostatus' = [ostatus EXCEPT ![t][o] = "pending"] /\ UNCHANGED <<taskVars, content>>
    BY <1>5 DEF RetryOutput
  <2>2. NoneCompleted
    BY <1>p, <2>1, OutputFrame
  <2>3. ContentHonest'
    BY <2>1, <2>2, QuietRows
  <2> QED
    BY <2>1, <2>3 DEF RowsInv, WantedLocale
<1> QED
  BY <1>1, <1>2, <1>3, <1>4, <1>5 DEF Request

\* Every other step of a worker writes neither progress nor content and completes nothing.
LEMMA DeliveryRows ==
    ASSUME LeaseInv, RowsInv, NEW w \in Workers, WorkerStep(w) \/ Heartbeat(w) \/ Raise(w) \/ Crash(w), ~Pipeline(w)
    PROVE  /\ UNCHANGED <<progress, content>> /\ RowsInv'
           /\ \A v \in Workers : v # w => pc'[v] = pc[v] /\ target'[v] = target[v] /\ errs'[v] = errs[v]
           /\ \A t \in TaskIds : status'[t] = "completed" => status[t] = "completed"
           /\ UNCHANGED <<jtask, jpart>>
           /\ \A v \in Workers : v # w => job'[v] = job[v]
           /\ \/ pc'[w] \notin {"read", "write", "cleanup"}
              \/ UNCHANGED workerVars
<1> TypeOK /\ ContentHonest /\ WantedLocale
  BY DEF LeaseInv, QueueInv, WellFormed, RowsInv
<1>0. pc[w] # "idle" => Task(w) \in TaskIds /\ Part(w) \in Parts /\ status[Task(w)] # "none"
  BY HeldQueued
<1>rest. ASSUME UNCHANGED <<taskVars, outVars>>
         PROVE  /\ UNCHANGED <<progress, content>> /\ RowsInv'
                /\ \A t \in TaskIds : status'[t] = "completed" => status[t] = "completed"
  BY <1>rest DEF RowsInv, ContentHonest, WantedLocale
<1>jump. ASSUME NEW p, Goto(w, p), p \notin {"read", "write", "cleanup"}
         PROVE  /\ \A v \in Workers : v # w => pc'[v] = pc[v]
                /\ pc'[w] \notin {"read", "write", "cleanup"}
  BY <1>jump, GotoFrame
<1>free. ASSUME Release(w)
         PROVE  /\ pc'[w] = "idle"
                /\ \A v \in Workers : v # w =>
                        pc'[v] = pc[v] /\ job'[v] = job[v] /\ target'[v] = target[v] /\ errs'[v] = errs[v]
  BY <1>free DEF Release, TypeOK
<1>1. ASSUME NEW j \in JobIds, Read(w, j)
      PROVE  /\ UNCHANGED <<taskVars, outVars, jtask, jpart, target, errs>> /\ Goto(w, "validate")
             /\ \A v \in Workers : v # w => job'[v] = job[v]
  BY <1>1 DEF Read, TypeOK
<1>2. CASE Validate(w) \/ Raise(w)
  <2>1. /\ UNCHANGED <<taskVars, outVars, jtask, jpart, job, target, errs>>
        /\ \E p \in {"dispatch", "failed"} : Goto(w, p)
    BY <1>2 DEF Validate, Raise
  <2> QED
    BY <1>jump, <1>rest, <2>1
<1>3. CASE Heartbeat(w)
  BY <1>3, <1>rest DEF Heartbeat
<1>4. CASE ArchiveInvalid(w) \/ HeartbeatLost(w) \/ Defer(w) \/ ArchiveCompleted(w) \/ ArchiveFailed(w) \/ Crash(w)
  <2>1. UNCHANGED <<taskVars, outVars, jtask, jpart>> /\ Release(w)
    BY <1>4 DEF ArchiveInvalid, HeartbeatLost, Defer, ArchiveCompleted, ArchiveFailed, Archive, Crash
  <2> QED
    BY <1>free, <1>rest, <2>1
<1>5. CASE Dispatch(w)
  <2>1. \E p \in {"done", "reject", "cache", "retry"} : Goto(w, p)
    BY <1>5 DEF Dispatch
  <2>2. errs' = errs \/ errs' = [errs EXCEPT ![w] = "caption"]
    BY <1>5 DEF Dispatch
  <2>3. \A v \in Workers : v # w => errs'[v] = errs[v]
    BY <2>2 DEF TypeOK
  <2> QED
    BY <1>5, <1>jump, <1>rest, <2>1, <2>3 DEF Dispatch
<1>6. CASE MarkFailed(w)
  <2>1. /\ Goto(w, "buried") /\ UNCHANGED <<progress, want, content, queueVars, localVars>> /\ pc[w] # "idle"
    BY <1>6 DEF MarkFailed
  <2>2. \/ status' = status \/ status' = [status EXCEPT ![Task(w)] = "error"]
    BY <1>6 DEF MarkFailed, MarkTaskFailed
  <2>3. \A t \in TaskIds : /\ status'[t] = "completed" => status[t] = "completed"
                           /\ status'[t] # "none" => status[t] # "none"
    BY <1>0, <2>1, <2>2 DEF TypeOK
  <2>4. \A t \in TaskIds, o \in Outputs : ostatus'[t][o] = "completed" => ostatus[t][o] = "completed"
    <3>1. CASE Part(w) = "task"
      BY <1>6, <3>1 DEF MarkFailed
    <3>2. CASE Part(w) # "task"
      <4>1. Part(w) \in Outputs /\ "error" \in OutStatus /\ ostatus[Task(w)][Part(w)] \in OutStatus
        BY <1>0, <2>1, <3>2 DEF Parts, OutStatus, Status, TypeOK
      <4>2. \E s \in {"error", ostatus[Task(w)][Part(w)]} : ostatus' = [ostatus EXCEPT ![Task(w)][Part(w)] = s]
        BY <1>0, <1>6, <2>1, <3>2, <4>1 DEF MarkFailed, TypeOK
      <4> QED
        BY <1>0, <2>1, <4>1, <4>2, OutputFrame
    <3> QED
      BY <3>1, <3>2
  <2>5. ContentHonest'
    BY <2>1, <2>4, QuietRows
  <2>6. WantedLocale'
    BY <2>1, <2>3 DEF WantedLocale
  <2> QED
    BY <1>jump, <2>1, <2>3, <2>5, <2>6 DEF RowsInv
<1>7. ASSUME NEW j \in JobIds, Read(w, j)
      PROVE  /\ UNCHANGED <<progress, content>> /\ RowsInv'
             /\ \A v \in Workers : v # w => pc'[v] = pc[v] /\ target'[v] = target[v] /\ errs'[v] = errs[v]
             /\ \A t \in TaskIds : status'[t] = "completed" => status[t] = "completed"
             /\ UNCHANGED <<jtask, jpart>>
             /\ \A v \in Workers : v # w => job'[v] = job[v]
             /\ pc'[w] \notin {"read", "write", "cleanup"}
  BY <1>1, <1>7, <1>jump, <1>rest
<1> QED
  BY <1>2, <1>3, <1>4, <1>5, <1>6, <1>7 DEF WorkerStep

\* A raised exception or a crash inside the graph writes no progress; copied rows are complete ones.
LEMMA GraphFaultRows ==
    ASSUME AdvanceInv, NEW w \in Workers, CacheHitFails(w) \/ CrashCopying(w) \/ SummarizeRaises(w)
    PROVE  /\ UNCHANGED <<taskVars, jtask, jpart>> /\ RowsInv'
           /\ \A v \in Workers : v # w => /\ pc'[v] = pc[v] /\ target'[v] = target[v] /\ errs'[v] = errs[v]
                                          /\ job'[v] = job[v]
           /\ \A t \in TaskIds : HasSummary(t) => HasSummary(t)'
           /\ AdvanceAt(w)'
           /\ pc[w] # "write"
<1> TypeOK /\ ContentHonest /\ WantedLocale
  BY DEF AdvanceInv, RowsInv, LeaseInv, QueueInv, WellFormed
<1>l. Locales \subseteq Outputs
  BY DEF Outputs
<1>0. Task(w) \in TaskIds
  <2>1. pc[w] # "idle"
    BY DEF CacheHitFails, CrashCopying, SummarizeRaises
  <2> QED
    BY <2>1, HeldQueued DEF AdvanceInv
<1>1. CASE CacheHitFails(w)
  <2>1. PICK c \in Newest(Scripted(url[Task(w)])) : \E O \in SUBSET CompletedRows(c) :
            /\ CopyOutputs(Task(w), c, O)
            /\ \/ Goto(w, IF O \cap Locales = {} THEN "cognition" ELSE "cleanup")
               \/ "script" \notin O /\ Goto(w, "ingest")
    BY <1>1 DEF CacheHitFails
  <2>2. PICK O \in SUBSET CompletedRows(c) :
            /\ CopyOutputs(Task(w), c, O)
            /\ \/ Goto(w, IF O \cap Locales = {} THEN "cognition" ELSE "cleanup")
               \/ "script" \notin O /\ Goto(w, "ingest")
    BY <2>1
  <2>3. c \in TaskIds
    BY DEF Newest, Scripted
  <2>4. /\ ContentHonest'
        /\ \A s \in TaskIds, o \in Outputs : content[s][o] => content'[s][o]
        /\ \A o \in O : content'[Task(w)][o]
    BY <1>0, <2>2, <2>3, CopyRows
  <2>5. UNCHANGED <<taskVars, queueVars, job, errs, target>> /\ pc[w] = "cache"
    BY <1>1 DEF CacheHitFails
  <2>6. AdvanceAt(w)'
    <3>1. CASE Goto(w, "cognition") \/ Goto(w, "ingest")
      BY <3>1, GotoFrame DEF AdvanceAt
    <3>2. CASE Goto(w, "cleanup") /\ O \cap Locales # {}
      <4>1. HasSummary(Task(w))'
        BY <2>4, <2>5, <3>2 DEF HasSummary, Task
      <4> QED
        BY <3>2, <4>1, GotoFrame DEF AdvanceAt
    <3> QED
      BY <2>2, <3>1, <3>2
  <2>7. \E p : Goto(w, p)
    BY <2>2
  <2>8. \A v \in Workers : v # w => pc'[v] = pc[v]
    BY <2>7, GotoFrame
  <2> QED
    BY <1>l, <2>4, <2>5, <2>6, <2>8 DEF RowsInv, WantedLocale, HasSummary
<1>2. CASE CrashCopying(w)
  <2>1. PICK c \in Newest(Scripted(url[Task(w)])) : \E O \in SUBSET CompletedRows(c) : CopyOutputs(Task(w), c, O)
    BY <1>2 DEF CrashCopying
  <2>2. PICK O \in SUBSET CompletedRows(c) : CopyOutputs(Task(w), c, O)
    BY <2>1
  <2>3. c \in TaskIds
    BY DEF Newest, Scripted
  <2>4. ContentHonest' /\ \A s \in TaskIds, o \in Outputs : content[s][o] => content'[s][o]
    BY <1>0, <2>2, <2>3, CopyRows
  <2>5. UNCHANGED <<taskVars, queueVars>> /\ pc[w] = "cache" /\ Release(w)
    BY <1>2 DEF CrashCopying
  <2>6. /\ pc'[w] = "idle"
        /\ \A v \in Workers : v # w => /\ pc'[v] = pc[v] /\ target'[v] = target[v] /\ errs'[v] = errs[v]
                                       /\ job'[v] = job[v]
    BY <2>5 DEF Release, TypeOK
  <2> QED
    BY <1>l, <2>4, <2>5, <2>6 DEF RowsInv, WantedLocale, HasSummary, AdvanceAt
<1>3. CASE SummarizeRaises(w)
  <2>1. /\ errs' = [errs EXCEPT ![w] = "other"] /\ Goto(w, "cleanup") /\ pc[w] = "summarize"
        /\ UNCHANGED <<taskVars, outVars, queueVars, job, target>>
    BY <1>3 DEF SummarizeRaises
  <2>2. errs'[w] = "other" /\ \A v \in Workers : v # w => errs'[v] = errs[v]
    BY <2>1 DEF TypeOK
  <2>3. RowsInv'
    BY <2>1 DEF RowsInv, ContentHonest, WantedLocale
  <2>4. \A t \in TaskIds : HasSummary(t) => HasSummary(t)'
    BY <2>1 DEF HasSummary
  <2>5. AdvanceAt(w)' /\ \A v \in Workers : v # w => pc'[v] = pc[v]
    BY <2>1, <2>2, GotoFrame DEF AdvanceAt
  <2> QED
    BY <2>1, <2>2, <2>3, <2>4, <2>5
<1> QED
  BY <1>1, <1>2, <1>3

MovesForward ==
    \A w \in Workers : pc[w] = "write" /\ pc'[w] # "write" /\ job'[w] = job[w]
        => progress'[Task(w)] >= progress[Task(w)]

CompletesShown ==
    \A t \in TaskIds : status[t] # "completed" /\ status'[t] = "completed" => \E l \in Locales : content[t][l]

\* A step that moves no worker's variables but w's, writes the progress of w's task only and empties
\* no summary of another task keeps everybody where the invariant wants it.
LEMMA OneMover ==
    ASSUME AdvanceInv, LeaseInv', RowsInv', NEW w \in Workers, AdvanceAt(w)',
           UNCHANGED <<jtask, jpart>>,
           \A v \in Workers : v # w => /\ pc'[v] = pc[v] /\ target'[v] = target[v] /\ errs'[v] = errs[v]
                                       /\ job'[v] = job[v],
           \A t \in TaskIds : \/ progress'[t] = progress[t] /\ (HasSummary(t) => HasSummary(t)')
                              \/ t = Task(w) /\ pc[w] # "idle" /\ Part(w) = "task"
    PROVE  AdvanceInv'
<1> SUFFICES ASSUME NEW v \in Workers, v # w PROVE AdvanceAt(v)'
  BY DEF AdvanceInv
<1>1. AdvanceAt(v) /\ GraphAt(v)
  BY DEF AdvanceInv, LeaseInv
<1>2. Task(v)' = Task(v)
  BY DEF Task
<1>3. ASSUME pc[v] \in {"read", "write", "cleanup"}
      PROVE  progress'[Task(v)] = progress[Task(v)] /\ (HasSummary(Task(v)) => HasSummary(Task(v))')
  <2>1. pc[v] # "idle" /\ Part(v) = "task"
    BY <1>1, <1>3 DEF GraphAt, TaskPCs
  <2>2. Task(v) \in TaskIds
    BY <2>1, HeldQueued DEF AdvanceInv
  <2>3. pc[w] # "idle" /\ Part(w) = "task" => Task(v) # Task(w)
    BY <2>1, SoleWriter DEF AdvanceInv
  <2> QED
    BY <1>2, <2>2, <2>3 DEF HasSummary
<1> QED
  BY <1>1, <1>2, <1>3, Undisturbed

\* The invariant is inductive while live workers keep their leases, and every step moves milestones
\* forward and completes a task only with a summary.
LEMMA AdvanceInductive ==
    ASSUME AdvanceInv, [Next]_vars, "stall" \notin FaultKinds
    PROVE  AdvanceInv' /\ MovesForward /\ CompletesShown
<1> LeaseInv /\ LeaseInv' /\ RowsInv
  BY LeaseInductive DEF AdvanceInv
<1> TypeOK /\ TypeOK'
  BY DEF LeaseInv, QueueInv, WellFormed
<1>n. \A w \in Workers : pc[w] # "idle" => Task(w) \in TaskIds /\ progress[Task(w)] \in Nat
  <2>1. Percent \subseteq Nat
    BY DEF Percent
  <2> QED
    BY <2>1, HeldQueued DEF TypeOK
<1>same. ASSUME progress' = progress PROVE MovesForward
  BY <1>n, <1>same DEF MovesForward
<1>none. ASSUME \A t \in TaskIds : status'[t] = "completed" => status[t] = "completed" PROVE CompletesShown
  BY <1>none DEF CompletesShown
<1>1. CASE Request
  <2>1. UNCHANGED workerVars
    BY <1>1, RequestQueue
  <2>2. /\ content' = content /\ RowsInv'
        /\ \A t \in TaskIds : progress'[t] = progress[t] \/ ~Queued(t, "task")
        /\ \A t \in TaskIds : status'[t] = "completed" => status[t] = "completed"
    BY <1>1, RequestRows
  <2>3. \A j \in JobIds : handoff[j] # "none" => jtask'[j] = jtask[j]
    BY <1>1, RequestFrame DEF LeaseInv
  <2>4. ASSUME NEW v \in Workers PROVE AdvanceAt(v)'
    <3>1. AdvanceAt(v) /\ GraphAt(v)
      BY DEF AdvanceInv, LeaseInv
    <3>2. ASSUME pc[v] \in {"read", "write", "cleanup"}
          PROVE  /\ Task(v)' = Task(v) /\ progress'[Task(v)] = progress[Task(v)]
                 /\ HasSummary(Task(v)) => HasSummary(Task(v))'
      <4>1. pc[v] # "idle" /\ Part(v) = "task"
        BY <3>1, <3>2 DEF GraphAt, TaskPCs
      <4>2. Task(v) \in TaskIds /\ Queued(Task(v), "task") /\ job[v] \in JobIds /\ handoff[job[v]] # "none"
        BY <4>1, HeldQueued
      <4>3. Task(v)' = Task(v)
        BY <2>1, <2>3, <4>2 DEF Task
      <4> QED
        BY <2>2, <4>2, <4>3 DEF HasSummary
    <3> QED
      BY <2>1, <3>1, <3>2, Undisturbed
  <2> QED
    BY <1>none, <2>1, <2>2, <2>4 DEF AdvanceInv, MovesForward
<1>2. ASSUME NEW j \in JobIds, Expire(j) PROVE AdvanceInv' /\ MovesForward /\ CompletesShown
  <2>1. UNCHANGED <<taskVars, outVars, jtask, jpart, workerVars>>
    BY <1>2 DEF Expire
  <2>2. AdvanceInv'
    BY <2>1 DEF AdvanceInv, RowsInv, ContentHonest, WantedLocale, AdvanceAt, Task, HasSummary
  <2> QED
    BY <1>none, <1>same, <2>1, <2>2
<1>3. ASSUME NEW w \in Workers, Pipeline(w) PROVE AdvanceInv' /\ MovesForward /\ CompletesShown
  <2>1. pc[w] # "idle"
    BY <1>3 DEF Pipeline, CacheMiss, CacheHit, EnsureOutputs, Supadata, Vtt, FailCaption, PersistRaw,
         PersistScript, Persist, SkipCognition, StartCognition, AdvanceRead, AdvanceWrite, Summarize,
         SaveSummary, SummaryFails, Cleanup, RetryStart, RetryFinish
  <2>2. Task(w) \in TaskIds /\ status[Task(w)] # "none"
    BY <2>1, HeldQueued
  <2>3. UNCHANGED <<queueVars, job, faults>> /\ Isolated(w)
    BY <1>3, <2>2, PipelineFrame
  <2>4. Forward(w)
    BY <1>3, <2>1, PipelineForward
  <2>5. RowsInv'
    <3>1. WantedLocale'
      BY <2>2, <2>3, <2>4 DEF Isolated, Forward, RowsInv, WantedLocale
    <3> QED
      BY <2>4, <3>1 DEF Forward, RowsInv
  <2>6. \A t \in TaskIds : \/ progress'[t] = progress[t] /\ (HasSummary(t) => HasSummary(t)')
                           \/ t = Task(w) /\ pc[w] # "idle" /\ Part(w) = "task"
    <3>1. Task(w)' = Task(w)
      BY <2>3 DEF Task
    <3> QED
      BY <2>1, <2>4, <3>1 DEF Forward, HasSummary
  <2>7. AdvanceInv'
    BY <2>3, <2>4, <2>5, <2>6, OneMover DEF Forward, Isolated
  <2>8. MovesForward
    BY <2>3, <2>4 DEF MovesForward, Forward, Isolated
  <2>9. CompletesShown
    BY <2>3, <2>4 DEF CompletesShown, Forward, Isolated, HasSummary
  <2> QED
    BY <2>7, <2>8, <2>9
<1>4. ASSUME NEW w \in Workers, WorkerStep(w) \/ Heartbeat(w) \/ Raise(w) \/ Crash(w), ~Pipeline(w)
      PROVE  AdvanceInv' /\ MovesForward /\ CompletesShown
  <2>1. /\ UNCHANGED <<progress, content>> /\ RowsInv'
        /\ \A v \in Workers : v # w => pc'[v] = pc[v] /\ target'[v] = target[v] /\ errs'[v] = errs[v]
        /\ \A t \in TaskIds : status'[t] = "completed" => status[t] = "completed"
        /\ UNCHANGED <<jtask, jpart>>
        /\ \A v \in Workers : v # w => job'[v] = job[v]
        /\ \/ pc'[w] \notin {"read", "write", "cleanup"}
           \/ UNCHANGED workerVars
    BY <1>4, DeliveryRows
  <2>2. AdvanceAt(w)'
    <3>1. AdvanceAt(w)
      BY DEF AdvanceInv
    <3>2. CASE pc'[w] \notin {"read", "write", "cleanup"}
      BY <3>2 DEF AdvanceAt
    <3>3. CASE UNCHANGED workerVars
      BY <2>1, <3>1, <3>3 DEF AdvanceAt, Task, HasSummary
    <3> QED
      BY <2>1, <3>2, <3>3
  <2>3. AdvanceInv'
    BY <2>1, <2>2, OneMover DEF HasSummary
  <2> QED
    BY <1>none, <1>same, <2>1, <2>3
<1>5. ASSUME NEW w \in Workers, CacheHitFails(w) \/ CrashCopying(w) \/ SummarizeRaises(w)
      PROVE  AdvanceInv' /\ MovesForward /\ CompletesShown
  <2>1. /\ UNCHANGED <<taskVars, jtask, jpart>> /\ RowsInv'
        /\ \A v \in Workers : v # w => /\ pc'[v] = pc[v] /\ target'[v] = target[v] /\ errs'[v] = errs[v]
                                       /\ job'[v] = job[v]
        /\ \A t \in TaskIds : HasSummary(t) => HasSummary(t)'
        /\ AdvanceAt(w)'
    BY <1>5, GraphFaultRows
  <2>2. AdvanceInv'
    BY <2>1, OneMover
  <2> QED
    BY <1>none, <1>same, <2>1, <2>2
<1>6. CASE UNCHANGED vars
  <2>1. AdvanceInv'
    BY <1>6 DEF vars, AdvanceInv, RowsInv, ContentHonest, WantedLocale, AdvanceAt, Task, HasSummary
  <2> QED
    BY <1>6, <1>none, <1>same, <2>1 DEF vars
<1>7. ASSUME NEW j \in JobIds, Stall(j) PROVE FALSE
  BY <1>7 DEF Stall, Fault
<1> QED
  BY <1>1, <1>2, <1>3, <1>4, <1>5, <1>6, <1>7 DEF Next, Faulty

\* Without lapsed leases the invariant of the milestones holds in every reachable state.
THEOREM AdvanceInvariant ==
    ASSUME "stall" \notin FaultKinds
    PROVE  Spec => []AdvanceInv
<1>1. Init => AdvanceInv
  <2>1. Init => LeaseInv
    <3>1. Init => QueueInv
      BY InitType DEF Init, QueueInv, QueueMatchesHandoff, OneQueuedJobPerKey
    <3>2. Init => Exclusive /\ NoStrandedTask /\ \A w \in Workers : GraphAt(w)
      BY DEF Init, Exclusive, GraphAt, TaskPCs, NoStrandedTask
    <3> QED
      BY <3>1, <3>2 DEF LeaseInv
  <2>2. Init => RowsInv /\ \A w \in Workers : AdvanceAt(w)
    BY DEF Init, RowsInv, ContentHonest, WantedLocale, AdvanceAt
  <2> QED
    BY <2>1, <2>2 DEF AdvanceInv
<1>2. AdvanceInv /\ [Next]_vars => AdvanceInv'
  BY AdvanceInductive
<1> QED
  BY <1>1, <1>2, PTL DEF Spec

\* The milestone write never takes progress back, although the row is read in one transaction and
\* written in another and deliveries, retries and crashes come in between.
THEOREM MilestonesMoveForward ==
    ASSUME "stall" \notin FaultKinds
    PROVE  Spec => AdvanceMovesForward
<1>1. AdvanceInv /\ [Next]_vars => [MovesForward]_vars
  BY AdvanceInductive
<1> QED
  BY <1>1, AdvanceInvariant, PTL DEF Spec, AdvanceMovesForward, MovesForward

\* A delivery completes a task only when there is a summary to show, be it written now, kept from an
\* earlier delivery or copied from another task of the same owner and video.
THEOREM CompletionHasSummary ==
    ASSUME "stall" \notin FaultKinds
    PROVE  Spec => CompletesWithSummary
<1>1. AdvanceInv /\ [Next]_vars => [CompletesShown]_status
  BY AdvanceInductive
<1> QED
  BY <1>1, AdvanceInvariant, PTL DEF Spec, CompletesWithSummary, CompletesShown
=============================================================================
