----------------------------- MODULE TaskPipeline -----------------------------
(***************************************************************************)
(* The durable video-processing pipeline of VibeDigest: the submission and *)
(* retry transactions that create a task together with a PGMQ message and  *)
(* its handoff row, and the queue workers that read a message, run the     *)
(* cache / ingest / cognition / cleanup graph against Postgres and archive *)
(* the message.                                                            *)
(*                                                                         *)
(* Every action is one committed Postgres transaction (or one in-process   *)
(* decision) of one actor, so that workers, API requests, crashes, raised  *)
(* exceptions and expired visibility timeouts interleave as they do in     *)
(* production.                                                             *)
(***************************************************************************)
EXTENDS Naturals, FiniteSets

CONSTANTS
    Urls,        \* (owner, normalised video URL) pairs: the deduplication key
    Locales,     \* summary locales a request may ask for
    SourceLang,  \* language of the transcript: a locale, another language or "unknown"
    MaxTasks,    \* bound: rows of public.tasks
    MaxJobs,     \* bound: PGMQ messages, each with its handoff row
    Workers,     \* queue worker processes
    MaxAttempts, \* TASK_QUEUE_MAX_ATTEMPTS
    FaultKinds,  \* which of "crash", "raise", "stall" may happen
    MaxFaults    \* bound: faults in one behaviour

ASSUME PipelineAssumption ==
    /\ MaxTasks \in Nat /\ MaxJobs \in Nat /\ MaxFaults \in Nat
    /\ MaxAttempts \in Nat \ {0}
    /\ FaultKinds \subseteq {"crash", "raise", "stall"}
    /\ Locales \cap {"task", "script_raw", "script", "none"} = {}

TaskIds == 1..MaxTasks
JobIds  == 1..MaxJobs
NoJob   == 0

Outputs == {"script_raw", "script"} \cup Locales
Parts   == {"task"} \cup Outputs      \* what a job is about: process_video or one output

Status     == {"none", "pending", "processing", "completed", "error"}
OutStatus  == Status
ErrClass   == {"none", "caption", "other"}   \* class of error_message
Percent    == {0, 15, 25, 80, 85, 92, 100}

VARIABLES
    \* public.tasks (a row that does not exist has status "none")
    status, err, progress, url, want,
    \* vibedigest_private.task_submission_debits
    debit,
    \* public.task_outputs
    ostatus, content,
    \* PGMQ messages and task_queue_handoffs; a job id names both
    queue, handoff, reads, jtask, jpart,
    \* the worker processes
    pc, job, attempt, text, errs, target,
    \* faults so far
    faults

taskVars   == <<status, err, progress, url, want, debit>>
outVars    == <<ostatus, content>>
queueVars  == <<queue, handoff, reads, jtask, jpart>>
localVars  == <<job, attempt, text, errs, target>>
workerVars == <<pc, localVars>>
vars       == <<taskVars, outVars, queueVars, workerVars, faults>>

\* Where a worker can be between two transactions.
Running == {"dispatch", "cache", "ingest", "supadata", "vtt", "nocaptions",
            "raw", "script", "cognition", "read", "write", "summarize",
            "save", "cleanup", "retry", "rewrite"}
PCs     == {"idle", "validate", "done", "reject", "failed", "buried"} \cup Running

TypeOK ==
    /\ status   \in [TaskIds -> Status]
    /\ err      \in [TaskIds -> ErrClass]
    /\ progress \in [TaskIds -> Percent]
    /\ url      \in [TaskIds -> Urls \cup {"none"}]
    /\ want     \in [TaskIds -> Locales \cup {"none"}]
    /\ debit    \in [TaskIds -> {"none", "open", "refunded"}]
    /\ ostatus  \in [TaskIds -> [Outputs -> OutStatus]]
    /\ content  \in [TaskIds -> [Outputs -> BOOLEAN]]
    /\ queue    \in [JobIds -> {"unsent", "visible", "hidden", "archived"}]
    /\ handoff  \in [JobIds -> {"none", "queued", "completed", "failed"}]
    /\ reads    \in [JobIds -> Nat]
    /\ jtask    \in [JobIds -> TaskIds \cup {0}]
    /\ jpart    \in [JobIds -> Parts \cup {"none"}]
    /\ pc       \in [Workers -> PCs]
    /\ job      \in [Workers -> JobIds \cup {NoJob}]
    /\ attempt  \in [Workers -> Nat]
    /\ text     \in [Workers -> BOOLEAN]
    /\ errs     \in [Workers -> ErrClass]
    /\ target   \in [Workers -> Percent]
    /\ faults   \in 0..MaxFaults

Init ==
    /\ status   = [t \in TaskIds |-> "none"]
    /\ err      = [t \in TaskIds |-> "none"]
    /\ progress = [t \in TaskIds |-> 0]
    /\ url      = [t \in TaskIds |-> "none"]
    /\ want     = [t \in TaskIds |-> "none"]
    /\ debit    = [t \in TaskIds |-> "none"]
    /\ ostatus  = [t \in TaskIds |-> [o \in Outputs |-> "none"]]
    /\ content  = [t \in TaskIds |-> [o \in Outputs |-> FALSE]]
    /\ queue    = [j \in JobIds |-> "unsent"]
    /\ handoff  = [j \in JobIds |-> "none"]
    /\ reads    = [j \in JobIds |-> 0]
    /\ jtask    = [j \in JobIds |-> 0]
    /\ jpart    = [j \in JobIds |-> "none"]
    /\ pc       = [w \in Workers |-> "idle"]
    /\ job      = [w \in Workers |-> NoJob]
    /\ attempt  = [w \in Workers |-> 0]
    /\ text     = [w \in Workers |-> FALSE]
    /\ errs     = [w \in Workers |-> "none"]
    /\ target   = [w \in Workers |-> 0]
    /\ faults   = 0

-----------------------------------------------------------------------------
(* What the transactions read. *)

Live(u)        == {t \in TaskIds : url[t] = u /\ status[t] \in {"pending", "processing"}}
ScriptReady(t) == ostatus[t]["script"] = "completed" /\ content[t]["script"]
Scripted(u)    == {t \in TaskIds : url[t] = u /\ ScriptReady(t)}
Newest(S)      == {t \in S : \A s \in S : s <= t}    \* ORDER BY created_at DESC LIMIT 1

\* Mutant: asks the queue for a visible message instead of the handoffs.
QueuedVisible(t, p) == \E j \in JobIds : queue[j] = "visible" /\ jtask[j] = t /\ jpart[j] = p

Queued(t, p)   == \E j \in JobIds : handoff[j] = "queued" /\ jtask[j] = t /\ jpart[j] = p

\* The row triggers of the refund migration: a task that failed for want of
\* captions, and its failed outputs, never go back to pending or processing.
CaptionFailed(t) == status[t] = "error" /\ err[t] = "caption"

TaskWritable(t, s) == ~(CaptionFailed(t) /\ s \in {"pending", "processing"})

OutputWritable(t, o, s) ==
    ~(CaptionFailed(t) /\ ostatus[t][o] = "error" /\ s \in {"pending", "processing"})

\* pgmq.send and the insert into task_queue_handoffs, in the caller's transaction.
Send(t, p) ==
    \E j \in JobIds :
        /\ queue[j] = "unsent"
        /\ \A i \in JobIds : i < j => queue[i] # "unsent"
        /\ queue'   = [queue EXCEPT ![j] = "visible"]
        /\ handoff' = [handoff EXCEPT ![j] = "queued"]
        /\ jtask'   = [jtask EXCEPT ![j] = t]
        /\ jpart'   = [jpart EXCEPT ![j] = p]
        /\ UNCHANGED reads

SendUnlessQueued(t, p) ==
    IF Queued(t, p) THEN UNCHANGED queueVars ELSE Send(t, p)

-----------------------------------------------------------------------------
(* The API's transactions: submit_user_video_task, retry_video_task and    *)
(* submit_output_retry.  Quota is the Billing model's business: here a     *)
(* submission that would be refused for quota simply does not happen.      *)

\* An in-flight task is returned as it is; if its message was lost it is re-enqueued.
ReuseInflight(u) ==
    \E t \in Newest(Live(u)) :
        /\ ~Queued(t, "task")
        /\ Send(t, "task")
        /\ UNCHANGED <<taskVars, outVars, workerVars, faults>>

\* No task is in flight but one has a transcript: only the missing summary is queued.
ReuseScript(u, l) ==
    /\ Live(u) = {}
    /\ \E t \in Newest(Scripted(u)) :
        /\ ~(ostatus[t][l] = "completed" /\ content[t][l])
        /\ OutputWritable(t, l, "pending")
        /\ ostatus' = [ostatus EXCEPT ![t][l] = "pending"]
        /\ SendUnlessQueued(t, l)
    /\ UNCHANGED <<taskVars, content, workerVars, faults>>

\* Otherwise a task, its debit, its output placeholders and its job are created together.
SubmitNew(u, l) ==
    /\ Live(u) = {} /\ Scripted(u) = {}
    /\ \E t \in TaskIds :
        /\ status[t] = "none"
        /\ \A s \in TaskIds : s < t => status[s] # "none"
        /\ status'  = [status EXCEPT ![t] = "pending"]
        /\ url'     = [url EXCEPT ![t] = u]
        /\ want'    = [want EXCEPT ![t] = l]
        /\ debit'   = [debit EXCEPT ![t] = "open"]
        /\ ostatus' = [ostatus EXCEPT ![t]["script"] = "pending", ![t][l] = "pending"]
        /\ Send(t, "task")
    /\ UNCHANGED <<err, progress, content, workerVars, faults>>

\* retry_video_task. The route's own status check precedes the transaction and is repeated by it.
RetryTask(t) ==
    /\ ~Queued(t, "task")
    /\ status[t] = "error"
    /\ TaskWritable(t, "pending")
    /\ status'   = [status EXCEPT ![t] = "pending"]
    /\ progress' = [progress EXCEPT ![t] = 0]
    /\ err'      = [err EXCEPT ![t] = "none"]
    /\ ostatus'  = [ostatus EXCEPT ![t] =
                        [o \in Outputs |-> IF @[o] \in {"none", "completed"} THEN @[o] ELSE "pending"]]
    /\ Send(t, "task")
    /\ UNCHANGED <<url, want, debit, content, workerVars, faults>>

\* submit_output_retry. The route refuses a caption-failed task, but it reads the task
\* before the transaction: by then the task may have become one, so only the triggers guard here.
RetryOutput(t, o) ==
    /\ ostatus[t][o] # "none"
    /\ ~Queued(t, o)
    /\ OutputWritable(t, o, "pending")
    /\ ostatus' = [ostatus EXCEPT ![t][o] = "pending"]
    /\ Send(t, o)
    /\ UNCHANGED <<taskVars, content, workerVars, faults>>

-----------------------------------------------------------------------------
(* PGMQ visibility. *)

Holds(w, j) == pc[w] # "idle" /\ job[w] = j

Fault(kind) == kind \in FaultKinds /\ faults < MaxFaults /\ faults' = faults + 1

\* The visibility timeout passes after the message was deferred or its worker died.
Expire(j) ==
    /\ queue[j] = "hidden"
    /\ \A w \in Workers : ~Holds(w, j)
    /\ queue' = [queue EXCEPT ![j] = "visible"]
    /\ UNCHANGED <<taskVars, outVars, handoff, reads, jtask, jpart, workerVars, faults>>

\* It passes while a worker still runs: its event loop was blocked or its host suspended
\* past the heartbeat. PGMQ does not fence the old holder.
Stall(j) ==
    /\ queue[j] = "hidden"
    /\ \E w \in Workers : Holds(w, j)
    /\ Fault("stall")
    /\ queue' = [queue EXCEPT ![j] = "visible"]
    /\ UNCHANGED <<taskVars, outVars, handoff, reads, jtask, jpart, workerVars>>

-----------------------------------------------------------------------------
(* The worker's control. *)

Goto(w, p) == pc' = [pc EXCEPT ![w] = p]

\* Back to polling: nothing of the attempt survives in the process.
Release(w) ==
    /\ pc'      = [pc EXCEPT ![w] = "idle"]
    /\ job'     = [job EXCEPT ![w] = NoJob]
    /\ attempt' = [attempt EXCEPT ![w] = 0]
    /\ text'    = [text EXCEPT ![w] = FALSE]
    /\ errs'    = [errs EXCEPT ![w] = "none"]
    /\ target'  = [target EXCEPT ![w] = 0]

Task(w) == jtask[job[w]]
Part(w) == jpart[job[w]]

Read(w, j) ==
    /\ pc[w] = "idle"
    /\ queue[j] = "visible"
    /\ queue'   = [queue EXCEPT ![j] = "hidden"]
    /\ reads'   = [reads EXCEPT ![j] = @ + 1]
    /\ job'     = [job EXCEPT ![w] = j]
    /\ attempt' = [attempt EXCEPT ![w] = reads[j] + 1]
    /\ Goto(w, "validate")
    /\ UNCHANGED <<taskVars, outVars, handoff, jtask, jpart, text, errs, target, faults>>

\* validate_delivery: the handoff of this message must still be queued.
Validate(w) ==
    /\ pc[w] = "validate"
    /\ handoff[job[w]] = "queued"
    /\ Goto(w, "dispatch")
    /\ UNCHANGED <<taskVars, outVars, queueVars, localVars, faults>>

\* Otherwise fail_invalid_queue_message; nothing happens to a message archived meanwhile.
ArchiveInvalid(w) ==
    /\ pc[w] = "validate"
    /\ handoff[job[w]] # "queued"
    /\ queue' = [queue EXCEPT ![job[w]] = "archived"]
    /\ Release(w)
    /\ UNCHANGED <<taskVars, outVars, handoff, reads, jtask, jpart, faults>>

\* The heartbeat pushes the visibility timeout out again, whoever holds the message.
Heartbeat(w) ==
    /\ pc[w] \in Running
    /\ queue[job[w]] = "visible"
    /\ queue' = [queue EXCEPT ![job[w]] = "hidden"]
    /\ UNCHANGED <<taskVars, outVars, handoff, reads, jtask, jpart, workerVars, faults>>

\* set_vt finds no row because another worker archived the message: LeaseLostError.
HeartbeatLost(w) ==
    /\ pc[w] \in Running
    /\ queue[job[w]] = "archived"
    /\ Release(w)
    /\ UNCHANGED <<taskVars, outVars, queueVars, faults>>

\* _dispatch: terminal state short-circuits the delivery, a caption failure rejects it.
Dispatch(w) ==
    /\ pc[w] = "dispatch"
    /\ IF Part(w) = "task"
       THEN CASE status[Task(w)] = "completed" -> Goto(w, "done") /\ UNCHANGED errs
              [] status[Task(w)] # "completed" /\ err[Task(w)] = "caption" ->
                    Goto(w, "reject") /\ errs' = [errs EXCEPT ![w] = "caption"]
              [] OTHER -> Goto(w, "cache") /\ UNCHANGED errs
       ELSE /\ Goto(w, IF ostatus[Task(w)][Part(w)] = "completed" THEN "done" ELSE "retry")
            /\ UNCHANGED errs
    /\ UNCHANGED <<taskVars, outVars, queueVars, job, attempt, text, target, faults>>

-----------------------------------------------------------------------------
(* The pipeline graph: check_cache, ingest, cognition, cleanup. *)

\* Output rows of c copied as completed rows of t by upsert_completed_task_output.
CopyOutputs(t, c, O) ==
    /\ ostatus' = [ostatus EXCEPT ![t] = [o \in Outputs |-> IF o \in O THEN "completed" ELSE @[o]]]
    /\ content' = [content EXCEPT ![t] = [o \in Outputs |-> IF o \in O THEN content[c][o] ELSE @[o]]]

\* Mutant: copies unfinished rows too.
AnyRows(c) == {o \in Outputs : ostatus[c][o] # "none"}

CompletedRows(c) == {o \in Outputs : ostatus[c][o] = "completed"}

\* Summaries of c reused for a user task: those in the transcript's language, and the others
\* too when their rows come before script_raw's (rows are read unordered) or no language is known.
ReusedSummaries(c) ==
    LET done == CompletedRows(c) \cap Locales IN
    {R \in SUBSET done :
        /\ SourceLang \in done => SourceLang \in R
        /\ "script_raw" \notin CompletedRows(c) \/ SourceLang = "unknown" => R = done}

CacheMiss(w) ==
    /\ pc[w] = "cache"
    /\ Scripted(url[Task(w)]) = {}
    /\ Goto(w, "ingest")
    /\ UNCHANGED <<taskVars, outVars, queueVars, localVars, faults>>

\* The newest transcript of the same owner and URL, possibly this task's own from an
\* earlier delivery. With a reusable summary the graph goes straight to cleanup.
CacheHit(w) ==
    /\ pc[w] = "cache"
    /\ \E c \in Newest(Scripted(url[Task(w)])) : \E R \in ReusedSummaries(c) :
        /\ CopyOutputs(Task(w), c, (CompletedRows(c) \cap {"script", "script_raw"}) \cup R)
        /\ Goto(w, IF R = {} THEN "cognition" ELSE "cleanup")
    /\ text' = [text EXCEPT ![w] = TRUE]
    /\ UNCHANGED <<taskVars, queueVars, job, attempt, errs, target, faults>>

\* A database error part-way through is swallowed: some rows are copied and cache_hit stays set.
\* Only when the script's own copy (or the lookup) failed does the graph fall back to ingest.
CacheHitFails(w) ==
    /\ pc[w] = "cache"
    /\ Fault("raise")
    /\ \E c \in Newest(Scripted(url[Task(w)])) : \E O \in SUBSET CompletedRows(c) :
        /\ CopyOutputs(Task(w), c, O)
        /\ \/ Goto(w, IF O \cap Locales = {} THEN "cognition" ELSE "cleanup")
           \/ "script" \notin O /\ Goto(w, "ingest")
        /\ text' = [text EXCEPT ![w] = "script" \in O]
    /\ UNCHANGED <<taskVars, queueVars, job, attempt, errs, target>>

\* The process dies between two copies.
CrashCopying(w) ==
    /\ pc[w] = "cache"
    /\ Fault("crash")
    /\ \E c \in Newest(Scripted(url[Task(w)])) : \E O \in SUBSET CompletedRows(c) :
        CopyOutputs(Task(w), c, O)
    /\ Release(w)
    /\ UNCHANGED <<taskVars, queueVars>>

\* ensure_task_outputs: only the raw transcript has no placeholder yet.
EnsureOutputs(w) ==
    /\ pc[w] = "ingest"
    /\ ostatus' = [ostatus EXCEPT ![Task(w)]["script_raw"] = IF @ = "none" THEN "pending" ELSE @]
    /\ Goto(w, "supadata")
    /\ UNCHANGED <<taskVars, content, queueVars, localVars, faults>>

\* update_task_status(processing, p); a trigger's refusal leaves the row alone.
WriteProcessing(t, p) ==
    /\ status'   = [status EXCEPT ![t] = IF TaskWritable(t, "processing") THEN "processing" ELSE @]
    /\ progress' = [progress EXCEPT ![t] = IF TaskWritable(t, "processing") THEN p ELSE @]
    /\ UNCHANGED <<err, url, want, debit>>

\* _ingest_supadata: the refusal and every provider error are caught, and VTT is tried next.
Supadata(w) ==
    /\ pc[w] = "supadata"
    /\ WriteProcessing(Task(w), 15)
    /\ \/ TaskWritable(Task(w), "processing") /\ Goto(w, "raw")
       \/ Goto(w, "vtt")
    /\ UNCHANGED <<outVars, queueVars, localVars, faults>>

\* _ingest_vtt: likewise, ending in "no captions available".
Vtt(w) ==
    /\ pc[w] = "vtt"
    /\ WriteProcessing(Task(w), 25)
    /\ \/ TaskWritable(Task(w), "processing") /\ Goto(w, "raw")
       \/ Goto(w, "nocaptions")
    /\ UNCHANGED <<outVars, queueVars, localVars, faults>>

\* fail_caption_task: one transaction fails the outputs and the task and refunds the debit
\* once. It declines for a completed task or a persisted transcript; the client then raises.
FailCaption(w) ==
    LET t == Task(w) IN
    /\ pc[w] = "nocaptions"
    /\ IF status[t] = "completed" \/ ScriptReady(t)
       THEN /\ Goto(w, "failed")
            /\ UNCHANGED <<status, err, debit, ostatus, errs>>
       ELSE /\ debit'   = [debit EXCEPT ![t] = IF @ = "open" THEN "refunded" ELSE @]
            /\ status'  = [status EXCEPT ![t] = "error"]
            /\ err'     = [err EXCEPT ![t] = "caption"]
            /\ ostatus' = [ostatus EXCEPT ![t] =
                    [o \in Outputs |-> IF @[o] \in {"none", "completed"} THEN @[o] ELSE "error"]]
            /\ errs'    = [errs EXCEPT ![w] = "caption"]
            /\ Goto(w, "cognition")
    /\ UNCHANGED <<progress, url, want, content, queueVars, job, attempt, text, target, faults>>

\* The two halves of the transcript are persisted by two transactions, the script last.
Persist(w, here, there, o) ==
    /\ pc[w] = here
    /\ ostatus' = [ostatus EXCEPT ![Task(w)][o] = "completed"]
    /\ content' = [content EXCEPT ![Task(w)][o] = TRUE]
    /\ text'    = [text EXCEPT ![w] = TRUE]
    /\ Goto(w, there)
    /\ UNCHANGED <<taskVars, queueVars, job, attempt, errs, target, faults>>

PersistRaw(w)    == Persist(w, "raw", "script", "script_raw")
PersistScript(w) == Persist(w, "script", "cognition", "script")

\* cognition: without a transcript, or with one too short, the graph records an error
\* (kept behind an earlier caption error, whose prefix decides the class).
SkipCognition(w) ==
    /\ pc[w] = "cognition"
    /\ errs' = [errs EXCEPT ![w] = IF @ = "none" THEN "other" ELSE @]
    /\ Goto(w, "cleanup")
    /\ UNCHANGED <<taskVars, outVars, queueVars, job, attempt, text, target, faults>>

StartCognition(w) ==
    /\ pc[w] = "cognition"
    /\ text[w]
    /\ target' = [target EXCEPT ![w] = 80]
    /\ Goto(w, "read")
    /\ UNCHANGED <<taskVars, outVars, queueVars, job, attempt, text, errs, faults>>

\* After each milestone: the next one, or the work it announces.
AfterAdvance(w) ==
    /\ Goto(w, CASE target[w] = 80 -> "read" [] target[w] = 85 -> "summarize" [] OTHER -> "cleanup")
    /\ target' = [target EXCEPT ![w] = IF @ = 80 THEN 85 ELSE 0]

\* Mutant: writes the milestone without looking at the row.
AdvanceBlindly(w) ==
    /\ pc[w] = "read"
    /\ Goto(w, "write")
    /\ UNCHANGED <<taskVars, outVars, queueVars, localVars, faults>>

\* _advance_task_progress reads the row ...
AdvanceRead(w) ==
    /\ pc[w] = "read"
    /\ IF target[w] > progress[Task(w)]
       THEN Goto(w, "write") /\ UNCHANGED target
       ELSE AfterAdvance(w)
    /\ UNCHANGED <<taskVars, outVars, queueVars, job, attempt, text, errs, faults>>

\* ... and writes it in another transaction, swallowing a refusal.
AdvanceWrite(w) ==
    /\ pc[w] = "write"
    /\ WriteProcessing(Task(w), target[w])
    /\ AfterAdvance(w)
    /\ UNCHANGED <<outVars, queueVars, job, attempt, text, errs, faults>>

\* _run_summarize keeps a persisted summary of the requested locale, else calls the model.
Summarize(w) ==
    LET t == Task(w) IN
    /\ pc[w] = "summarize"
    /\ IF ostatus[t][want[t]] = "completed" /\ content[t][want[t]]
       THEN Goto(w, "read") /\ target' = [target EXCEPT ![w] = 92]
       ELSE Goto(w, "save") /\ UNCHANGED target
    /\ UNCHANGED <<taskVars, outVars, queueVars, job, attempt, text, errs, faults>>

SaveSummary(w) ==
    LET t == Task(w) IN
    /\ pc[w] = "save"
    /\ ostatus' = [ostatus EXCEPT ![t][want[t]] = "completed"]
    /\ content' = [content EXCEPT ![t][want[t]] = TRUE]
    /\ target'  = [target EXCEPT ![w] = 92]
    /\ Goto(w, "read")
    /\ UNCHANGED <<taskVars, queueVars, job, attempt, text, errs, faults>>

\* The model call or its validation failed: the output is emptied and marked.
SummaryFails(w) ==
    LET t == Task(w) IN
    /\ pc[w] = "save"
    /\ ostatus' = [ostatus EXCEPT ![t][want[t]] = "error"]
    /\ content' = [content EXCEPT ![t][want[t]] = FALSE]
    /\ errs'    = [errs EXCEPT ![w] = "other"]
    /\ Goto(w, "cleanup")
    /\ UNCHANGED <<taskVars, queueVars, job, attempt, text, target, faults>>

\* A database error before the output row is found leaves the row alone.
SummarizeRaises(w) ==
    /\ pc[w] = "summarize"
    /\ Fault("raise")
    /\ errs' = [errs EXCEPT ![w] = "other"]
    /\ Goto(w, "cleanup")
    /\ UNCHANGED <<taskVars, outVars, queueVars, job, attempt, text, target>>

\* cleanup: the final status write, unconditional in both branches.
Cleanup(w) ==
    LET t == Task(w) IN
    /\ pc[w] = "cleanup"
    /\ progress' = [progress EXCEPT ![t] = 100]
    /\ status'   = [status EXCEPT ![t] = IF errs[w] = "none" THEN "completed" ELSE "error"]
    /\ err'      = [err EXCEPT ![t] = IF errs[w] = "none" THEN @ ELSE errs[w]]
    /\ Goto(w, CASE errs[w] = "none" -> "done" [] errs[w] = "caption" -> "reject" [] OTHER -> "failed")
    /\ UNCHANGED <<url, want, debit, outVars, queueVars, localVars, faults>>

-----------------------------------------------------------------------------
(* handle_retry_output. *)

\* What the handler needs of the transcript before it can redo an output.
RetrySource(t, o) ==
    IF o = "script" THEN content[t]["script_raw"] ELSE o \in Locales /\ content[t]["script"]

RetryStart(w) ==
    LET t == Task(w) o == Part(w) IN
    /\ pc[w] = "retry"
    /\ IF RetrySource(t, o)
       THEN IF o \in Locales /\ OutputWritable(t, o, "processing")
            THEN Goto(w, "rewrite") /\ ostatus' = [ostatus EXCEPT ![t][o] = "processing"]
            ELSE Goto(w, IF o = "script" THEN "rewrite" ELSE "failed") /\ UNCHANGED ostatus
       ELSE Goto(w, "reject") /\ UNCHANGED ostatus
    /\ UNCHANGED <<taskVars, content, queueVars, localVars, faults>>

RetryFinish(w) ==
    /\ pc[w] = "rewrite"
    /\ \/ /\ ostatus' = [ostatus EXCEPT ![Task(w)][Part(w)] = "completed"]
          /\ content' = [content EXCEPT ![Task(w)][Part(w)] = TRUE]
          /\ Goto(w, "done")
       \/ Goto(w, "failed") /\ UNCHANGED outVars
    /\ UNCHANGED <<taskVars, queueVars, localVars, faults>>

-----------------------------------------------------------------------------
(* How an attempt ends. *)

\* complete_queue_job: archive and handoff in one transaction; it raises when the
\* handoff is no longer queued, which leaves everything as it is.
Archive(w, here, outcome) ==
    /\ pc[w] = here
    /\ IF handoff[job[w]] = "queued"
       THEN /\ queue'   = [queue EXCEPT ![job[w]] = "archived"]
            /\ handoff' = [handoff EXCEPT ![job[w]] = outcome]
       ELSE UNCHANGED <<queue, handoff>>
    /\ Release(w)
    /\ UNCHANGED <<taskVars, outVars, reads, jtask, jpart, faults>>

\* Mutant: archives before cleanup has written the task's final status.
ArchiveCompletedEarly(w) == Archive(w, "cleanup", "completed")

ArchiveCompleted(w) == Archive(w, "done", "completed")

\* Mutant: archives a failed attempt before its terminal error is persisted.
ArchiveFailedEarly(w) == Archive(w, "failed", "failed")

ArchiveFailed(w) == Archive(w, "buried", "failed")

\* Mutant: retries one attempt too many.
ExhaustedLate(w) == attempt[w] > MaxAttempts

Exhausted(w) == attempt[w] >= MaxAttempts

\* Mutant: a late failure overwrites a completed task.
MarkTaskFailedAlways(t, e) ==
    /\ status' = [status EXCEPT ![t] = "error"]
    /\ err'    = [err EXCEPT ![t] = e]

\* Mutant: writes the handoff's word for a failure into tasks.status.
MarkTaskFailedAsHandoff(t, e) ==
    /\ status' = [status EXCEPT ![t] = IF @ = "completed" THEN @ ELSE "failed"]
    /\ err'    = [err EXCEPT ![t] = e]

MarkTaskFailed(t, e) ==
    IF status[t] # "completed"
    THEN /\ status' = [status EXCEPT ![t] = "error"]
         /\ err'    = [err EXCEPT ![t] = e]
    ELSE UNCHANGED <<status, err>>

\* A rejected job, or one whose last attempt failed: the terminal error is persisted first
\* (mark_task_failed_if_not_completed, mark_output_failed_if_not_completed).
MarkFailed(w) ==
    LET t == Task(w) o == Part(w) IN
    /\ pc[w] = "reject" \/ (pc[w] = "failed" /\ Exhausted(w))
    /\ IF o = "task"
       THEN /\ MarkTaskFailed(t, IF pc[w] = "reject" /\ errs[w] = "caption" THEN "caption" ELSE "other")
            /\ UNCHANGED ostatus
       ELSE /\ ostatus' = [ostatus EXCEPT ![t][o] = IF @ = "completed" THEN @ ELSE "error"]
            /\ UNCHANGED <<status, err>>
    /\ Goto(w, "buried")
    /\ UNCHANGED <<progress, url, want, debit, content, queueVars, localVars, faults>>

\* Mutant: drops the message of a failed attempt and leaves its handoff open.
DeferDrops(w) ==
    /\ pc[w] = "failed" /\ ~Exhausted(w)
    /\ queue' = [queue EXCEPT ![job[w]] = "archived"]
    /\ Release(w)
    /\ UNCHANGED <<taskVars, outVars, handoff, reads, jtask, jpart, faults>>

\* Any other failed attempt defers the message by the backoff delay.
Defer(w) ==
    /\ pc[w] = "failed" /\ ~Exhausted(w)
    /\ queue' = [queue EXCEPT ![job[w]] = IF @ = "archived" THEN @ ELSE "hidden"]
    /\ Release(w)
    /\ UNCHANGED <<taskVars, outVars, handoff, reads, jtask, jpart, faults>>

\* The execution timeout fires, or a database call raises, before _dispatch has returned.
Raise(w) ==
    /\ pc[w] \in Running \cup {"done", "reject"}
    /\ Fault("raise")
    /\ Goto(w, "failed")
    /\ UNCHANGED <<taskVars, outVars, queueVars, localVars>>

\* The process dies, or the heartbeat or the archive call fails and the attempt is abandoned.
Crash(w) ==
    /\ pc[w] # "idle"
    /\ Fault("crash")
    /\ Release(w)
    /\ UNCHANGED <<taskVars, outVars, queueVars>>

-----------------------------------------------------------------------------

Request ==
    \/ \E u \in Urls : ReuseInflight(u)
    \/ \E u \in Urls, l \in Locales : ReuseScript(u, l)
    \/ \E u \in Urls, l \in Locales : SubmitNew(u, l)
    \/ \E t \in TaskIds : RetryTask(t)
    \/ \E t \in TaskIds, o \in Outputs : RetryOutput(t, o)

Pipeline(w) ==
    \/ CacheMiss(w) \/ CacheHit(w) \/ EnsureOutputs(w) \/ Supadata(w) \/ Vtt(w)
    \/ FailCaption(w) \/ PersistRaw(w) \/ PersistScript(w)
    \/ SkipCognition(w) \/ StartCognition(w) \/ AdvanceRead(w) \/ AdvanceWrite(w)
    \/ Summarize(w) \/ SaveSummary(w) \/ SummaryFails(w) \/ Cleanup(w)
    \/ RetryStart(w) \/ RetryFinish(w)

WorkerStep(w) ==
    \/ \E j \in JobIds : Read(w, j)
    \/ Validate(w) \/ ArchiveInvalid(w) \/ HeartbeatLost(w) \/ Dispatch(w)
    \/ Pipeline(w)
    \/ MarkFailed(w) \/ Defer(w) \/ ArchiveCompleted(w) \/ ArchiveFailed(w)

Faulty ==
    \/ \E j \in JobIds : Stall(j)
    \/ \E w \in Workers : Raise(w) \/ Crash(w) \/ CrashCopying(w) \/ CacheHitFails(w) \/ SummarizeRaises(w)

Next ==
    \/ Request
    \/ \E j \in JobIds : Expire(j)
    \/ \E w \in Workers : WorkerStep(w) \/ Heartbeat(w)
    \/ Faulty

Spec == Init /\ [][Next]_vars

\* Postgres lets time pass; a worker process is restarted and its loop never stops taking
\* steps. Nothing obliges a user to submit or a fault to happen.
Fairness ==
    /\ \A j \in JobIds : WF_vars(Expire(j))
    /\ \A w \in Workers : WF_vars(WorkerStep(w))

FairSpec == Spec /\ Fairness

-----------------------------------------------------------------------------
(* Properties. *)

\* PGMQ and task_queue_handoffs never disagree: a message is in the queue exactly while its
\* handoff is queued (send + insert, archive + update share a transaction).
QueueMatchesHandoff ==
    \A j \in JobIds :
        /\ queue[j] \in {"visible", "hidden"} <=> handoff[j] = "queued"
        /\ queue[j] = "unsent" <=> handoff[j] = "none"

\* However submissions, retries and late archives interleave, a task or an output has at most
\* one queued job: the transactions never run into the unique index on the active job key.
OneQueuedJobPerKey ==
    \A i, j \in JobIds :
        handoff[i] = "queued" /\ handoff[j] = "queued" /\ jtask[i] = jtask[j] /\ jpart[i] = jpart[j]
            => i = j

\* A task that looks alive to its user has a queued process_video job: no crash, exception or
\* retry leaves it pending or processing for ever. (Holds while no lease lapses under a live worker.)
NoStrandedTask ==
    \A t \in TaskIds : status[t] \in {"pending", "processing"} => Queued(t, "task")

\* A task whose debit was refunded is failed for want of captions and stays so: it is neither
\* completed nor open to a retry that nobody pays for.
RefundedStaysFailed ==
    \A t \in TaskIds : debit[t] = "refunded" => CaptionFailed(t)

\* "Completed" is final for the task row: no late or repeated delivery takes it back.
CompletedIsFinal ==
    [][\A t \in TaskIds : status[t] = "completed" => status'[t] = "completed"]_status

\* A delivery that completes a task leaves it with a summary to show: neither the cache short
\* cut nor a redelivery completes an empty task.
CompletesWithSummary ==
    [][\A t \in TaskIds : status[t] # "completed" /\ status'[t] = "completed"
            => \E l \in Locales : content[t][l]]_status

\* Only abandoned deliveries add to the attempts of a job: it is read at most MaxAttempts times
\* plus once for each fault, then it is archived.
AttemptsBounded ==
    \A j \in JobIds : reads[j] <= MaxAttempts + faults

\* Every accepted job is eventually archived with a terminal handoff.
EveryJobResolves ==
    \A j \in JobIds : handoff[j] = "queued" ~> handoff[j] \in {"completed", "failed"}

\* _advance_task_progress only moves progress forward.
AdvanceMovesForward ==
    [][\A w \in Workers : pc[w] = "write" /\ pc'[w] # "write" /\ job'[w] = job[w]
            => progress'[Task(w)] >= progress[Task(w)]]_vars

\* Terminal persistence precedes archival: when a process_video message leaves the queue its task
\* is completed or failed.
ArchivedAfterTerminal ==
    [][\A j \in JobIds : queue[j] # "archived" /\ queue'[j] = "archived" /\ jpart[j] = "task"
            => status[jtask[j]] \in {"completed", "error"}]_queue

=============================================================================
