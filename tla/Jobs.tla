------------------------------- MODULE Jobs -------------------------------
(***************************************************************************)
(* The background jobs of Gaia: src/gaia/jobs.py, the attempt journal of   *)
(* src/gaia/context_attempts.py, and the phases of a context compilation   *)
(* (ContextCompiler.compile) as far as cancellation, durable writes and    *)
(* crashes can tell them apart.                                            *)
(*                                                                         *)
(* Actors: the HTTP handler that submits a job, one worker thread per      *)
(* running job (a pool of MaxWorkers), anybody who cancels (the user, the  *)
(* timeout timer, a poll that finds the job stale), the status endpoint,   *)
(* and the operating system, which may kill the process.                   *)
(*                                                                         *)
(* Time is not modelled: a job may be found over its time limit whenever   *)
(* it is live, and a finished one past its retention whenever it is        *)
(* finished.  A timeout is therefore a cancellation with another reason.   *)
(***************************************************************************)
EXTENDS Integers, FiniteSets, Sequences

CONSTANTS
    Jobs,         \* job identities; each is submitted at most once
    Compile,      \* those submitted as "context_compile"; the others analyse
    Artifacts,    \* sanitized materials that compile jobs work on
    ArtifactOf,   \* the artifact of each compile job
    NoJob,        \* "nobody holds CONTEXT_COMPILE_LOCK"
    MaxWorkers,   \* threads of JOB_EXECUTOR
    Capacity,     \* initial value of JOB_CAPACITY
    Chunks,       \* semantic chunks of a material
    MaxFaults,    \* bound on failing calls before a worker exists and on
                  \* failing attempt-journal writes
    MaxCrashes    \* bound on kills of the process

ASSUME JobsAssumption ==
    /\ IsFiniteSet(Jobs)
    /\ Compile \subseteq Jobs
    /\ Artifacts # {}
    /\ ArtifactOf \in [Compile -> Artifacts]
    /\ NoJob \notin Jobs
    /\ MaxWorkers \in Nat \ {0}
    /\ Capacity \in Nat \ {0}
    /\ Chunks \in Nat
    /\ MaxFaults \in Nat
    /\ MaxCrashes \in Nat

VARIABLES
    \* memory of the process
    status,       \* JOBS[j].status, or "absent" when j is not in JOBS
    phase,        \* JOBS[j].phase
    note,         \* what JOBS[j].message tells the user
    event,        \* the cancel event that the worker of j has or will get
    pc,           \* where the submitting handler, then the worker, of j is
    chunk,        \* chunks the worker of j has compiled
    permits,      \* permits of JOB_CAPACITY in use
    queue,        \* jobs that JOB_EXECUTOR has not given to a thread yet
    compileLock,  \* holder of CONTEXT_COMPILE_LOCK
    reader,       \* a status request in progress
    \* files
    attempt,      \* status in context_compile_attempts.json
    wrote,        \* the files each job has written
    \* history and bounds
    announced,    \* jobs that were ever reported as cancelled
    forgotten,    \* jobs that left JOBS while they waited for a thread
    faults,
    crashes

record  == <<status, phase, note>>
pool    == <<permits, queue>>
memory  == <<status, phase, note, event, chunk, permits, queue, compileLock>>
bounds  == <<faults, crashes>>
vars    == <<status, phase, note, event, pc, chunk, permits, queue, compileLock,
             reader, attempt, wrote, announced, forgotten, faults, crashes>>

-----------------------------------------------------------------------------
(* Values. *)

Terminal  == {"done", "complete_empty", "failed", "cancelled", "interrupted"}
Live      == {"created", "running"}
Statuses  == Live \cup Terminal
Phases    == {"none", "compiling", "loading_model", "validating",
              "persisting", "finalizing"}
Late      == {"persisting", "finalizing"}
Keep      == "keep"

\* What the message of a job claims: work goes on; nothing was changed; an
\* analysis stopped; saving cannot be stopped any more; look at the results
\* before you retry; finished.
Notes == {"progress", "unchanged", "stopped", "wait", "check", "finished"}

Files == {"registry", "proposals", "receipt", "journal"}

SubmitSteps  == {"acquired", "registered", "submitting"}
CompileSteps == {"entered", "loading", "chunk", "model", "validating",
                 "committing", "persisting", "building", "recording",
                 "recorded", "proposing", "proposed", "finalizing"}
LockedSteps  == CompileSteps \cup {"returned", "finishing", "cancelling", "raised"}
AnalyseSteps == {"starting", "packaging", "publishing", "published", "concluding"}
WorkerSteps  == {"waiting", "failing", "releasing"} \cup LockedSteps \cup AnalyseSteps
Steps        == {"idle", "queued", "ended", "leaked", "rejected", "lost"}
                   \cup SubmitSteps \cup WorkerSteps

\* Steps at which a permit of JOB_CAPACITY is held.
Holding == SubmitSteps \cup {"queued", "leaked"} \cup WorkerSteps

HasReceipt(a) == \E j \in Compile : ArtifactOf[j] = a /\ "receipt" \in wrote[j]
LiveJob(a)    == \E j \in Compile : ArtifactOf[j] = a /\ status[j] \in Live

-----------------------------------------------------------------------------
(* JOBS under JOBS_LOCK. *)

\* _persist_context_attempt: only compile jobs have a workspace and an
\* artifact; "saved" is FALSE when the write of the journal raises.
SaveAttempt(j, s, saved) ==
    IF j \in Compile
    THEN /\ saved \/ faults < MaxFaults
         /\ faults' = IF saved THEN faults ELSE faults + 1
         /\ attempt' = IF saved THEN [attempt EXCEPT ![ArtifactOf[j]] = s]
                                ELSE attempt
    ELSE saved /\ UNCHANGED <<attempt, faults>>

\* A terminal job keeps its status whatever is reported later.
IgnoresNothing(j, s) == FALSE
Ignores(j, s) == status[j] \in Terminal /\ s \notin {Keep, status[j]}

\* update_job.  A call without a status is applied to a terminal job too.
UpdateJob(j, s, p, n, saved) ==
    IF status[j] = "absent" \/ Ignores(j, s)
    THEN saved /\ UNCHANGED <<record, attempt, faults>>
    ELSE LET s2 == IF s = Keep THEN status[j] ELSE s
             p2 == IF p = Keep THEN phase[j] ELSE p
         IN  /\ status' = [status EXCEPT ![j] = s2]
             /\ phase' = [phase EXCEPT ![j] = p2]
             /\ note' = [note EXCEPT ![j] = n]
             /\ SaveAttempt(j, s2, saved)

\* A compile job that is saving its result cannot be cancelled any more.
TooLate(j) == j \in Compile /\ phase[j] \in Late

\* cancel_job, whoever calls it and for whatever reason.
CancelJob(j, saved) ==
    \/ /\ status[j] \in Terminal \cup {"absent"}
       /\ saved
       /\ UNCHANGED <<record, event, attempt, announced, forgotten, faults>>
    \/ /\ status[j] \in Live
       /\ TooLate(j)
       /\ saved
       /\ note' = [note EXCEPT ![j] = "wait"]
       /\ UNCHANGED <<status, phase, event, attempt, announced, forgotten, faults>>
    \/ /\ status[j] \in Live
       /\ ~TooLate(j)
       /\ event' = [event EXCEPT ![j] = "set"]
       /\ status' = [status EXCEPT ![j] = "cancelled"]
       /\ note' = [note EXCEPT ![j] = IF j \in Compile THEN "unchanged"
                                                       ELSE "stopped"]
       /\ announced' = announced \cup {j}
       /\ UNCHANGED <<phase, forgotten>>
       /\ SaveAttempt(j, "cancelled", saved)

CancelSeen(j) == event[j] = "set"

Goto(j, step) == pc' = [pc EXCEPT ![j] = step]

-----------------------------------------------------------------------------
(* Submission, in the thread of the HTTP handler.  A full JOB_CAPACITY       *)
(* answers 429 and changes nothing.                                          *)

Acquire(j) ==
    /\ pc[j] = "idle"
    /\ permits < Capacity
    /\ permits' = permits + 1
    /\ Goto(j, "acquired")
    /\ UNCHANGED <<record, event, chunk, compileLock, queue, reader, attempt, wrote,
                   announced, forgotten, bounds>>

\* The route or the workspace of a compile job cannot be resolved: the
\* exception leaves the function with the permit taken.
ResolveRaises(j) ==
    /\ pc[j] = "acquired"
    /\ j \in Compile
    /\ faults < MaxFaults
    /\ faults' = faults + 1
    /\ Goto(j, "leaked")
    /\ UNCHANGED <<memory, reader, attempt, wrote, announced, forgotten, crashes>>

Register(j) ==
    /\ pc[j] = "acquired"
    /\ status' = [status EXCEPT ![j] = "created"]
    /\ note' = [note EXCEPT ![j] = "progress"]
    /\ event' = [event EXCEPT ![j] = "clear"]
    /\ Goto(j, IF j \in Compile THEN "registered" ELSE "submitting")
    /\ UNCHANGED <<phase, chunk, pool, compileLock, reader, attempt, wrote,
                   announced, forgotten, bounds>>

\* _persist_context_attempt(job) of the submission is outside JOBS_LOCK and
\* outside the try that gives the permit back.
PersistCreated(j) ==
    /\ pc[j] = "registered"
    /\ \E saved \in BOOLEAN :
         /\ SaveAttempt(j, status[j], saved)
         /\ Goto(j, IF saved THEN "submitting" ELSE "leaked")
    /\ UNCHANGED <<memory, reader, wrote, announced, forgotten, crashes>>

Enqueue(j) ==
    /\ pc[j] = "submitting"
    /\ queue' = Append(queue, j)
    /\ Goto(j, "queued")
    /\ UNCHANGED <<record, event, chunk, permits, compileLock, reader, attempt,
                   wrote, announced, forgotten, bounds>>

EnqueueRaisesHolding(j) ==
    /\ pc[j] = "submitting"
    /\ faults < MaxFaults
    /\ faults' = faults + 1
    /\ Goto(j, "rejected")
    /\ UNCHANGED <<memory, reader, attempt, wrote, announced, forgotten, crashes>>

\* JOB_EXECUTOR.submit raises (no thread can be started): the permit returns
\* and the job stays in JOBS until a poll finds it stale.
EnqueueRaises(j) ==
    /\ pc[j] = "submitting"
    /\ faults < MaxFaults
    /\ faults' = faults + 1
    /\ permits' = permits - 1
    /\ Goto(j, "rejected")
    /\ UNCHANGED <<record, event, chunk, compileLock, queue, reader, attempt, wrote,
                   announced, forgotten, crashes>>

PoolBusy == Cardinality({k \in Jobs : pc[k] \in WorkerSteps}) >= MaxWorkers

\* cancel_event_for: setdefault makes a new, clear event when the job has been
\* pruned meanwhile.
EventRenewed(j) == "clear"
EventTaken(j) == IF event[j] = "none" THEN "clear" ELSE event[j]

\* A thread of the pool takes the job and its cancel event.
Start(j) ==
    /\ pc[j] = "queued"
    /\ queue # <<>>
    /\ j = Head(queue)
    /\ ~PoolBusy
    /\ queue' = Tail(queue)
    /\ event' = [event EXCEPT ![j] = EventTaken(j)]
    /\ Goto(j, IF j \in Compile THEN "waiting"
               ELSE IF CancelSeen(j) THEN "releasing" ELSE "starting")
    /\ UNCHANGED <<record, chunk, permits, compileLock, reader, attempt, wrote,
                   announced, forgotten, bounds>>

-----------------------------------------------------------------------------
(* The worker of a compile job: _run_context_compile_job around compile.    *)

EnterCompile(j) ==
    /\ pc[j] = "waiting"
    /\ compileLock = NoJob
    /\ compileLock' = j
    /\ \E saved \in BOOLEAN :
         /\ UpdateJob(j, "running", "compiling", "progress", saved)
         /\ Goto(j, IF saved THEN "entered" ELSE "raised")
    /\ UNCHANGED <<event, chunk, pool, reader, wrote, announced, forgotten, crashes>>

\* A complete receipt is returned as it is, without a look at the event.
RestoreReceipt(j) ==
    /\ pc[j] = "entered"
    /\ HasReceipt(ArtifactOf[j])
    /\ Goto(j, "returned")
    /\ UNCHANGED <<memory, reader, attempt, wrote, announced, forgotten, bounds>>

\* The worker reports a new phase (the activity callback) and goes on; when
\* the journal cannot be written the exception ends the compilation.
Report(j, from, p, to) ==
    /\ pc[j] = from
    /\ \E saved \in BOOLEAN :
         /\ UpdateJob(j, Keep, p, "progress", saved)
         /\ Goto(j, IF saved THEN to ELSE "raised")
    /\ UNCHANGED <<event, pool, compileLock, reader, wrote, announced, forgotten, crashes>>

BeginLoading(j) ==
    /\ Report(j, "entered", "loading_model", "loading")
    /\ ~HasReceipt(ArtifactOf[j])
    /\ UNCHANGED chunk

\* The worker only moves on.
Step(j, from, to) ==
    /\ pc[j] = from
    /\ Goto(j, to)
    /\ UNCHANGED <<memory, reader, attempt, wrote, announced, forgotten, bounds>>

\* The worker looks at its event: a cancelled job leaves by the exception.
Checkpoint(j, from, to) ==
    Step(j, from, IF CancelSeen(j) THEN "cancelling" ELSE to)

\* The preload of a provider other than Ollama returns without a look.
LoadModel(j) ==
    \/ Checkpoint(j, "loading", "chunk")
    \/ Step(j, "loading", "chunk")

\* The head of the loop over the chunks looks at the event before it reports.
CancelledAtChunk(j) ==
    /\ chunk[j] < Chunks
    /\ CancelSeen(j)
    /\ Step(j, "chunk", "cancelling")

BeginChunk(j) ==
    /\ chunk[j] < Chunks
    /\ ~CancelSeen(j)
    /\ Report(j, "chunk", "compiling", "model")
    /\ UNCHANGED chunk

\* The executor of the model call polls the event and raises.
CancelledInCall(j) ==
    /\ CancelSeen(j)
    /\ Step(j, "model", "cancelling")

\* The model has answered, be the event set or not.
CompileChunk(j) ==
    /\ Report(j, "model", Keep, "chunk")
    /\ chunk' = [chunk EXCEPT ![j] = @ + 1]

BeginValidation(j) ==
    /\ chunk[j] = Chunks
    /\ Report(j, "chunk", "validating", "validating")
    /\ UNCHANGED chunk

CheckValidated(j) == Checkpoint(j, "validating", "committing")

BeginPersisting(j) ==
    /\ Report(j, "committing", "persisting", "persisting")
    /\ UNCHANGED chunk

\* The worker writes one file and goes on.
Write(j, from, file, to) ==
    /\ pc[j] = from
    /\ wrote' = [wrote EXCEPT ![j] = @ \cup file]
    /\ Goto(j, to)
    /\ UNCHANGED <<memory, reader, attempt, announced, forgotten, bounds>>

CheckPersisting(j) == Checkpoint(j, "persisting", "building")
CheckBuilt(j)      == Checkpoint(j, "building", "recording")
WriteReceiptEarly(j) == Write(j, "recording", {"registry", "receipt"}, "recorded")
WriteRegistry(j)   == Write(j, "recording", {"registry"}, "recorded")
CheckRecorded(j)   == Checkpoint(j, "recorded", "proposing")
WriteProposals(j)  == Write(j, "proposing", {"proposals"}, "proposed")

BeginFinalizing(j) ==
    /\ Report(j, "proposed", "finalizing", "finalizing")
    /\ UNCHANGED chunk

ReturnUnreceipted(j) == Step(j, "finalizing", "returned")
WriteReceipt(j)    == Write(j, "finalizing", {"receipt"}, "returned")

\* Anything else that raises inside compile: a refused preflight, a limit, a
\* model that fails, a file that cannot be read or written.
CompileRaises(j) == \E from \in CompileSteps : Step(j, from, "raised")

\* compile has returned: a set event ends in cancel_job and the lock is left.
CheckReturned(j) ==
    /\ pc[j] = "returned"
    /\ IF CancelSeen(j)
       THEN /\ \E saved \in BOOLEAN : CancelJob(j, saved)
            /\ compileLock' = NoJob
            /\ Goto(j, "releasing")
       ELSE /\ Goto(j, "finishing")
            /\ UNCHANGED <<record, event, attempt, announced, forgotten, faults, compileLock>>
    /\ UNCHANGED <<chunk, pool, reader, wrote, crashes>>

FinishCompile(j) ==
    /\ pc[j] = "finishing"
    /\ \E saved \in BOOLEAN, s \in {"done", "complete_empty"} :
         /\ UpdateJob(j, s, Keep, "finished", saved)
         /\ compileLock' = IF saved THEN NoJob ELSE compileLock
         /\ Goto(j, IF saved THEN "releasing" ELSE "raised")
    /\ UNCHANGED <<event, chunk, pool, reader, wrote, announced, forgotten, crashes>>

\* except ContextCompileError with code "cancelled": the lock is left, then
\* cancel_job, which finds the job cancelled or pruned already.
ExitCancelled(j) ==
    /\ pc[j] = "cancelling"
    /\ \E saved \in BOOLEAN : CancelJob(j, saved)
    /\ compileLock' = NoJob
    /\ Goto(j, "releasing")
    /\ UNCHANGED <<chunk, pool, reader, wrote, crashes>>

\* Any other exception leaves the lock before it is handled.
UnwindHolding(j) == Step(j, "raised", "failing")
Unwind(j) ==
    /\ pc[j] = "raised"
    /\ compileLock' = NoJob
    /\ Goto(j, "failing")
    /\ UNCHANGED <<record, event, chunk, pool, reader, attempt, wrote,
                   announced, forgotten, bounds>>

\* The message of a failure depends on how far the job says it came.
FailedNoteUnaware(j) == "unchanged"
FailedNote(j) == IF status[j] # "absent" /\ phase[j] \in Late THEN "check"
                                                              ELSE "unchanged"

FailCompile(j) ==
    /\ pc[j] = "failing"
    /\ \E saved \in BOOLEAN : UpdateJob(j, "failed", Keep, FailedNote(j), saved)
    /\ Goto(j, "releasing")
    /\ UNCHANGED <<event, chunk, pool, compileLock, reader, wrote,
                   announced, forgotten, crashes>>

-----------------------------------------------------------------------------
(* The worker of an analysis: _run_analyze_job around create_package.       *)

BeginAnalyse(j) ==
    /\ pc[j] = "starting"
    /\ UpdateJob(j, "running", Keep, "progress", TRUE)
    /\ Goto(j, "packaging")
    /\ UNCHANGED <<event, chunk, pool, compileLock, reader, wrote,
                   announced, forgotten, crashes>>

\* ensure_not_cancelled or the transcriber raises PackageCancelledError.
PackageCancelled(j) ==
    /\ pc[j] = "packaging"
    /\ CancelSeen(j)
    /\ CancelJob(j, TRUE)
    /\ Goto(j, "releasing")
    /\ UNCHANGED <<chunk, pool, compileLock, reader, wrote, crashes>>

\* The last ensure_not_cancelled, before the journal.
LastPackageCheck(j) ==
    /\ ~CancelSeen(j)
    /\ Step(j, "packaging", "publishing")

\* A journal that cannot be written only leaves a note in the package.
WriteJournal(j) ==
    \E file \in {{}, {"journal"}} : Write(j, "publishing", file, "published")

\* create_package raises, before the journal or when it cleans up after it.
\* The intake operation is finished first; when that raises too the job is
\* left as it is.
PackageRaises(j) ==
    /\ pc[j] \in {"packaging", "published"}
    /\ \/ UpdateJob(j, "failed", Keep, "finished", TRUE)
       \/ /\ faults < MaxFaults
          /\ faults' = faults + 1
          /\ UNCHANGED <<record, attempt>>
    /\ Goto(j, "releasing")
    /\ UNCHANGED <<event, chunk, pool, compileLock, reader, wrote,
                   announced, forgotten, crashes>>

CheckPublished(j) ==
    /\ pc[j] = "published"
    /\ IF CancelSeen(j)
       THEN CancelJob(j, TRUE) /\ Goto(j, "releasing")
       ELSE /\ Goto(j, "concluding")
            /\ UNCHANGED <<record, event, attempt, announced, forgotten, faults>>
    /\ UNCHANGED <<chunk, pool, compileLock, reader, wrote, crashes>>

FinishAnalyse(j) ==
    /\ pc[j] = "concluding"
    /\ UpdateJob(j, "done", Keep, "finished", TRUE)
    /\ Goto(j, "releasing")
    /\ UNCHANGED <<event, chunk, pool, compileLock, reader, wrote,
                   announced, forgotten, crashes>>

\* The finally of both workers.
Release(j) ==
    /\ pc[j] = "releasing"
    /\ permits' = permits - 1
    /\ Goto(j, "ended")
    /\ UNCHANGED <<record, event, chunk, compileLock, queue, reader, attempt, wrote,
                   announced, forgotten, bounds>>

-----------------------------------------------------------------------------
(* Everybody else. *)

\* POST /api/jobs/<id>/cancel, the timeout timer, mark_stale_job_failed.
Cancel(j) ==
    /\ status[j] \in Live
    /\ \E saved \in BOOLEAN : CancelJob(j, saved)
    /\ UNCHANGED <<pc, chunk, pool, compileLock, reader, wrote, crashes>>

\* prune_completed_jobs, run by get_job and by every submission, forgets the
\* job and its event; a worker that runs keeps the event it has taken.  No
\* submission lasts as long as the retention; a queued job can wait that long
\* behind busy threads.
Prune(j) ==
    /\ status[j] \in Terminal
    /\ pc[j] \notin SubmitSteps
    /\ pc[j] = "queued" => PoolBusy
    /\ forgotten' = IF pc[j] = "queued" THEN forgotten \cup {j} ELSE forgotten
    /\ status' = [status EXCEPT ![j] = "absent"]
    /\ phase' = [phase EXCEPT ![j] = "none"]
    /\ note' = [note EXCEPT ![j] = "progress"]
    /\ event' = [event EXCEPT ![j] = IF pc[j] \in WorkerSteps THEN @ ELSE "none"]
    /\ UNCHANGED <<pc, chunk, pool, compileLock, reader, attempt, wrote,
                   announced, bounds>>

\* GET /api/context/<artifact>/status looks for an active job, for a receipt,
\* then for the journal, each without the others' locks.
StatusActive(a) ==
    /\ reader.at = "idle"
    /\ ~LiveJob(a)
    /\ reader' = [at |-> "inactive", art |-> a]
    /\ UNCHANGED <<memory, pc, attempt, wrote, announced, forgotten, bounds>>

StatusReceipt ==
    /\ reader.at = "inactive"
    /\ reader' = [reader EXCEPT !.at = IF HasReceipt(reader.art) THEN "idle"
                                                                ELSE "no_receipt"]
    /\ UNCHANGED <<memory, pc, attempt, wrote, announced, forgotten, bounds>>

StatusAttempt ==
    /\ reader.at = "no_receipt"
    /\ reader' = [reader EXCEPT
                    !.at = IF attempt[reader.art] \in Live THEN "stale" ELSE "idle"]
    /\ UNCHANGED <<memory, pc, attempt, wrote, announced, forgotten, bounds>>

\* An unfinished record that no active job explains is rewritten.
StatusInterrupt ==
    /\ reader.at = "stale"
    /\ attempt' = [attempt EXCEPT ![reader.art] = "interrupted"]
    /\ reader' = [reader EXCEPT !.at = "idle"]
    /\ UNCHANGED <<memory, pc, wrote, announced, forgotten, bounds>>

\* The process is killed: its memory is gone, the files stay.
Crash ==
    /\ crashes < MaxCrashes
    /\ crashes' = crashes + 1
    /\ status' = [j \in Jobs |-> "absent"]
    /\ phase' = [j \in Jobs |-> "none"]
    /\ note' = [j \in Jobs |-> "progress"]
    /\ event' = [j \in Jobs |-> "none"]
    /\ chunk' = [j \in Jobs |-> 0]
    /\ pc' = [j \in Jobs |-> IF pc[j] \in {"idle", "ended"} THEN pc[j] ELSE "lost"]
    /\ permits' = 0
    /\ queue' = <<>>
    /\ compileLock' = NoJob
    /\ reader' = [reader EXCEPT !.at = "idle"]
    /\ UNCHANGED <<attempt, wrote, announced, forgotten, faults>>

-----------------------------------------------------------------------------
Init ==
    /\ status = [j \in Jobs |-> "absent"]
    /\ phase = [j \in Jobs |-> "none"]
    /\ note = [j \in Jobs |-> "progress"]
    /\ event = [j \in Jobs |-> "none"]
    /\ pc = [j \in Jobs |-> "idle"]
    /\ chunk = [j \in Jobs |-> 0]
    /\ permits = 0
    /\ queue = <<>>
    /\ compileLock = NoJob
    /\ reader \in [at : {"idle"}, art : Artifacts]
    /\ attempt = [a \in Artifacts |-> "none"]
    /\ wrote = [j \in Jobs |-> {}]
    /\ announced = {}
    /\ forgotten = {}
    /\ faults = 0
    /\ crashes = 0

Submission(j) ==
    \/ Acquire(j) \/ ResolveRaises(j) \/ Register(j) \/ PersistCreated(j)
    \/ Enqueue(j) \/ EnqueueRaises(j)

CompileWorker(j) ==
    \/ EnterCompile(j) \/ RestoreReceipt(j) \/ BeginLoading(j) \/ LoadModel(j)
    \/ CancelledAtChunk(j) \/ BeginChunk(j) \/ CancelledInCall(j)
    \/ CompileChunk(j) \/ BeginValidation(j) \/ CheckValidated(j)
    \/ BeginPersisting(j) \/ CheckPersisting(j) \/ CheckBuilt(j)
    \/ WriteRegistry(j) \/ CheckRecorded(j) \/ WriteProposals(j)
    \/ BeginFinalizing(j) \/ WriteReceipt(j) \/ CompileRaises(j)
    \/ CheckReturned(j) \/ FinishCompile(j) \/ ExitCancelled(j)
    \/ Unwind(j) \/ FailCompile(j)

AnalyseWorker(j) ==
    \/ BeginAnalyse(j) \/ PackageCancelled(j) \/ LastPackageCheck(j)
    \/ WriteJournal(j) \/ PackageRaises(j) \/ CheckPublished(j)
    \/ FinishAnalyse(j)

Worker(j) == Start(j) \/ CompileWorker(j) \/ AnalyseWorker(j) \/ Release(j)

Status ==
    \/ \E a \in Artifacts : StatusActive(a)
    \/ StatusReceipt \/ StatusAttempt \/ StatusInterrupt

Next ==
    \/ \E j \in Jobs : Submission(j) \/ Worker(j) \/ Cancel(j) \/ Prune(j)
    \/ Status
    \/ Crash

Spec == Init /\ [][Next]_vars

\* A handler that has taken a permit and a worker thread keep running: every
\* model call has a hard deadline (context_model_executor), file operations
\* end, and CONTEXT_COMPILE_LOCK is left on every path.  Nobody has to submit,
\* to cancel, to ask for a status or to come back for a prune.
Fairness ==
    \A j \in Jobs : /\ WF_vars(pc[j] # "idle" /\ Submission(j))
                    /\ WF_vars(Worker(j))

FairSpec == Spec /\ Fairness

-----------------------------------------------------------------------------
(* Properties. *)

TypeOK ==
    /\ status \in [Jobs -> Statuses \cup {"absent"}]
    /\ phase \in [Jobs -> Phases]
    /\ note \in [Jobs -> Notes]
    /\ event \in [Jobs -> {"none", "clear", "set"}]
    /\ pc \in [Jobs -> Steps]
    /\ chunk \in [Jobs -> Nat]
    /\ permits \in Int
    /\ queue \in Seq(Jobs)
    /\ compileLock \in Jobs \cup {NoJob}
    /\ reader \in [at : {"idle", "inactive", "no_receipt", "stale"}, art : Artifacts]
    /\ attempt \in [Artifacts -> Statuses \cup {"none"}]
    /\ wrote \in [Jobs -> SUBSET Files]
    /\ announced \subseteq Jobs
    /\ forgotten \subseteq Jobs
    /\ faults \in 0..MaxFaults
    /\ crashes \in 0..MaxCrashes

\* A compilation that was ever reported as cancelled ("Сборка контекста
\* отменена. Данные не изменены.", jobs.py:232) has written no file, before
\* or after the report, unless JOBS forgot it while it waited for a thread
\* (prune_completed_jobs, jobs.py:208-210): cancel_event_for (jobs.py:170)
\* then gives the worker an event that nobody will set.
CancelledWritesNothing ==
    \A j \in Compile : j \in announced \ forgotten => wrote[j] = {}

\* What the interface promises without that exception: a compilation
\* cancelled before it saves has changed no data (docs/USER_INTERFACE.md:72).
CancelledIsUnchanged ==
    \A j \in Compile : j \in announced => wrote[j] = {}

\* Whatever ended a compilation, a job whose message says that nothing was
\* changed has changed nothing (jobs.py:118, 122, 229, 232).
UnchangedMessageHolds ==
    \A j \in Compile : note[j] = "unchanged" => wrote[j] = {}

\* The receipt comes last: it never stands without the registry and the
\* proposals it speaks for, whenever the process is killed.
ReceiptIsComplete ==
    \A j \in Compile : "receipt" \in wrote[j] => {"registry", "proposals"} \subseteq wrote[j]

\* The journal says "done" only of an artifact whose receipt is on disk.
DoneHasReceipt ==
    \A a \in Artifacts : attempt[a] \in {"done", "complete_empty"} => HasReceipt(a)

\* Every permit in use belongs to exactly one job that still has to give it
\* back (or has leaked it): it is never returned twice, and JOB_CAPACITY, a
\* BoundedSemaphore, is never released above its initial value.
PermitAccounting ==
    permits = Cardinality({j \in Jobs : pc[j] \in Holding})

\* A job that has ended keeps its status until it is forgotten, whoever
\* reports last: the worker, a user or a timeout.
SettledStaysSettled ==
    [][\A j \in Jobs : status[j] \in Terminal => status'[j] \in {status[j], "absent"}]_vars

\* A job that was accepted is worked off (or dies with the process), whatever
\* was cancelled, failed or pruned on the way and whoever held the lock.
AcceptedJobEnds ==
    \A j \in Jobs : pc[j] = "queued" ~> pc[j] \in {"ended", "lost"}
=============================================================================
