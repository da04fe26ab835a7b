---------------------------- MODULE JobsProofs ----------------------------
(***************************************************************************)
(* Proofs about Jobs for every number of jobs, threads, permits, chunks,   *)
(* faults and crashes: its type; that what a user is told of a compilation *)
(* which was cancelled or has failed is true; and what a job leaves        *)
(* behind: the permits in use, the receipt and what it stands for, the     *)
(* journalled success and the status of an ended job.                      *)
(***************************************************************************)
EXTENDS Jobs, FiniteSetTheorems, TLAPS

USE JobsAssumption

-----------------------------------------------------------------------------
(* Type correctness.  It needs one fact beyond types: the job whose record *)
(* the submitting handler is about to journal is still in JOBS.            *)

Registered ==
    \A j \in Jobs : pc[j] \in {"registered", "submitting"} => status[j] # "absent"

TypeInv == TypeOK /\ Registered

\* What update_job and cancel_job never do.
KeepsJobs ==
    \A j \in Jobs : status[j] # "absent" => status'[j] # "absent"

RecordType ==
    /\ status \in [Jobs -> Statuses \cup {"absent"}]
    /\ phase \in [Jobs -> Phases]
    /\ note \in [Jobs -> Notes]

JournalType ==
    /\ attempt \in [Artifacts -> Statuses \cup {"none"}]
    /\ faults \in 0..MaxFaults

LEMMA SaveAttemptType ==
    ASSUME JournalType, NEW j \in Jobs, NEW s \in Statuses, NEW saved \in BOOLEAN,
           SaveAttempt(j, s, saved)
    PROVE  JournalType'
  BY DEF JournalType, SaveAttempt, Statuses, Live, Terminal

LEMMA UpdateJobType ==
    ASSUME RecordType, JournalType,
           NEW j \in Jobs, NEW s \in Statuses \cup {Keep},
           NEW p \in Phases \cup {Keep}, NEW n \in Notes, NEW saved \in BOOLEAN,
           UpdateJob(j, s, p, n, saved)
    PROVE  RecordType' /\ JournalType' /\ KeepsJobs
<1>1. CASE status[j] = "absent" \/ Ignores(j, s)
  BY <1>1 DEF UpdateJob, RecordType, JournalType, record, KeepsJobs
<1>2. CASE ~(status[j] = "absent" \/ Ignores(j, s))
  <2> DEFINE s2 == IF s = Keep THEN status[j] ELSE s
             p2 == IF p = Keep THEN phase[j] ELSE p
  <2>1. /\ status' = [status EXCEPT ![j] = s2]
        /\ phase' = [phase EXCEPT ![j] = p2]
        /\ note' = [note EXCEPT ![j] = n]
        /\ SaveAttempt(j, s2, saved)
    BY <1>2 DEF UpdateJob
  <2>2. s2 \in Statuses /\ p2 \in Phases
    BY <1>2 DEF RecordType, Statuses, Phases, Live, Terminal, Keep
  <2>3. JournalType'
    BY <2>1, <2>2, SaveAttemptType
  <2> HIDE DEF s2, p2
  <2> QED
    BY <2>1, <2>2, <2>3 DEF RecordType, KeepsJobs, Statuses, Live, Terminal
<1> QED
  BY <1>1, <1>2

LEMMA CancelJobType ==
    ASSUME RecordType, JournalType, NEW j \in Jobs, NEW saved \in BOOLEAN,
           event \in [Jobs -> {"none", "clear", "set"}], announced \subseteq Jobs,
           CancelJob(j, saved)
    PROVE  /\ RecordType'
           /\ JournalType'
           /\ KeepsJobs
           /\ event' \in [Jobs -> {"none", "clear", "set"}]
           /\ announced' \subseteq Jobs
           /\ forgotten' = forgotten
<1>1. CASE status[j] \in Terminal \cup {"absent"}
  BY <1>1 DEF CancelJob, RecordType, JournalType, record, KeepsJobs, Terminal, Live
<1>2. CASE status[j] \in Live /\ TooLate(j)
  BY <1>2 DEF CancelJob, RecordType, JournalType, record, KeepsJobs, Notes, Terminal, Live
<1>3. CASE status[j] \in Live /\ ~TooLate(j)
  <2>1. SaveAttempt(j, "cancelled", saved)
    BY <1>3 DEF CancelJob, Terminal, Live
  <2>2. JournalType'
    BY <2>1, SaveAttemptType DEF Statuses, Terminal
  <2>3. QED
    BY <1>3, <2>2 DEF CancelJob, RecordType, KeepsJobs, Notes, Statuses, Terminal, Live
<1> QED
  BY <1>1, <1>2, <1>3 DEF CancelJob

LEMMA SubmissionType ==
    ASSUME TypeInv, NEW j \in Jobs, Submission(j)
    PROVE  TypeInv'
<1> USE DEF TypeInv, TypeOK, Registered, record, pool, memory, bounds, Goto
<1>1. CASE Acquire(j)
  BY <1>1 DEF Acquire, Steps, SubmitSteps
<1>2. CASE ResolveRaises(j)
  BY <1>2 DEF ResolveRaises, Steps
<1>3. CASE Register(j)
  BY <1>3 DEF Register, Steps, SubmitSteps, Statuses, Live, Notes
<1>4. CASE PersistCreated(j)
  <2>1. PICK saved \in BOOLEAN : SaveAttempt(j, status[j], saved)
    BY <1>4 DEF PersistCreated
  <2>2. status[j] \in Statuses
    BY <1>4 DEF PersistCreated
  <2>3. JournalType'
    BY <2>1, <2>2, SaveAttemptType DEF JournalType
  <2> QED
    BY <1>4, <2>3 DEF PersistCreated, JournalType, Steps, SubmitSteps
<1>5. CASE Enqueue(j)
  BY <1>5 DEF Enqueue, Steps
<1>6. CASE EnqueueRaises(j)
  BY <1>6 DEF EnqueueRaises, Steps
<1> QED
  BY <1>1, <1>2, <1>3, <1>4, <1>5, <1>6 DEF Submission

\* The shapes that the actions of the workers share.
StepNames ==
    {"idle", "queued", "ended", "leaked", "rejected", "lost"} \cup WorkerSteps

LEMMA StepType ==
    ASSUME TypeInv, NEW j \in Jobs, NEW from, NEW to \in StepNames, Step(j, from, to)
    PROVE  TypeInv'
  BY DEF Step, StepNames, TypeInv, TypeOK, Registered, record, pool, memory, bounds,
         Goto, Steps, WorkerSteps, LockedSteps, CompileSteps, AnalyseSteps

LEMMA WriteType ==
    ASSUME TypeInv, NEW j \in Jobs, NEW from, NEW file \in SUBSET Files,
           NEW to \in StepNames, Write(j, from, file, to)
    PROVE  TypeInv'
  BY DEF Write, StepNames, TypeInv, TypeOK, Registered, record, pool, memory, bounds,
         Goto, Steps, WorkerSteps, LockedSteps, CompileSteps, AnalyseSteps

LEMMA ReportType ==
    ASSUME TypeInv, NEW j \in Jobs, NEW from, NEW p \in Phases \cup {Keep},
           NEW to \in StepNames, Report(j, from, p, to), chunk' \in [Jobs -> Nat]
    PROVE  TypeInv'
<1>1. PICK saved \in BOOLEAN : /\ UpdateJob(j, Keep, p, "progress", saved)
                              /\ Goto(j, IF saved THEN to ELSE "raised")
  BY DEF Report
<1>2. "progress" \in Notes /\ "raised" \in StepNames
  BY DEF Notes, StepNames, WorkerSteps, LockedSteps
<1>3. RecordType /\ JournalType
  BY DEF TypeInv, TypeOK, RecordType, JournalType
<1>4. RecordType' /\ JournalType' /\ KeepsJobs
  BY <1>1, <1>2, <1>3, UpdateJobType
<1>5. pc' \in [Jobs -> Steps] /\ pc'[j] \in StepNames
  BY <1>1, <1>2 DEF Goto, TypeInv, TypeOK, StepNames, Steps
<1>6. Registered'
  BY <1>1, <1>4, <1>5 DEF Goto, KeepsJobs, Registered, TypeInv, TypeOK, StepNames,
        WorkerSteps, LockedSteps, CompileSteps, AnalyseSteps
<1> QED
  BY <1>4, <1>5, <1>6 DEF Report, RecordType, JournalType, TypeInv, TypeOK, pool

\* An action that updates the job's record and moves on.
LEMMA UpdateThenGoto ==
    ASSUME TypeInv, NEW j \in Jobs, NEW s \in Statuses \cup {Keep},
           NEW n \in Notes, NEW p \in Phases \cup {Keep}, NEW saved \in BOOLEAN,
           NEW to \in StepNames,
           UpdateJob(j, s, p, n, saved), Goto(j, to),
           compileLock' \in Jobs \cup {NoJob},
           UNCHANGED <<event, chunk, permits, queue, reader, wrote, announced, forgotten, crashes>>
    PROVE  TypeInv'
<1>1. RecordType /\ JournalType
  BY DEF TypeInv, TypeOK, RecordType, JournalType
<1>2. RecordType' /\ JournalType' /\ KeepsJobs
  BY <1>1, UpdateJobType
<1>3. pc' \in [Jobs -> Steps] /\ pc'[j] \in StepNames
  BY DEF Goto, TypeInv, TypeOK, StepNames, Steps
<1>4. Registered'
  BY <1>2, <1>3 DEF Goto, KeepsJobs, Registered, TypeInv, TypeOK, StepNames,
        WorkerSteps, LockedSteps, CompileSteps, AnalyseSteps
<1> QED
  BY <1>2, <1>3, <1>4 DEF RecordType, JournalType, TypeInv, TypeOK

LEMMA CancelThenGoto ==
    ASSUME TypeInv, NEW j \in Jobs, NEW saved \in BOOLEAN,
           CancelJob(j, saved),
           UNCHANGED pc \/ (\E to \in StepNames : Goto(j, to)),
           compileLock' \in Jobs \cup {NoJob},
           UNCHANGED <<chunk, permits, queue, reader, wrote, crashes>>
    PROVE  TypeInv'
<1>1. /\ RecordType
      /\ JournalType
      /\ event \in [Jobs -> {"none", "clear", "set"}]
      /\ announced \subseteq Jobs
  BY DEF TypeInv, TypeOK, RecordType, JournalType
<1>2. /\ RecordType'
      /\ JournalType'
      /\ KeepsJobs
      /\ event' \in [Jobs -> {"none", "clear", "set"}]
      /\ announced' \subseteq Jobs
      /\ forgotten' = forgotten
  BY <1>1, CancelJobType
<1>3. /\ pc' \in [Jobs -> Steps]
      /\ \A k \in Jobs : pc'[k] = pc[k] \/ pc'[k] \in StepNames
  <2>1. CASE UNCHANGED pc
    BY <2>1 DEF TypeInv, TypeOK
  <2>2. CASE \E to \in StepNames : Goto(j, to)
    <3>1. PICK to \in StepNames : Goto(j, to)
      BY <2>2
    <3>2. to \in Steps
      BY DEF StepNames, Steps
    <3> QED
      BY <3>1, <3>2 DEF Goto, TypeInv, TypeOK
  <2> QED
    BY <2>1, <2>2
<1>4. Registered'
  <2>1. \A k \in Jobs : pc'[k] \in {"registered", "submitting"} => pc'[k] = pc[k]
    BY <1>3 DEF StepNames, WorkerSteps, LockedSteps, CompileSteps, AnalyseSteps
  <2> QED
    BY <1>2, <2>1 DEF KeepsJobs, Registered, TypeInv
<1> QED
  BY <1>2, <1>3, <1>4 DEF RecordType, JournalType, TypeInv, TypeOK

LEMMA CompileWorkerType ==
    ASSUME TypeInv, NEW j \in Jobs, CompileWorker(j)
    PROVE  TypeInv'
<1> USE DEF pool
<1>n. /\ StepNames \subseteq Steps
      /\ CompileSteps \cup {"returned", "finishing", "cancelling", "raised",
                           "failing", "releasing"} \subseteq StepNames
  BY DEF StepNames, Steps, WorkerSteps, LockedSteps
<1>v. /\ {"progress", "unchanged", "check", "finished"} \subseteq Notes
      /\ {"running", "done", "complete_empty", "failed"} \subseteq Statuses
  BY DEF Notes, Statuses, Live, Terminal
<1>c. chunk \in [Jobs -> Nat]
  BY DEF TypeInv, TypeOK
<1>1. CASE EnterCompile(j)
  <2>1. PICK saved \in BOOLEAN :
            /\ UpdateJob(j, "running", "compiling", "progress", saved)
            /\ Goto(j, IF saved THEN "entered" ELSE "raised")
    BY <1>1 DEF EnterCompile
  <2>2. (IF saved THEN "entered" ELSE "raised") \in StepNames
    BY <1>n DEF CompileSteps
  <2>3. "compiling" \in Phases
    BY DEF Phases
  <2> QED
    BY <1>1, <1>v, <2>1, <2>2, <2>3, UpdateThenGoto DEF EnterCompile
<1>2. CASE RestoreReceipt(j)
  BY <1>2, <1>n, StepType DEF RestoreReceipt, Step
<1>3. CASE BeginLoading(j)
  BY <1>3, <1>n, <1>c, ReportType DEF BeginLoading, CompileSteps, Phases
<1>4. CASE LoadModel(j)
  BY <1>4, <1>n, StepType DEF LoadModel, Checkpoint, CompileSteps
<1>5. CASE CancelledAtChunk(j)
  BY <1>5, <1>n, StepType DEF CancelledAtChunk
<1>6. CASE BeginChunk(j)
  BY <1>6, <1>n, <1>c, ReportType DEF BeginChunk, CompileSteps, Phases
<1>7. CASE CancelledInCall(j)
  BY <1>7, <1>n, StepType DEF CancelledInCall
<1>8. CASE CompileChunk(j)
  <2>1. chunk' \in [Jobs -> Nat]
    BY <1>8, <1>c DEF CompileChunk
  <2> QED
    BY <1>8, <1>n, <2>1, ReportType DEF CompileChunk, CompileSteps
<1>9. CASE BeginValidation(j)
  BY <1>9, <1>n, <1>c, ReportType DEF BeginValidation, CompileSteps, Phases
<1>10. CASE CheckValidated(j)
  BY <1>10, <1>n, StepType DEF CheckValidated, Checkpoint, CompileSteps
<1>11. CASE BeginPersisting(j)
  BY <1>11, <1>n, <1>c, ReportType DEF BeginPersisting, CompileSteps, Phases
<1>12. CASE CheckPersisting(j)
  BY <1>12, <1>n, StepType DEF CheckPersisting, Checkpoint, CompileSteps
<1>13. CASE CheckBuilt(j)
  BY <1>13, <1>n, StepType DEF CheckBuilt, Checkpoint, CompileSteps
<1>14. CASE WriteRegistry(j)
  BY <1>14, <1>n, WriteType DEF WriteRegistry, Files, CompileSteps
<1>15. CASE CheckRecorded(j)
  BY <1>15, <1>n, StepType DEF CheckRecorded, Checkpoint, CompileSteps
<1>16. CASE WriteProposals(j)
  BY <1>16, <1>n, WriteType DEF WriteProposals, Files, CompileSteps
<1>17. CASE BeginFinalizing(j)
  BY <1>17, <1>n, <1>c, ReportType DEF BeginFinalizing, CompileSteps, Phases
<1>18. CASE WriteReceipt(j)
  BY <1>18, <1>n, WriteType DEF WriteReceipt, Files
<1>19. CASE CompileRaises(j)
  BY <1>19, <1>n, StepType DEF CompileRaises
<1>20. CASE CheckReturned(j)
  <2>1. CASE CancelSeen(j)
    BY <1>20, <1>n, <2>1, CancelThenGoto DEF CheckReturned
  <2>2. CASE ~CancelSeen(j)
    <3>1. Step(j, "returned", "finishing")
      BY <1>20, <2>2 DEF CheckReturned, Step, record, memory, bounds
    <3> QED
      BY <1>n, <3>1, StepType
  <2> QED
    BY <2>1, <2>2
<1>21. CASE FinishCompile(j)
  <2>1. PICK saved \in BOOLEAN, s \in {"done", "complete_empty"} :
            /\ UpdateJob(j, s, Keep, "finished", saved)
            /\ compileLock' = IF saved THEN NoJob ELSE compileLock
            /\ Goto(j, IF saved THEN "releasing" ELSE "raised")
    BY <1>21 DEF FinishCompile
  <2>2. /\ (IF saved THEN "releasing" ELSE "raised") \in StepNames
        /\ compileLock' \in Jobs \cup {NoJob}
    BY <1>n, <2>1 DEF TypeInv, TypeOK
  <2> QED
    BY <1>21, <1>v, <2>1, <2>2, UpdateThenGoto DEF FinishCompile
<1>22. CASE ExitCancelled(j)
  BY <1>22, <1>n, CancelThenGoto DEF ExitCancelled
<1>23. CASE Unwind(j)
  BY <1>23, <1>n DEF Unwind, Goto, TypeInv, TypeOK, Registered, record, bounds
<1>24. CASE FailCompile(j)
  <2>1. PICK saved \in BOOLEAN : UpdateJob(j, "failed", Keep, FailedNote(j), saved)
    BY <1>24 DEF FailCompile
  <2>2. FailedNote(j) \in Notes
    BY <1>v DEF FailedNote
  <2>3. compileLock' \in Jobs \cup {NoJob}
    BY <1>24 DEF FailCompile, TypeInv, TypeOK
  <2> QED
    BY <1>24, <1>n, <1>v, <2>1, <2>2, <2>3, UpdateThenGoto DEF FailCompile
<1> QED
  BY <1>1, <1>2, <1>3, <1>4, <1>5, <1>6, <1>7, <1>8, <1>9, <1>10, <1>11, <1>12,
     <1>13, <1>14, <1>15, <1>16, <1>17, <1>18, <1>19, <1>20, <1>21, <1>22, <1>23,
     <1>24 DEF CompileWorker

LEMMA AnalyseWorkerType ==
    ASSUME TypeInv, NEW j \in Jobs, AnalyseWorker(j)
    PROVE  TypeInv'
<1> USE DEF pool
<1>n. AnalyseSteps \cup {"releasing"} \subseteq StepNames
  BY DEF StepNames, WorkerSteps
<1>v. /\ {"progress", "finished"} \subseteq Notes
      /\ {"running", "done", "failed"} \subseteq Statuses
      /\ compileLock \in Jobs \cup {NoJob}
  BY DEF Notes, Statuses, Live, Terminal, TypeInv, TypeOK
<1>1. CASE BeginAnalyse(j)
  BY <1>1, <1>n, <1>v, UpdateThenGoto DEF BeginAnalyse, AnalyseSteps
<1>2. CASE PackageCancelled(j)
  BY <1>2, <1>n, <1>v, CancelThenGoto DEF PackageCancelled
<1>3. CASE LastPackageCheck(j)
  BY <1>3, <1>n, StepType DEF LastPackageCheck, AnalyseSteps
<1>4. CASE WriteJournal(j)
  BY <1>4, <1>n, WriteType DEF WriteJournal, AnalyseSteps, Files
<1>5. CASE PackageRaises(j)
  <2>1. CASE UpdateJob(j, "failed", Keep, "finished", TRUE)
    BY <1>5, <1>n, <1>v, <2>1, UpdateThenGoto DEF PackageRaises
  <2>2. CASE faults < MaxFaults /\ faults' = faults + 1 /\ UNCHANGED <<record, attempt>>
    <3>1. /\ faults' \in 0..MaxFaults
          /\ pc' \in [Jobs -> Steps] /\ pc'[j] = "releasing"
          /\ \A k \in Jobs : pc'[k] = pc[k] \/ pc'[k] = "releasing"
      BY <1>5, <1>n, <2>2 DEF PackageRaises, Goto, TypeInv, TypeOK, Steps, WorkerSteps
    <3> QED
      BY <1>5, <2>2, <3>1 DEF PackageRaises, TypeInv, TypeOK, Registered, record
  <2> QED
    BY <1>5, <2>1, <2>2 DEF PackageRaises
<1>6. CASE CheckPublished(j)
  <2>1. CASE CancelSeen(j)
    BY <1>6, <1>n, <1>v, <2>1, CancelThenGoto DEF CheckPublished
  <2>2. CASE ~CancelSeen(j)
    <3>1. Step(j, "published", "concluding")
      BY <1>6, <2>2 DEF CheckPublished, Step, record, memory, bounds
    <3> QED
      BY <1>n, <3>1, StepType DEF AnalyseSteps
  <2> QED
    BY <2>1, <2>2
<1>7. CASE FinishAnalyse(j)
  BY <1>7, <1>n, <1>v, UpdateThenGoto DEF FinishAnalyse
<1> QED
  BY <1>1, <1>2, <1>3, <1>4, <1>5, <1>6, <1>7 DEF AnalyseWorker

LEMMA OthersType ==
    ASSUME TypeInv,
           \/ \E j \in Jobs : Start(j) \/ Release(j) \/ Cancel(j) \/ Prune(j)
           \/ Status
           \/ Crash
    PROVE  TypeInv'
<1> USE DEF pool, record, memory, bounds
<1>1. ASSUME NEW j \in Jobs, Start(j) PROVE TypeInv'
  <2>1. queue' \in Seq(Jobs)
    BY <1>1 DEF Start, TypeInv, TypeOK
  <2>2. event' \in [Jobs -> {"none", "clear", "set"}]
    BY <1>1 DEF Start, EventTaken, TypeInv, TypeOK
  <2>3. /\ pc' \in [Jobs -> Steps]
        /\ \A k \in Jobs : pc'[k] = pc[k] \/ pc'[k] \notin {"registered", "submitting"}
    BY <1>1 DEF Start, Goto, TypeInv, TypeOK, Steps, WorkerSteps, AnalyseSteps
  <2> QED
    BY <1>1, <2>1, <2>2, <2>3 DEF Start, TypeInv, TypeOK, Registered
<1>2. ASSUME NEW j \in Jobs, Release(j) PROVE TypeInv'
  BY <1>2 DEF Release, Goto, TypeInv, TypeOK, Registered, Steps
<1>3. ASSUME NEW j \in Jobs, Cancel(j) PROVE TypeInv'
  <2>1. compileLock' \in Jobs \cup {NoJob}
    BY <1>3 DEF Cancel, TypeInv, TypeOK
  <2> QED
    BY <1>3, <2>1, CancelThenGoto DEF Cancel
<1>4. ASSUME NEW j \in Jobs, Prune(j) PROVE TypeInv'
  <2>1. /\ status' \in [Jobs -> Statuses \cup {"absent"}]
        /\ phase' \in [Jobs -> Phases]
        /\ note' \in [Jobs -> Notes]
        /\ event' \in [Jobs -> {"none", "clear", "set"}]
        /\ forgotten' \subseteq Jobs
    BY <1>4 DEF Prune, TypeInv, TypeOK, Phases, Notes
  <2>2. Registered'
    BY <1>4 DEF Prune, TypeInv, TypeOK, Registered, SubmitSteps
  <2> QED
    BY <1>4, <2>1, <2>2 DEF Prune, TypeInv, TypeOK
<1>5. CASE Status
  <2>1. /\ reader' \in [at : {"idle", "inactive", "no_receipt", "stale"}, art : Artifacts]
        /\ attempt' \in [Artifacts -> Statuses \cup {"none"}]
    <3>1. reader \in [at : {"idle", "inactive", "no_receipt", "stale"}, art : Artifacts]
          /\ attempt \in [Artifacts -> Statuses \cup {"none"}]
      BY DEF TypeInv, TypeOK
    <3>2. CASE \E a \in Artifacts : StatusActive(a)
      BY <3>1, <3>2 DEF StatusActive
    <3>3. CASE StatusReceipt
      BY <3>1, <3>3 DEF StatusReceipt
    <3>4. CASE StatusAttempt
      BY <3>1, <3>4 DEF StatusAttempt
    <3>5. CASE StatusInterrupt
      BY <3>1, <3>5 DEF StatusInterrupt, Statuses, Terminal
    <3> QED
      BY <1>5, <3>2, <3>3, <3>4, <3>5 DEF Status
  <2>2. UNCHANGED <<memory, pc, wrote, announced, forgotten, bounds>>
    BY <1>5 DEF Status, StatusActive, StatusReceipt, StatusAttempt, StatusInterrupt
  <2> QED
    BY <2>1, <2>2 DEF TypeInv, TypeOK, Registered
<1>6. CASE Crash
  <2>1. /\ pc' \in [Jobs -> Steps]
        /\ \A k \in Jobs : pc'[k] \notin {"registered", "submitting"}
    BY <1>6 DEF Crash, TypeInv, TypeOK, Steps
  <2>2. reader' \in [at : {"idle", "inactive", "no_receipt", "stale"}, art : Artifacts]
    BY <1>6 DEF Crash, TypeInv, TypeOK
  <2>3. crashes' \in 0..MaxCrashes
    BY <1>6 DEF Crash, TypeInv, TypeOK
  <2> QED
    BY <1>6, <2>1, <2>2, <2>3 DEF Crash, TypeInv, TypeOK, Registered, Phases, Notes
<1> QED
  BY <1>1, <1>2, <1>3, <1>4, <1>5, <1>6

LEMMA NextType == TypeInv /\ [Next]_vars => TypeInv'
<1> SUFFICES ASSUME TypeInv, [Next]_vars PROVE TypeInv'
  OBVIOUS
<1>1. CASE Next
  BY <1>1, SubmissionType, CompileWorkerType, AnalyseWorkerType, OthersType
     DEF Next, Worker
<1>2. CASE UNCHANGED vars
  BY <1>2 DEF vars, TypeInv, TypeOK, Registered
<1> QED
  BY <1>1, <1>2

LEMMA InitType == Init => TypeInv
  BY DEF Init, TypeInv, TypeOK, Registered, Phases, Notes, Steps

\* Every variable keeps its type, however many jobs, faults and crashes.
THEOREM TypeCorrect == Spec => []TypeOK
<1>1. Init => TypeInv
  BY InitType
<1>2. TypeInv /\ [Next]_vars => TypeInv'
  BY NextType
<1>3. TypeInv => TypeOK
  BY DEF TypeInv
<1> QED
  BY <1>1, <1>2, <1>3, PTL DEF Spec

-----------------------------------------------------------------------------
(* What is told of a cancelled or failed compilation ("the data is          *)
(* unchanged") is true, and stays true of every job that JOBS did not       *)
(* forget while it waited for a thread.  Neither property is inductive:     *)
(* both rest on where the worker of the job can be.  A cancelled job has    *)
(* its event set until its worker ends, so it cannot pass the checks before *)
(* the first write; a job that passed them shows a late phase, so           *)
(* cancel_job refuses it.  Of a forgotten job nothing is told any more.     *)

HIDE JobsAssumption

\* Where a compile job is between its registration and the end of its worker.
Underway == {"registered", "submitting", "queued"} \cup WorkerSteps

\* Where a job that nobody cancelled still waits for its worker.
Waiting == {"registered", "submitting", "queued", "waiting"}

\* Past the last look at the event before the first write, up to the last.
Committed == {"building", "recording", "recorded", "proposing", "proposed", "finalizing"}

\* Where a job that has written something can be.
Written == {"recorded", "proposing", "proposed", "finalizing", "returned", "finishing",
            "cancelling", "raised", "failing", "releasing", "ended", "lost"}

CancelInvOf(j) ==
    /\ pc[j] \notin AnalyseSteps
    /\ pc[j] \in {"idle", "acquired"} => status[j] = "absent" /\ j \notin announced
    /\ j \in announced /\ pc[j] \in Underway => event[j] = "set"
    /\ j \notin announced /\ pc[j] \in Waiting
         => status[j] = "created" /\ note[j] # "unchanged"
    /\ j \notin announced /\ pc[j] \in CompileSteps
         => status[j] = "running" /\ note[j] # "unchanged"
    /\ j \notin announced /\ pc[j] \in Committed \cup {"persisting"} => phase[j] \in Late
    /\ pc[j] \in Committed => j \notin announced
    /\ wrote[j] # {} => /\ j \notin announced
                        /\ pc[j] \in Written
                        /\ status[j] \in Live \cup {"failed"} => phase[j] \in Late
                        /\ note[j] # "unchanged"

\* JOBS never learns of a forgotten job again.
ForgottenOf(j) ==
    /\ pc[j] \notin {"idle", "acquired"}
    /\ status[j] = "absent"
    /\ note[j] = "progress"

CancelInv ==
    \A j \in Compile : IF j \in forgotten THEN ForgottenOf(j) ELSE CancelInvOf(j)

Untouched(k) ==
    /\ status'[k] = status[k]
    /\ phase'[k] = phase[k]
    /\ note'[k] = note[k]
    /\ event'[k] = event[k]
    /\ pc'[k] = pc[k]
    /\ wrote'[k] = wrote[k]
    /\ k \in announced' <=> k \in announced

LEMMA UntouchedInv ==
    ASSUME NEW k \in Compile, CancelInvOf(k), Untouched(k)
    PROVE  CancelInvOf(k)'
  BY DEF CancelInvOf, Untouched

-----------------------------------------------------------------------------
(* What the shapes do to the job they are about and to the others.          *)

SameRecord(k) == status'[k] = status[k] /\ phase'[k] = phase[k] /\ note'[k] = note[k]

LEMMA UpdateEffect ==
    ASSUME TypeInv, NEW j \in Jobs, NEW s \in Statuses \cup {Keep},
           NEW p \in Phases \cup {Keep}, NEW n \in Notes, NEW saved \in BOOLEAN,
           UpdateJob(j, s, p, n, saved)
    PROVE  /\ \A k \in Jobs \ {j} : SameRecord(k)
           /\ status[j] = "absent" \/ Ignores(j, s) => SameRecord(j)
           /\ ~(status[j] = "absent" \/ Ignores(j, s)) =>
                 /\ status'[j] = IF s = Keep THEN status[j] ELSE s
                 /\ phase'[j] = IF p = Keep THEN phase[j] ELSE p
                 /\ note'[j] = n
<1>1. CASE status[j] = "absent" \/ Ignores(j, s)
  BY <1>1 DEF UpdateJob, record, SameRecord
<1>2. CASE ~(status[j] = "absent" \/ Ignores(j, s))
  <2>1. /\ status' = [status EXCEPT ![j] = IF s = Keep THEN status[j] ELSE s]
        /\ phase' = [phase EXCEPT ![j] = IF p = Keep THEN phase[j] ELSE p]
        /\ note' = [note EXCEPT ![j] = n]
    BY <1>2 DEF UpdateJob
  <2> QED
    BY <1>2, <2>1 DEF SameRecord, TypeInv, TypeOK
<1> QED
  BY <1>1, <1>2

LEMMA CancelEffect ==
    ASSUME TypeInv, NEW j \in Jobs, NEW saved \in BOOLEAN, CancelJob(j, saved)
    PROVE  /\ \A k \in Jobs \ {j} :
                 SameRecord(k) /\ event'[k] = event[k] /\ (k \in announced' <=> k \in announced)
           /\ \/ /\ status[j] \notin Live
                 /\ SameRecord(j) /\ event'[j] = event[j] /\ (j \in announced' <=> j \in announced)
              \/ /\ status[j] \in Live /\ TooLate(j)
                 /\ status'[j] = status[j] /\ phase'[j] = phase[j] /\ note'[j] = "wait"
                 /\ event'[j] = event[j] /\ (j \in announced' <=> j \in announced)
              \/ /\ status[j] \in Live /\ ~TooLate(j)
                 /\ status'[j] = "cancelled" /\ phase'[j] = phase[j]
                 /\ event'[j] = "set" /\ j \in announced'
<1>1. CASE status[j] \in Terminal \cup {"absent"}
  BY <1>1 DEF CancelJob, SameRecord, record, Terminal, Live
<1>2. CASE status[j] \in Live /\ TooLate(j)
  BY <1>2 DEF CancelJob, SameRecord, TypeInv, TypeOK, Terminal, Live
<1>3. CASE status[j] \in Live /\ ~TooLate(j)
  BY <1>3 DEF CancelJob, SameRecord, TypeInv, TypeOK, Terminal, Live
<1> QED
  BY <1>1, <1>2, <1>3 DEF CancelJob

LEMMA ReportEffect ==
    ASSUME TypeInv, NEW j \in Jobs, NEW from, NEW p \in Phases \cup {Keep}, NEW to,
           Report(j, from, p, to)
    PROVE  /\ \A k \in Jobs \ {j} : Untouched(k)
           /\ event'[j] = event[j] /\ wrote'[j] = wrote[j]
           /\ j \in announced' <=> j \in announced
           /\ pc[j] = from /\ pc'[j] \in {to, "raised"}
           /\ status[j] = "absent" => SameRecord(j)
           /\ status[j] # "absent" => /\ status'[j] = status[j]
                                      /\ phase'[j] = IF p = Keep THEN phase[j] ELSE p
                                      /\ note'[j] = "progress"
<1>1. PICK saved \in BOOLEAN : /\ UpdateJob(j, Keep, p, "progress", saved)
                              /\ Goto(j, IF saved THEN to ELSE "raised")
  BY DEF Report
<1>2. "progress" \in Notes /\ ~Ignores(j, Keep)
  BY DEF Notes, Ignores
<1>3. /\ \A k \in Jobs \ {j} : SameRecord(k)
      /\ status[j] = "absent" => SameRecord(j)
      /\ status[j] # "absent" => /\ status'[j] = status[j]
                                 /\ phase'[j] = IF p = Keep THEN phase[j] ELSE p
                                 /\ note'[j] = "progress"
  BY <1>1, <1>2, UpdateEffect
<1>4. /\ pc'[j] \in {to, "raised"}
      /\ \A k \in Jobs \ {j} : pc'[k] = pc[k]
  BY <1>1 DEF Goto, TypeInv, TypeOK
<1> QED
  BY <1>3, <1>4 DEF Report, Untouched, SameRecord

LEMMA StepEffect ==
    ASSUME TypeInv, NEW j \in Jobs, NEW from, NEW to, Step(j, from, to)
    PROVE  /\ \A k \in Jobs \ {j} : Untouched(k)
           /\ SameRecord(j)
           /\ event'[j] = event[j] /\ wrote'[j] = wrote[j]
           /\ j \in announced' <=> j \in announced
           /\ pc[j] = from /\ pc'[j] = to
  BY DEF Step, memory, Goto, Untouched, SameRecord, TypeInv, TypeOK

LEMMA WriteEffect ==
    ASSUME TypeInv, NEW j \in Jobs, NEW from, NEW file, NEW to, Write(j, from, file, to)
    PROVE  /\ \A k \in Jobs \ {j} : Untouched(k)
           /\ SameRecord(j)
           /\ event'[j] = event[j]
           /\ j \in announced' <=> j \in announced
           /\ pc[j] = from /\ pc'[j] = to
  BY DEF Write, memory, Goto, Untouched, SameRecord, TypeInv, TypeOK

-----------------------------------------------------------------------------
(* A step of one job leaves every other job as it is.                       *)

LEMMA OthersUntouched ==
    ASSUME TypeInv, NEW j \in Jobs, NEW k \in Jobs \ {j},
           Submission(j) \/ Worker(j) \/ Cancel(j) \/ Prune(j)
    PROVE  Untouched(k)
<1> USE DEF pool, record, memory, bounds
<1>t. /\ status \in [Jobs -> Statuses \cup {"absent"}]
      /\ note \in [Jobs -> Notes]
      /\ phase \in [Jobs -> Phases]
      /\ event \in [Jobs -> {"none", "clear", "set"}]
      /\ pc \in [Jobs -> Steps]
      /\ wrote \in [Jobs -> SUBSET Files]
  BY DEF TypeInv, TypeOK
<1>n. /\ {"progress", "unchanged", "check", "finished"} \subseteq Notes
      /\ {"running", "done", "complete_empty", "failed"} \subseteq Statuses
      /\ Phases \subseteq Phases \cup {Keep}
      /\ {"loading_model", "compiling", "validating", "persisting", "finalizing"}
            \subseteq Phases
  BY DEF Notes, Statuses, Live, Terminal, Phases
<1>1. CASE Submission(j)
  BY <1>1, <1>t DEF Submission, Acquire, ResolveRaises, Register, PersistCreated, Enqueue,
        EnqueueRaises, Goto, Untouched
<1>2. CASE Start(j) \/ Release(j) \/ Prune(j) \/ Unwind(j)
  BY <1>2, <1>t DEF Start, Release, Prune, Unwind, Goto, Untouched
<1>3. CASE Cancel(j) \/ ExitCancelled(j) \/ PackageCancelled(j)
  <2>1. PICK saved \in BOOLEAN : CancelJob(j, saved)
    BY <1>3 DEF Cancel, ExitCancelled, PackageCancelled
  <2>2. pc'[k] = pc[k] /\ wrote' = wrote
    BY <1>3, <1>t DEF Cancel, ExitCancelled, PackageCancelled, Goto
  <2> QED
    BY <2>1, <2>2, CancelEffect DEF Untouched, SameRecord
<1>4. CASE CheckReturned(j) \/ CheckPublished(j)
  <2>1. CASE CancelSeen(j)
    <3>1. PICK saved \in BOOLEAN : CancelJob(j, saved)
      BY <1>4, <2>1 DEF CheckReturned, CheckPublished
    <3>2. pc'[k] = pc[k] /\ wrote' = wrote
      BY <1>4, <1>t, <2>1 DEF CheckReturned, CheckPublished, Goto
    <3> QED
      BY <3>1, <3>2, CancelEffect DEF Untouched, SameRecord
  <2>2. CASE ~CancelSeen(j)
    BY <1>4, <1>t, <2>2 DEF CheckReturned, CheckPublished, Goto, Untouched
  <2> QED
    BY <2>1, <2>2
<1>5. CASE \/ EnterCompile(j) \/ FinishCompile(j) \/ FailCompile(j)
           \/ BeginAnalyse(j) \/ PackageRaises(j) \/ FinishAnalyse(j)
  <2>1. \/ UNCHANGED record
        \/ \E saved \in BOOLEAN, s \in Statuses, q \in Phases \cup {Keep}, n \in Notes :
              UpdateJob(j, s, q, n, saved)
    BY <1>5, <1>n DEF EnterCompile, FinishCompile, FailCompile, BeginAnalyse,
          PackageRaises, FinishAnalyse, FailedNote
  <2>2. SameRecord(k)
    BY <2>1, UpdateEffect DEF SameRecord
  <2>3. /\ pc'[k] = pc[k]
        /\ UNCHANGED <<event, wrote, announced, forgotten>>
    BY <1>5, <1>t DEF EnterCompile, FinishCompile, FailCompile, BeginAnalyse,
          PackageRaises, FinishAnalyse, Goto
  <2> QED
    BY <2>2, <2>3 DEF Untouched, SameRecord
<1>6. CASE \/ BeginLoading(j) \/ BeginChunk(j) \/ CompileChunk(j) \/ BeginValidation(j)
           \/ BeginPersisting(j) \/ BeginFinalizing(j)
  <2>1. CASE BeginLoading(j)
    BY <1>n, <2>1, ReportEffect DEF BeginLoading
  <2>2. CASE BeginChunk(j)
    BY <1>n, <2>2, ReportEffect DEF BeginChunk
  <2>3. CASE CompileChunk(j)
    BY <2>3, ReportEffect DEF CompileChunk
  <2>4. CASE BeginValidation(j)
    BY <1>n, <2>4, ReportEffect DEF BeginValidation
  <2>5. CASE BeginPersisting(j)
    BY <1>n, <2>5, ReportEffect DEF BeginPersisting
  <2>6. CASE BeginFinalizing(j)
    BY <1>n, <2>6, ReportEffect DEF BeginFinalizing
  <2> QED
    BY <1>6, <2>1, <2>2, <2>3, <2>4, <2>5, <2>6
<1>7. CASE \/ RestoreReceipt(j) \/ LoadModel(j) \/ CancelledAtChunk(j) \/ CancelledInCall(j)
           \/ CheckValidated(j) \/ CheckPersisting(j) \/ CheckBuilt(j) \/ CheckRecorded(j)
           \/ CompileRaises(j) \/ LastPackageCheck(j)
  <2>1. PICK from, to : Step(j, from, to)
    BY <1>7 DEF RestoreReceipt, LoadModel, CancelledAtChunk, CancelledInCall,
          CheckValidated, CheckPersisting, CheckBuilt, CheckRecorded, CompileRaises,
          LastPackageCheck, Checkpoint, Step
  <2> QED
    BY <2>1, StepEffect
<1>8. CASE WriteRegistry(j) \/ WriteProposals(j) \/ WriteReceipt(j) \/ WriteJournal(j)
  <2>1. PICK from, file, to : Write(j, from, file, to)
    BY <1>8 DEF WriteRegistry, WriteProposals, WriteReceipt, WriteJournal
  <2> QED
    BY <2>1, WriteEffect
<1> QED
  BY <1>1, <1>2, <1>3, <1>4, <1>5, <1>6, <1>7, <1>8 DEF Worker, CompileWorker, AnalyseWorker

-----------------------------------------------------------------------------
(* A compile job's own steps keep its part of the invariant.  The cases are *)
(* the shapes above, with what the guard of each action adds.               *)

LEMMA OwnSubmission ==
    ASSUME TypeInv, NEW j \in Compile, CancelInvOf(j), Submission(j)
    PROVE  CancelInvOf(j)'
<1> USE DEF pool, record, memory, bounds, TypeInv, TypeOK, CancelInvOf, Goto
<1>1. CASE Acquire(j)
  BY <1>1 DEF Acquire, AnalyseSteps, Underway, WorkerSteps, LockedSteps, CompileSteps,
        Waiting, Committed, Written
<1>2. CASE ResolveRaises(j)
  BY <1>2 DEF ResolveRaises, AnalyseSteps, Underway, WorkerSteps, LockedSteps,
        CompileSteps, Waiting, Committed, Written
<1>3. CASE Register(j)
  BY <1>3 DEF Register, AnalyseSteps, Underway, WorkerSteps, LockedSteps, CompileSteps,
        Waiting, Committed, Written
<1>4. CASE PersistCreated(j)
  BY <1>4 DEF PersistCreated, AnalyseSteps, Underway, WorkerSteps, LockedSteps,
        CompileSteps, Waiting, Committed, Written
<1>5. CASE Enqueue(j)
  BY <1>5 DEF Enqueue, AnalyseSteps, Underway, WorkerSteps, LockedSteps, CompileSteps,
        Waiting, Committed, Written
<1>6. CASE EnqueueRaises(j)
  BY <1>6 DEF EnqueueRaises, AnalyseSteps, Underway, WorkerSteps, LockedSteps,
        CompileSteps, Waiting, Committed, Written
<1> QED
  BY <1>1, <1>2, <1>3, <1>4, <1>5, <1>6 DEF Submission

\* Cancelling, from anywhere: it is refused when anything was written.
LEMMA OwnCancel ==
    ASSUME TypeInv, NEW j \in Compile, CancelInvOf(j), NEW saved \in BOOLEAN,
           CancelJob(j, saved), wrote' = wrote,
           \/ pc' = pc
           \/ pc[j] \in {"returned", "cancelling"} /\ Goto(j, "releasing")
    PROVE  CancelInvOf(j)'
<1> DEFINE cancelled == /\ status[j] \in Live /\ ~TooLate(j)
                        /\ status'[j] = "cancelled" /\ phase'[j] = phase[j]
                        /\ event'[j] = "set" /\ j \in announced'
<1>1. pc'[j] = pc[j] \/ (pc[j] \in {"returned", "cancelling"} /\ pc'[j] = "releasing")
  BY DEF Goto, TypeInv, TypeOK
<1>2. CASE cancelled
  <2>1. wrote'[j] = {} /\ pc[j] \notin Committed \cup {"idle", "acquired"}
    BY <1>2 DEF CancelInvOf, TooLate, Live
  <2> QED
    BY <1>1, <1>2, <2>1 DEF CancelInvOf, Committed, AnalyseSteps
<1>3. CASE ~cancelled
  <2>1. /\ status'[j] = status[j] /\ phase'[j] = phase[j]
        /\ note'[j] \in {note[j], "wait"}
        /\ event'[j] = event[j] /\ (j \in announced' <=> j \in announced)
    <3>1. j \in Jobs
      BY JobsAssumption DEF JobsAssumption
    <3>2. \/ /\ status[j] \notin Live
             /\ SameRecord(j) /\ event'[j] = event[j] /\ (j \in announced' <=> j \in announced)
          \/ /\ status[j] \in Live /\ TooLate(j)
             /\ status'[j] = status[j] /\ phase'[j] = phase[j] /\ note'[j] = "wait"
             /\ event'[j] = event[j] /\ (j \in announced' <=> j \in announced)
          \/ cancelled
      BY <3>1, CancelEffect
    <3> QED
      BY <1>3, <3>2 DEF SameRecord
  <2> QED
    BY <1>1, <2>1 DEF CancelInvOf, AnalyseSteps, Underway, WorkerSteps, LockedSteps,
       CompileSteps, Waiting, Committed, Written
<1> QED
  BY <1>2, <1>3

\* Moving on without touching the record: leaving the chain of steps, or
\* going on in it without passing the last check when the event is set.
MovesOn(j, from, to) ==
    /\ from \in LockedSteps /\ pc[j] = from /\ pc'[j] = to
    /\ \/ to \in {"cancelling", "raised", "returned", "finishing"}
       \/ /\ from \in CompileSteps /\ to \in CompileSteps \ {"persisting"}
          /\ \/ to \notin Committed
             \/ from \in Committed
             \/ from = "persisting" /\ ~CancelSeen(j)
          /\ from \in Written => to \in Written
    /\ wrote'[j] = wrote[j] \/ (from \in Committed /\ to \in Written)

LEMMA OwnStep ==
    ASSUME TypeInv, NEW j \in Compile, CancelInvOf(j), NEW from, NEW to,
           SameRecord(j), event'[j] = event[j], j \in announced' <=> j \in announced,
           MovesOn(j, from, to)
    PROVE  CancelInvOf(j)'
<1>m. /\ from \in LockedSteps /\ pc[j] = from /\ pc'[j] = to
      /\ \/ to \in {"cancelling", "raised", "returned", "finishing"}
         \/ /\ from \in CompileSteps /\ to \in CompileSteps \ {"persisting"}
            /\ \/ to \notin Committed
               \/ from \in Committed
               \/ from = "persisting" /\ ~CancelSeen(j)
            /\ from \in Written => to \in Written
      /\ wrote'[j] = wrote[j] \/ (from \in Committed /\ to \in Written)
  BY DEF MovesOn
<1>1. from \in Underway /\ (to \in Underway) /\ to \notin AnalyseSteps
      /\ to \notin Waiting \cup {"idle", "acquired"}
  BY <1>m DEF Underway, WorkerSteps, LockedSteps, CompileSteps, AnalyseSteps, Waiting
<1>2. from \in Written => to \in Written
  BY <1>m DEF Written
<1>3. to \in CompileSteps => from \in CompileSteps
  BY <1>m DEF CompileSteps
<1>4. to \in Committed => j \notin announced /\ from \in Committed \cup {"persisting"}
  BY <1>m, <1>1 DEF CancelInvOf, CancelSeen, Committed
<1>5. wrote'[j] # {} => j \notin announced /\ to \in Written
                        /\ (status[j] \in Live \cup {"failed"} => phase[j] \in Late)
                        /\ note[j] # "unchanged"
  <2>1. CASE wrote'[j] = wrote[j]
    BY <1>m, <1>2, <2>1 DEF CancelInvOf
  <2>2. CASE from \in Committed /\ to \in Written
    BY <1>m, <2>2 DEF CancelInvOf, Committed, CompileSteps
  <2> QED
    BY <1>m, <2>1, <2>2
<1> QED
  BY <1>m, <1>1, <1>2, <1>3, <1>4, <1>5 DEF CancelInvOf, SameRecord

\* Reporting a phase: the late ones are reported by a job that runs.
LEMMA OwnReport ==
    ASSUME TypeInv, NEW j \in Compile, CancelInvOf(j), NEW from,
           NEW p \in Phases \cup {Keep}, NEW to, Report(j, from, p, to),
           from \in CompileSteps, to \in CompileSteps \ {"building", "recording", "recorded",
                                                         "proposing", "proposed"},
           from \in Written \/ to \in Committed \cup {"persisting"} => p \in Late,
           to \in Committed => from \in Committed,
           from \in Written => to \in Written
    PROVE  CancelInvOf(j)'
<1>1. /\ event'[j] = event[j] /\ wrote'[j] = wrote[j]
      /\ j \in announced' <=> j \in announced
      /\ pc[j] = from /\ pc'[j] \in {to, "raised"}
      /\ status[j] = "absent" => SameRecord(j)
      /\ status[j] # "absent" => /\ status'[j] = status[j]
                                 /\ phase'[j] = IF p = Keep THEN phase[j] ELSE p
                                 /\ note'[j] = "progress"
  BY JobsAssumption, ReportEffect DEF JobsAssumption
<1>2. pc'[j] \notin AnalyseSteps \cup Waiting \cup {"idle", "acquired"}
  BY <1>1 DEF CompileSteps, AnalyseSteps, Waiting
<1>3. from \in Underway /\ (pc'[j] \in CompileSteps => from \in CompileSteps)
  BY DEF Underway, WorkerSteps, LockedSteps
<1>4. pc'[j] \in Committed => to \in Committed /\ from \in Committed
  BY <1>1 DEF Committed
<1>5. from \in Written => pc'[j] \in Written
  BY <1>1 DEF Written
<1>6. j \notin announced => status[j] = "running" /\ note'[j] # "unchanged"
  BY <1>1 DEF CancelInvOf
<1>7. j \notin announced /\ (from \in Written \/ pc'[j] \in Committed \cup {"persisting"})
        => phase'[j] \in Late
  BY <1>1, <1>4, <1>6 DEF Late, Keep, Committed
<1> QED
  BY <1>1, <1>2, <1>3, <1>4, <1>5, <1>6, <1>7 DEF CancelInvOf, SameRecord, Live

LEMMA OwnWorker ==
    ASSUME TypeInv, NEW j \in Compile, CancelInvOf(j), Worker(j)
    PROVE  CancelInvOf(j)'
<1>j. j \in Jobs
  BY JobsAssumption DEF JobsAssumption
<1> USE DEF pool, record, memory, bounds
<1>l. CompileSteps \subseteq LockedSteps
  BY DEF LockedSteps
<1>p. {"loading_model", "compiling", "validating", "persisting", "finalizing"}
         \subseteq Phases
  BY DEF Phases
<1>1. CASE Start(j)
  BY <1>1, <1>j DEF Start, EventTaken, Goto, TypeInv, TypeOK, CancelInvOf, AnalyseSteps, Underway,
     WorkerSteps, LockedSteps, CompileSteps, Waiting, Committed, Written
<1>2. CASE EnterCompile(j)
  <2>1. PICK saved \in BOOLEAN :
            /\ UpdateJob(j, "running", "compiling", "progress", saved)
            /\ Goto(j, IF saved THEN "entered" ELSE "raised")
    BY <1>2 DEF EnterCompile
  <2>2. /\ status[j] = "absent" \/ Ignores(j, "running") => SameRecord(j)
        /\ ~(status[j] = "absent" \/ Ignores(j, "running")) =>
              status'[j] = "running" /\ note'[j] = "progress"
    BY <1>j, <2>1, UpdateEffect DEF Statuses, Live, Phases, Notes, Keep
  <2>3. pc[j] = "waiting" /\ pc'[j] \in {"entered", "raised"}
    BY <1>2, <1>j, <2>1 DEF EnterCompile, Goto, TypeInv, TypeOK
  <2>4. wrote[j] = {} /\ "waiting" \in Waiting /\ "waiting" \in Underway
    BY <2>3 DEF CancelInvOf, Written, Waiting, Underway, WorkerSteps
  <2>5. j \notin announced => status'[j] = "running" /\ note'[j] # "unchanged"
    BY <2>2, <2>3, <2>4 DEF CancelInvOf, Ignores, Terminal
  <2>6. UNCHANGED <<event, wrote, announced, forgotten>>
    BY <1>2 DEF EnterCompile
  <2> QED
    BY <2>3, <2>4, <2>5, <2>6 DEF CancelInvOf, AnalyseSteps, Waiting, Committed
<1>3. CASE \/ RestoreReceipt(j) \/ LoadModel(j) \/ CancelledAtChunk(j) \/ CancelledInCall(j)
           \/ CheckValidated(j) \/ CheckPersisting(j) \/ CheckBuilt(j) \/ CheckRecorded(j)
           \/ CompileRaises(j)
  <2>1. PICK from \in CompileSteps, to \in LockedSteps :
            /\ Step(j, from, to)
            /\ \/ to \in {"cancelling", "raised", "returned"}
               \/ to \in {"chunk", "committing"} /\ from \notin Written
               \/ <<from, to>> \in {<<"persisting", "building">>, <<"building", "recording">>,
                                    <<"recorded", "proposing">>} /\ ~CancelSeen(j)
    BY <1>3 DEF RestoreReceipt, LoadModel, CancelledAtChunk, CancelledInCall,
       CheckValidated, CheckPersisting, CheckBuilt, CheckRecorded, CompileRaises,
       Checkpoint, Step, CompileSteps, LockedSteps, Written
  <2>2. /\ SameRecord(j) /\ event'[j] = event[j] /\ wrote'[j] = wrote[j]
        /\ (j \in announced' <=> j \in announced) /\ pc[j] = from /\ pc'[j] = to
    BY <1>j, <2>1, StepEffect
  <2>3. MovesOn(j, from, to)
    <3>1. CASE to \in {"cancelling", "raised", "returned"}
      BY <1>l, <2>1, <2>2, <3>1 DEF MovesOn
    <3>2. CASE to \in {"chunk", "committing"} /\ from \notin Written
      BY <1>l, <2>1, <2>2, <3>2 DEF MovesOn, CompileSteps, Committed
    <3>3. CASE <<from, to>> \in {<<"persisting", "building">>, <<"building", "recording">>,
                                 <<"recorded", "proposing">>} /\ ~CancelSeen(j)
      BY <1>l, <2>1, <2>2, <3>3 DEF MovesOn, CompileSteps, Committed, Written
    <3> QED
      BY <2>1, <3>1, <3>2, <3>3
  <2> QED
    BY <2>2, <2>3, OwnStep
<1>6. CASE WriteRegistry(j) \/ WriteProposals(j) \/ WriteReceipt(j)
  <2>1. PICK from \in {"recording", "proposing", "finalizing"},
             to \in {"recorded", "proposed", "returned"} :
            \E file \in SUBSET Files : Write(j, from, file, to)
    <3>1. {"registry"} \in SUBSET Files /\ {"proposals"} \in SUBSET Files
          /\ {"receipt"} \in SUBSET Files
      BY DEF Files
    <3> QED
      BY <1>6, <3>1 DEF WriteRegistry, WriteProposals, WriteReceipt
  <2>2. /\ SameRecord(j) /\ event'[j] = event[j]
        /\ (j \in announced' <=> j \in announced) /\ pc[j] = from /\ pc'[j] = to
    BY <1>j, <2>1, WriteEffect
  <2>3. MovesOn(j, from, to)
    BY <2>1, <2>2 DEF MovesOn, CompileSteps, LockedSteps, Committed, Written
  <2> QED
    BY <2>2, <2>3, OwnStep
<1>7. CASE BeginLoading(j)
  BY <1>7, <1>p, OwnReport DEF BeginLoading, CompileSteps, Committed, Written
<1>8. CASE BeginChunk(j)
  BY <1>8, <1>p, OwnReport DEF BeginChunk, CompileSteps, Committed, Written
<1>9. CASE CompileChunk(j)
  BY <1>9, OwnReport DEF CompileChunk, CompileSteps, Committed, Written
<1>10. CASE BeginValidation(j)
  BY <1>10, <1>p, OwnReport DEF BeginValidation, CompileSteps, Committed, Written
<1>11. CASE BeginPersisting(j)
  BY <1>11, <1>p, OwnReport DEF BeginPersisting, CompileSteps, Committed, Written, Late
<1>12. CASE BeginFinalizing(j)
  BY <1>12, <1>p, OwnReport DEF BeginFinalizing, CompileSteps, Committed, Written, Late
<1>13. CASE CheckReturned(j)
  <2>1. CASE CancelSeen(j)
    <3>1. PICK saved \in BOOLEAN : CancelJob(j, saved)
      BY <1>13, <2>1 DEF CheckReturned
    <3> QED
      BY <1>13, <2>1, <3>1, OwnCancel DEF CheckReturned
  <2>2. CASE ~CancelSeen(j)
    <3>1. /\ SameRecord(j) /\ event'[j] = event[j] /\ wrote'[j] = wrote[j]
          /\ (j \in announced' <=> j \in announced)
          /\ pc[j] = "returned" /\ pc'[j] = "finishing"
      BY <1>13, <1>j, <2>2 DEF CheckReturned, Goto, SameRecord, TypeInv, TypeOK
    <3>2. MovesOn(j, "returned", "finishing")
      BY <3>1 DEF MovesOn, LockedSteps
    <3> QED
      BY <3>1, <3>2, OwnStep
  <2> QED
    BY <2>1, <2>2
<1>14. CASE FinishCompile(j)
  <2>1. PICK saved \in BOOLEAN, s \in {"done", "complete_empty"} :
            /\ UpdateJob(j, s, Keep, "finished", saved)
            /\ Goto(j, IF saved THEN "releasing" ELSE "raised")
    BY <1>14 DEF FinishCompile
  <2>2. /\ status[j] = "absent" \/ Ignores(j, s) => SameRecord(j)
        /\ ~(status[j] = "absent" \/ Ignores(j, s)) =>
              status'[j] = s /\ note'[j] = "finished"
    BY <1>j, <2>1, UpdateEffect, ZenonT(40) DEF Statuses, Terminal, Notes, Keep
  <2>3. pc[j] = "finishing" /\ pc'[j] \in {"releasing", "raised"}
    BY <1>14, <1>j, <2>1 DEF FinishCompile, Goto, TypeInv, TypeOK
  <2>4. UNCHANGED <<event, wrote, announced, forgotten>>
    BY <1>14 DEF FinishCompile
  <2> QED
    BY <2>2, <2>3, <2>4 DEF CancelInvOf, SameRecord, AnalyseSteps, Waiting, Committed,
       Written, CompileSteps, Underway, WorkerSteps, LockedSteps, Live
<1>15. CASE ExitCancelled(j)
  <2>1. PICK saved \in BOOLEAN : CancelJob(j, saved)
    BY <1>15 DEF ExitCancelled
  <2> QED
    BY <1>15, <2>1, OwnCancel DEF ExitCancelled
<1>16. CASE Unwind(j) \/ Release(j)
  BY <1>16, <1>j DEF Unwind, Release, Goto, TypeInv, TypeOK, CancelInvOf, AnalyseSteps,
     Underway, WorkerSteps, LockedSteps, CompileSteps, Waiting, Committed, Written
<1>17. CASE FailCompile(j)
  <2>1. PICK saved \in BOOLEAN : UpdateJob(j, "failed", Keep, FailedNote(j), saved)
    BY <1>17 DEF FailCompile
  <2>2. /\ status[j] = "absent" \/ Ignores(j, "failed") => SameRecord(j)
        /\ ~(status[j] = "absent" \/ Ignores(j, "failed")) =>
              /\ status'[j] = "failed" /\ phase'[j] = phase[j]
              /\ note'[j] = FailedNote(j)
    BY <1>j, <2>1, UpdateEffect, ZenonT(40) DEF Statuses, Terminal, Notes, Keep, FailedNote
  <2>3. pc[j] = "failing" /\ pc'[j] = "releasing" /\ UNCHANGED <<event, wrote, announced, forgotten>>
    BY <1>17, <1>j DEF FailCompile, Goto, TypeInv, TypeOK
  <2>4. wrote[j] # {} => /\ note'[j] # "unchanged"
                         /\ status'[j] \in Live \cup {"failed"} => phase'[j] \in Late
    <3>1. CASE status[j] = "absent" \/ Ignores(j, "failed")
      BY <2>2, <3>1 DEF CancelInvOf, SameRecord
    <3>2. CASE ~(status[j] = "absent" \/ Ignores(j, "failed"))
      <4>1. status[j] \in Live \cup {"failed"}
        BY <1>j, <3>2 DEF Ignores, TypeInv, TypeOK, Statuses, Keep
      <4> QED
        BY <2>2, <3>2, <4>1 DEF CancelInvOf, FailedNote
    <3> QED
      BY <3>1, <3>2
  <2> QED
    BY <2>2, <2>3, <2>4 DEF CancelInvOf, SameRecord, AnalyseSteps, Waiting, Committed,
       Written, CompileSteps, Underway, WorkerSteps, LockedSteps, Live
<1>18. ~AnalyseWorker(j)
  BY DEF AnalyseWorker, BeginAnalyse, PackageCancelled, LastPackageCheck, WriteJournal,
     PackageRaises, CheckPublished, FinishAnalyse, Step, Write, CancelInvOf, AnalyseSteps
<1> QED
  BY <1>1, <1>2, <1>3, <1>6, <1>7, <1>8, <1>9, <1>10, <1>11, <1>12, <1>13, <1>14, <1>15,
     <1>16, <1>17, <1>18 DEF Worker, CompileWorker

-----------------------------------------------------------------------------
(* Where a step takes the job it is about.                                  *)

\* The worker stays a worker, and its permit is in use.
LEMMA WorkerStays ==
    ASSUME TypeInv, NEW j \in Jobs, CompileWorker(j) \/ AnalyseWorker(j)
    PROVE  /\ pc[j] \in WorkerSteps /\ pc'[j] \in WorkerSteps
           /\ permits' = permits
<1> USE DEF pool, record, memory, bounds
<1>t. pc \in [Jobs -> Steps] BY DEF TypeInv, TypeOK
<1>n. /\ CompileSteps \cup {"returned", "finishing", "cancelling", "raised"} \subseteq LockedSteps
      /\ LockedSteps \cup AnalyseSteps \cup {"waiting", "failing", "releasing"} = WorkerSteps
  BY DEF LockedSteps, WorkerSteps
<1>1. CASE \/ EnterCompile(j) \/ CheckReturned(j) \/ FinishCompile(j) \/ ExitCancelled(j)
           \/ Unwind(j) \/ FailCompile(j)
  BY <1>1, <1>t, <1>n DEF EnterCompile, CheckReturned, FinishCompile, ExitCancelled, Unwind,
     FailCompile, Goto, CompileSteps
<1>2. CASE \/ BeginLoading(j) \/ BeginChunk(j) \/ CompileChunk(j) \/ BeginValidation(j)
           \/ BeginPersisting(j) \/ BeginFinalizing(j)
  <2>1. PICK from \in CompileSteps, to \in CompileSteps : \E p : Report(j, from, p, to)
    BY <1>2 DEF BeginLoading, BeginChunk, CompileChunk, BeginValidation, BeginPersisting,
       BeginFinalizing, CompileSteps
  <2> QED
    BY <1>t, <1>n, <2>1 DEF Report, Goto
<1>3. CASE \/ RestoreReceipt(j) \/ LoadModel(j) \/ CancelledAtChunk(j) \/ CancelledInCall(j)
           \/ CheckValidated(j) \/ CheckPersisting(j) \/ CheckBuilt(j) \/ CheckRecorded(j)
           \/ CompileRaises(j)
  <2>1. PICK from \in CompileSteps, to \in LockedSteps : Step(j, from, to)
    <3>1. CASE LoadModel(j) \/ CheckValidated(j) \/ CheckPersisting(j) \/ CheckBuilt(j)
               \/ CheckRecorded(j)
      BY <1>n, <3>1 DEF LoadModel, CheckValidated, CheckPersisting, CheckBuilt, CheckRecorded,
         Checkpoint, CompileSteps
    <3>2. CASE RestoreReceipt(j) \/ CancelledAtChunk(j) \/ CancelledInCall(j) \/ CompileRaises(j)
      <4>1. RestoreReceipt(j) => Step(j, "entered", "returned")
        BY DEF RestoreReceipt, Step
      <4> QED
        BY <1>n, <3>2, <4>1 DEF CancelledAtChunk, CancelledInCall, CompileRaises, CompileSteps
    <3> QED
      BY <1>3, <3>1, <3>2
  <2> QED
    BY <1>t, <1>n, <2>1 DEF Step, Goto
<1>4. CASE WriteRegistry(j) \/ WriteProposals(j) \/ WriteReceipt(j) \/ WriteJournal(j)
  <2>1. PICK from \in WorkerSteps, to \in WorkerSteps : \E file : Write(j, from, file, to)
    BY <1>4, <1>n DEF WriteRegistry, WriteProposals, WriteReceipt, WriteJournal, CompileSteps,
       AnalyseSteps
  <2> QED
    BY <1>t, <2>1 DEF Write, Goto
<1>5. CASE AnalyseWorker(j) /\ ~WriteJournal(j)
  BY <1>5, <1>t, <1>n DEF AnalyseWorker, BeginAnalyse, PackageCancelled, LastPackageCheck,
     PackageRaises, CheckPublished, FinishAnalyse, Step, Goto, AnalyseSteps
<1> QED
  BY <1>1, <1>2, <1>3, <1>4, <1>5 DEF CompileWorker, AnalyseWorker

\* A worker that touches the record of its job does so by update_job or cancel_job.
LEMMA WorkerRecord ==
    ASSUME TypeInv, NEW j \in Jobs, Worker(j)
    PROVE  \/ UNCHANGED <<status, note, attempt>>
           \/ \E s \in Statuses \cup {Keep}, p \in Phases \cup {Keep}, n \in Notes, saved \in BOOLEAN :
                 UpdateJob(j, s, p, n, saved)
           \/ \E saved \in BOOLEAN : CancelJob(j, saved)
<1> USE DEF pool, record, memory, bounds
<1>n. /\ {"progress", "unchanged", "check", "finished"} \subseteq Notes
      /\ {"running", "done", "complete_empty", "failed"} \subseteq Statuses
      /\ {"loading_model", "compiling", "validating", "persisting", "finalizing"} \subseteq Phases
  BY DEF Notes, Statuses, Live, Terminal, Phases
<1>1. CASE Start(j) \/ Release(j) \/ Unwind(j)
  BY <1>1 DEF Start, Release, Unwind
<1>2. CASE \/ EnterCompile(j) \/ FinishCompile(j) \/ FailCompile(j)
           \/ BeginAnalyse(j) \/ PackageRaises(j) \/ FinishAnalyse(j)
  BY <1>2, <1>n DEF EnterCompile, FinishCompile, FailCompile, BeginAnalyse, PackageRaises,
     FinishAnalyse, FailedNote
<1>3. CASE \/ BeginLoading(j) \/ BeginChunk(j) \/ CompileChunk(j) \/ BeginValidation(j)
           \/ BeginPersisting(j) \/ BeginFinalizing(j)
  BY <1>3, <1>n DEF BeginLoading, BeginChunk, CompileChunk, BeginValidation, BeginPersisting,
     BeginFinalizing, Report
<1>4. CASE \/ RestoreReceipt(j) \/ LoadModel(j) \/ CancelledAtChunk(j) \/ CancelledInCall(j)
           \/ CheckValidated(j) \/ CheckPersisting(j) \/ CheckBuilt(j) \/ CheckRecorded(j)
           \/ CompileRaises(j) \/ LastPackageCheck(j)
  BY <1>4 DEF RestoreReceipt, LoadModel, CancelledAtChunk, CancelledInCall,
     CheckValidated, CheckPersisting, CheckBuilt, CheckRecorded, CompileRaises,
     LastPackageCheck, Checkpoint, Step
<1>5. CASE WriteRegistry(j) \/ WriteProposals(j) \/ WriteReceipt(j) \/ WriteJournal(j)
  BY <1>5 DEF WriteRegistry, WriteProposals, WriteReceipt, WriteJournal, Write
<1>6. CASE CheckReturned(j) \/ CheckPublished(j) \/ ExitCancelled(j) \/ PackageCancelled(j)
  BY <1>6 DEF CheckReturned, CheckPublished, ExitCancelled, PackageCancelled
<1> QED
  BY <1>1, <1>2, <1>3, <1>4, <1>5, <1>6 DEF Worker, CompileWorker, AnalyseWorker

-----------------------------------------------------------------------------
(* A job that JOBS has forgotten stays forgotten.                           *)

LEMMA OwnForgotten ==
    ASSUME TypeInv, NEW j \in Jobs, ForgottenOf(j),
           Submission(j) \/ Worker(j) \/ Cancel(j) \/ Prune(j)
    PROVE  ForgottenOf(j)'
<1> USE DEF pool, record, memory, bounds
<1>t. /\ pc \in [Jobs -> Steps]
      /\ note \in [Jobs -> Notes]
      /\ status \in [Jobs -> Statuses \cup {"absent"}]
  BY DEF TypeInv, TypeOK
<1>f. pc[j] \notin {"idle", "acquired"} /\ status[j] = "absent" /\ note[j] = "progress"
  BY DEF ForgottenOf
<1>l. "absent" \notin Live \cup Terminal
  BY DEF Live, Terminal
<1>1. CASE Submission(j)
  BY <1>1, <1>t, <1>f DEF ForgottenOf, Submission, Acquire, ResolveRaises, Register,
     PersistCreated, Enqueue, EnqueueRaises, Goto
<1>2. CASE Worker(j)
  <2>1. status'[j] = status[j] /\ note'[j] = note[j]
    <3>1. CASE UNCHANGED <<status, note, attempt>>
      BY <3>1
    <3>2. CASE \E s \in Statuses \cup {Keep}, p \in Phases \cup {Keep}, n \in Notes,
                  saved \in BOOLEAN : UpdateJob(j, s, p, n, saved)
      BY <1>f, <3>2 DEF UpdateJob
    <3>3. CASE \E saved \in BOOLEAN : CancelJob(j, saved)
      BY <1>f, <1>l, <3>3 DEF CancelJob
    <3> QED
      BY <1>2, <3>1, <3>2, <3>3, WorkerRecord
  <2>2. pc'[j] \notin {"idle", "acquired"}
    <3>1. CASE Start(j) \/ Release(j)
      BY <1>t, <3>1 DEF Start, Release, Goto
    <3>2. CASE CompileWorker(j) \/ AnalyseWorker(j)
      BY <3>2, WorkerStays DEF WorkerSteps, LockedSteps, CompileSteps, AnalyseSteps
    <3> QED
      BY <1>2, <3>1, <3>2 DEF Worker
  <2> QED
    BY <1>f, <2>1, <2>2 DEF ForgottenOf
<1>3. CASE Cancel(j) \/ Prune(j)
  BY <1>3, <1>f, <1>l DEF Cancel, Prune
<1> QED
  BY <1>1, <1>2, <1>3

LEMMA OnlyPruneForgets ==
    ASSUME TypeInv, NEW j \in Jobs, Submission(j) \/ Worker(j) \/ Cancel(j)
    PROVE  forgotten' = forgotten
<1> USE DEF pool, record, memory, bounds
<1>1. CASE Submission(j) \/ Cancel(j)
  BY <1>1 DEF Submission, Acquire, ResolveRaises, Register, PersistCreated, Enqueue,
     EnqueueRaises, Cancel, CancelJob
<1>2. CASE Worker(j)
  BY <1>2 DEF Worker, CompileWorker, AnalyseWorker, EnterCompile, RestoreReceipt, BeginLoading,
     LoadModel, CancelledAtChunk, BeginChunk, CancelledInCall, CompileChunk, BeginValidation,
     CheckValidated, BeginPersisting, CheckPersisting, CheckBuilt, CheckRecorded, WriteRegistry,
     WriteProposals, WriteReceipt, BeginFinalizing, CompileRaises, CheckReturned, FinishCompile,
     ExitCancelled, Unwind, FailCompile, BeginAnalyse, PackageCancelled, LastPackageCheck,
     WriteJournal, PackageRaises, CheckPublished, FinishAnalyse, Start, Release, Report, Write,
     Step, Checkpoint, CancelJob
<1> QED
  BY <1>1, <1>2

-----------------------------------------------------------------------------
LEMMA CancelStep ==
    ASSUME TypeInv, CancelInv, [Next]_vars
    PROVE  CancelInv'
<1> SUFFICES ASSUME NEW k \in Compile
             PROVE  IF k \in forgotten' THEN ForgottenOf(k)' ELSE CancelInvOf(k)'
  BY DEF CancelInv
<1>k. /\ k \in Jobs
      /\ k \in forgotten => ForgottenOf(k)
      /\ k \notin forgotten => CancelInvOf(k)
  BY JobsAssumption DEF JobsAssumption, CancelInv
<1> USE DEF pool, record, memory, bounds
<1>u. ASSUME Untouched(k), k \in forgotten' <=> k \in forgotten
      PROVE  IF k \in forgotten' THEN ForgottenOf(k)' ELSE CancelInvOf(k)'
  BY <1>u, <1>k, UntouchedInv DEF Untouched, ForgottenOf
<1>1. ASSUME NEW j \in Jobs, Submission(j) \/ Worker(j) \/ Cancel(j) \/ Prune(j)
      PROVE  IF k \in forgotten' THEN ForgottenOf(k)' ELSE CancelInvOf(k)'
  <2>1. CASE j # k
    <3>1. k \in forgotten' <=> k \in forgotten
      BY <1>1, <2>1, OnlyPruneForgets DEF Prune
    <3> QED
      BY <1>1, <1>k, <1>u, <2>1, <3>1, OthersUntouched
  <2>2. CASE j = k /\ Prune(k)
    <3>1. CASE pc[k] = "queued" \/ k \in forgotten
      <4>1. k \in forgotten'
        BY <2>2, <3>1 DEF Prune
      <4>2. pc'[k] \notin {"idle", "acquired"} /\ status'[k] = "absent" /\ note'[k] = "progress"
        BY <1>k, <2>2, <3>1 DEF Prune, ForgottenOf, TypeInv, TypeOK
      <4> QED
        BY <4>1, <4>2 DEF ForgottenOf
    <3>2. CASE pc[k] # "queued" /\ k \notin forgotten
      BY <1>k, <2>2, <3>2 DEF Prune, TypeInv, TypeOK, CancelInvOf, Terminal, Live, SubmitSteps,
         Underway, Waiting, AnalyseSteps, Committed, CompileSteps
    <3> QED
      BY <3>1, <3>2
  <2>3. CASE j = k /\ ~Prune(k) /\ k \in forgotten
    BY <1>1, <1>k, <2>3, OwnForgotten, OnlyPruneForgets
  <2>4. CASE j = k /\ ~Prune(k) /\ k \notin forgotten
    <3>1. k \notin forgotten'
      BY <1>1, <2>4, OnlyPruneForgets
    <3>2. CASE Cancel(k)
      <4>1. PICK saved \in BOOLEAN : CancelJob(k, saved)
        BY <3>2 DEF Cancel
      <4> QED
        BY <1>k, <2>4, <3>1, <3>2, <4>1, OwnCancel DEF Cancel
    <3>3. CASE Submission(k) \/ Worker(k)
      BY <1>k, <2>4, <3>1, <3>3, OwnSubmission, OwnWorker
    <3> QED
      BY <1>1, <2>4, <3>2, <3>3
  <2> QED
    BY <2>1, <2>2, <2>3, <2>4, <1>1
<1>2. CASE Status
  BY <1>2, <1>u DEF Status, StatusActive, StatusReceipt, StatusAttempt,
     StatusInterrupt, Untouched
<1>3. CASE Crash
  <2>1. CASE k \in forgotten
    BY <1>3, <1>k, <2>1 DEF Crash, ForgottenOf, TypeInv, TypeOK
  <2>2. CASE k \notin forgotten
    BY <1>3, <1>k, <2>2 DEF Crash, TypeInv, TypeOK, CancelInvOf, AnalyseSteps, Underway,
       WorkerSteps, LockedSteps, CompileSteps, Waiting, Committed, Written, Live
  <2> QED
    BY <2>1, <2>2
<1>4. CASE UNCHANGED vars
  BY <1>4, <1>u DEF vars, Untouched
<1> QED
  BY <1>1, <1>2, <1>3, <1>4 DEF Next

LEMMA CancelInit == Init => CancelInv
  BY JobsAssumption DEF JobsAssumption, Init, CancelInv, CancelInvOf, AnalyseSteps, Underway,
     WorkerSteps, LockedSteps, CompileSteps, Waiting, Committed, Written

\* A compilation that was ever reported as cancelled has written nothing and
\* writes nothing (jobs.py:232), unless it was pruned while it was queued.
THEOREM CancelSafety == Spec => []CancelledWritesNothing
<1>1. Init => TypeInv /\ CancelInv
  BY InitType, CancelInit
<1>2. TypeInv /\ CancelInv /\ [Next]_vars => (TypeInv /\ CancelInv)'
  BY NextType, CancelStep
<1>3. TypeInv /\ CancelInv => CancelledWritesNothing
  BY JobsAssumption DEF JobsAssumption, CancelInv, CancelInvOf, CancelledWritesNothing
<1> QED
  BY <1>1, <1>2, <1>3, PTL DEF Spec

\* A message that says "unchanged" is true of every compilation, cancelled,
\* failed or timed out (jobs.py:118-122, 232), as long as it can be read.
THEOREM MessageSafety == Spec => []UnchangedMessageHolds
<1>1. Init => TypeInv /\ CancelInv
  BY InitType, CancelInit
<1>2. TypeInv /\ CancelInv /\ [Next]_vars => (TypeInv /\ CancelInv)'
  BY NextType, CancelStep
<1>3. TypeInv /\ CancelInv => UnchangedMessageHolds
  BY DEF CancelInv, CancelInvOf, ForgottenOf, UnchangedMessageHolds
<1> QED
  BY <1>1, <1>2, <1>3, PTL DEF Spec

-----------------------------------------------------------------------------
(* The permits.                                                             *)

Permitted == {j \in Jobs : pc[j] \in Holding}

LEMMA PermittedFinite == IsFiniteSet(Permitted) /\ Cardinality(Permitted) \in Nat
<1>1. Permitted \subseteq Jobs BY DEF Permitted
<1>2. IsFiniteSet(Permitted) BY <1>1, FS_Subset, JobsAssumption DEF JobsAssumption
<1> QED
  BY <1>2, FS_CardinalityType

LEMMA PermitStep ==
    ASSUME TypeInv, PermitAccounting, [Next]_vars
    PROVE  PermitAccounting'
<1> USE DEF pool, record, memory, bounds
<1>t. pc \in [Jobs -> Steps] BY DEF TypeInv, TypeOK
<1>p. permits = Cardinality(Permitted) BY DEF PermitAccounting, Permitted
<1>q. PermitAccounting' <=> permits' = Cardinality(Permitted') BY DEF PermitAccounting, Permitted
<1>w. WorkerSteps \cup {"queued", "leaked"} \cup SubmitSteps = Holding BY DEF Holding
<1>s. ASSUME permits' = permits, \A k \in Jobs : pc'[k] \in Holding <=> pc[k] \in Holding
      PROVE  PermitAccounting'
  <2>1. Permitted' = Permitted BY <1>s DEF Permitted
  <2> QED
    BY <1>p, <1>q, <1>s, <2>1
<1>1. ASSUME NEW j \in Jobs, Acquire(j) PROVE PermitAccounting'
  <2>1. pc' = [pc EXCEPT ![j] = "acquired"] /\ pc[j] = "idle" BY <1>1 DEF Acquire, Goto
  <2>2. "acquired" \in Holding /\ "idle" \notin Holding
    BY DEF Holding, SubmitSteps, WorkerSteps, LockedSteps, CompileSteps, AnalyseSteps
  <2>3. Permitted' = Permitted \cup {j} /\ j \notin Permitted BY <1>t, <2>1, <2>2 DEF Permitted
  <2>4. Cardinality(Permitted') = Cardinality(Permitted) + 1
    BY <2>3, PermittedFinite, FS_AddElement
  <2> QED
    BY <1>1, <1>p, <1>q, <2>4 DEF Acquire
<1>2. ASSUME NEW j \in Jobs, EnqueueRaises(j) \/ Release(j) PROVE PermitAccounting'
  <2>1. PICK to \in {"rejected", "ended"} :
           pc' = [pc EXCEPT ![j] = to] /\ pc[j] \in {"submitting", "releasing"}
    BY <1>2 DEF EnqueueRaises, Release, Goto
  <2>2. {"submitting", "releasing"} \subseteq Holding /\ {"rejected", "ended"} \cap Holding = {}
    BY DEF Holding, SubmitSteps, WorkerSteps, LockedSteps, CompileSteps, AnalyseSteps
  <2>3. Permitted' = Permitted \ {j} /\ j \in Permitted BY <1>t, <2>1, <2>2 DEF Permitted
  <2>4. Cardinality(Permitted') = Cardinality(Permitted) - 1
    BY <2>3, PermittedFinite, FS_RemoveElement
  <2> QED
    BY <1>2, <1>p, <1>q, <2>4 DEF EnqueueRaises, Release
<1>3. ASSUME NEW j \in Jobs, Submission(j), ~Acquire(j), ~EnqueueRaises(j) PROVE PermitAccounting'
  <2>1. /\ permits' = permits
        /\ pc[j] \in SubmitSteps /\ pc'[j] \in SubmitSteps \cup {"queued", "leaked"}
        /\ \A k \in Jobs \ {j} : pc'[k] = pc[k]
    BY <1>3, <1>t DEF Submission, ResolveRaises, Register, PersistCreated, Enqueue, Goto, SubmitSteps
  <2> QED
    BY <1>s, <1>w, <2>1
<1>4. ASSUME NEW j \in Jobs, Start(j) PROVE PermitAccounting'
  <2>1. /\ permits' = permits
        /\ pc[j] = "queued" /\ pc'[j] \in {"waiting", "releasing", "starting"}
        /\ \A k \in Jobs \ {j} : pc'[k] = pc[k]
    BY <1>4, <1>t DEF Start, Goto
  <2>2. {"waiting", "releasing", "starting"} \subseteq WorkerSteps BY DEF WorkerSteps, AnalyseSteps
  <2> QED
    BY <1>s, <1>w, <2>1, <2>2
<1>5. ASSUME NEW j \in Jobs, CompileWorker(j) \/ AnalyseWorker(j) PROVE PermitAccounting'
  <2>1. \A k \in Jobs \ {j} : pc'[k] = pc[k] BY <1>5, OthersUntouched DEF Worker, Untouched
  <2> QED
    BY <1>5, <1>s, <1>w, <2>1, WorkerStays
<1>6. ASSUME NEW j \in Jobs, Cancel(j) \/ Prune(j) PROVE PermitAccounting'
  BY <1>6, <1>s DEF Cancel, Prune
<1>7. CASE Status
  BY <1>7, <1>s DEF Status, StatusActive, StatusReceipt, StatusAttempt, StatusInterrupt
<1>8. CASE Crash
  <2>1. \A k \in Jobs : pc'[k] \in {"idle", "ended", "lost"} BY <1>8 DEF Crash
  <2>2. {"idle", "ended", "lost"} \cap Holding = {}
    BY DEF Holding, SubmitSteps, WorkerSteps, LockedSteps, CompileSteps, AnalyseSteps
  <2>3. Permitted' = {} BY <2>1, <2>2 DEF Permitted
  <2> QED
    BY <1>8, <1>q, <2>3, FS_EmptySet DEF Crash
<1>9. CASE UNCHANGED vars
  BY <1>9, <1>s DEF vars
<1> QED
  BY <1>1, <1>2, <1>3, <1>4, <1>5, <1>6, <1>7, <1>8, <1>9 DEF Next, Worker

LEMMA PermitInit == Init => PermitAccounting
<1> SUFFICES ASSUME Init PROVE PermitAccounting
  OBVIOUS
<1>1. "idle" \notin Holding
  BY DEF Holding, SubmitSteps, WorkerSteps, LockedSteps, CompileSteps, AnalyseSteps
<1>2. Permitted = {} BY <1>1 DEF Init, Permitted
<1> QED
  BY <1>2, FS_EmptySet DEF Init, PermitAccounting, Permitted

\* No permit of JOB_CAPACITY is returned twice or by a job that has none
\* (jobs.py:74-90, the finally of both workers).
THEOREM PermitsCounted == Spec => []PermitAccounting
<1>1. Init => TypeInv /\ PermitAccounting
  BY InitType, PermitInit
<1>2. TypeInv /\ PermitAccounting /\ [Next]_vars => (TypeInv /\ PermitAccounting)'
  BY NextType, PermitStep
<1> QED
  BY <1>1, <1>2, PTL DEF Spec

-----------------------------------------------------------------------------
(* The record, the journal and the files of a job.                          *)

Done == {"done", "complete_empty"}

\* What the files and the record of a job show by the step its worker is at.
OutcomeOf(j) ==
    /\ pc[j] \in {"idle", "acquired"} => status[j] = "absent"
    /\ j \in Compile =>
         /\ pc[j] \notin AnalyseSteps
         /\ pc[j] \in {"recorded", "proposing", "proposed", "finalizing"} => "registry" \in wrote[j]
         /\ pc[j] \in {"proposed", "finalizing"} => "proposals" \in wrote[j]
         /\ "receipt" \in wrote[j] => {"registry", "proposals"} \subseteq wrote[j]
         /\ pc[j] \in {"returned", "finishing"} => HasReceipt(ArtifactOf[j])
         /\ status[j] \in Done => HasReceipt(ArtifactOf[j])

OutcomeInv == (\A j \in Jobs : OutcomeOf(j)) /\ DoneHasReceipt

Grows == \A k \in Jobs : wrote[k] \subseteq wrote'[k]

LEMMA ReceiptsStay == ASSUME Grows, NEW a, HasReceipt(a) PROVE HasReceipt(a)'
  BY JobsAssumption DEF JobsAssumption, Grows, HasReceipt

\* A job that writes nothing and reaches none of the steps that say something.
LEMMA KeptOutcome ==
    ASSUME TypeInv, NEW j \in Jobs, OutcomeOf(j), Grows, wrote'[j] = wrote[j],
           \/ pc'[j] = pc[j]
           \/ /\ pc'[j] \notin {"idle", "acquired", "recorded", "proposing", "proposed", "finalizing",
                               "returned", "finishing"}
              /\ j \in Compile => pc'[j] \notin AnalyseSteps,
           \/ status'[j] = status[j] \/ status'[j] = "absent"
           \/ status'[j] \notin Done /\ pc'[j] \notin {"idle", "acquired"}
    PROVE  OutcomeOf(j)'
<1>1. j \in Compile /\ HasReceipt(ArtifactOf[j]) => HasReceipt(ArtifactOf[j])' BY ReceiptsStay
<1>2. status'[j] \in Done => status'[j] = status[j] BY DEF Done
<1> QED
  BY <1>1, <1>2 DEF OutcomeOf

\* Files are only added.
LEMMA FilesStay == ASSUME TypeInv, [Next]_vars PROVE Grows
<1> USE DEF pool, record, memory, bounds
<1>t. wrote \in [Jobs -> SUBSET Files] BY DEF TypeInv, TypeOK
<1>1. ASSUME NEW j \in Jobs, CompileWorker(j) \/ AnalyseWorker(j) PROVE Grows
  <2>1. CASE WriteRegistry(j) \/ WriteProposals(j) \/ WriteReceipt(j) \/ WriteJournal(j)
    <3>1. PICK from, file, to : Write(j, from, file, to)
      BY <2>1 DEF WriteRegistry, WriteProposals, WriteReceipt, WriteJournal
    <3> QED
      BY <1>t, <3>1 DEF Write, Grows
  <2>2. CASE ~(WriteRegistry(j) \/ WriteProposals(j) \/ WriteReceipt(j) \/ WriteJournal(j))
    <3>1. wrote' = wrote
      BY <1>1, <2>2 DEF CompileWorker, AnalyseWorker, EnterCompile, RestoreReceipt, BeginLoading,
         LoadModel, CancelledAtChunk, BeginChunk, CancelledInCall, CompileChunk, BeginValidation,
         CheckValidated, BeginPersisting, CheckPersisting, CheckBuilt, CheckRecorded,
         BeginFinalizing, CompileRaises, CheckReturned, FinishCompile, ExitCancelled, Unwind,
         FailCompile, BeginAnalyse, PackageCancelled, LastPackageCheck, PackageRaises,
         CheckPublished, FinishAnalyse, Report, Step, Checkpoint
    <3> QED
      BY <3>1 DEF Grows
  <2> QED
    BY <2>1, <2>2
<1>2. ASSUME NEW j \in Jobs, Submission(j) \/ Start(j) \/ Release(j) \/ Cancel(j) \/ Prune(j)
      PROVE  Grows
  BY <1>2 DEF Submission, Acquire, ResolveRaises, Register, PersistCreated, Enqueue, EnqueueRaises,
     Start, Release, Cancel, Prune, Grows
<1>3. CASE Status \/ Crash \/ UNCHANGED vars
  BY <1>3 DEF Status, StatusActive, StatusReceipt, StatusAttempt, StatusInterrupt, Crash, vars, Grows
<1> QED
  BY <1>1, <1>2, <1>3 DEF Next, Worker

-----------------------------------------------------------------------------
(* The receipt.                                                             *)

LEMMA OwnOutcome ==
    ASSUME TypeInv, Grows, NEW j \in Jobs, OutcomeOf(j),
           Submission(j) \/ Worker(j) \/ Cancel(j) \/ Prune(j)
    PROVE  OutcomeOf(j)'
<1> USE DEF pool, record, memory, bounds
<1>t. /\ pc \in [Jobs -> Steps]
      /\ status \in [Jobs -> Statuses \cup {"absent"}]
      /\ wrote \in [Jobs -> SUBSET Files]
  BY DEF TypeInv, TypeOK
<1>n. /\ {"progress", "unchanged", "check", "finished"} \subseteq Notes
      /\ {"running", "done", "complete_empty", "failed"} \subseteq Statuses
      /\ {"loading_model", "compiling", "validating", "persisting", "finalizing"} \subseteq Phases
  BY DEF Notes, Statuses, Live, Terminal, Phases
<1>r. j \in Compile /\ HasReceipt(ArtifactOf[j]) => HasReceipt(ArtifactOf[j])' BY ReceiptsStay
<1>1. CASE Submission(j)
  <2>1. /\ wrote' = wrote
        /\ \/ pc'[j] = "acquired" /\ pc[j] = "idle" /\ status' = status
           \/ /\ pc'[j] \in {"registered", "submitting", "leaked", "queued", "rejected"}
              /\ status'[j] \in {status[j], "created"}
    BY <1>1, <1>t DEF Submission, Acquire, ResolveRaises, Register, PersistCreated, Enqueue,
       EnqueueRaises, Goto
  <2>2. CASE pc'[j] = "acquired" /\ pc[j] = "idle" /\ status' = status
    BY <1>r, <2>1, <2>2 DEF OutcomeOf, AnalyseSteps
  <2>3. CASE /\ pc'[j] \in {"registered", "submitting", "leaked", "queued", "rejected"}
             /\ status'[j] \in {status[j], "created"}
    <3>1. pc'[j] \notin AnalyseSteps BY <2>3 DEF AnalyseSteps
    <3> QED
      BY <2>1, <2>3, <3>1, KeptOutcome DEF Done
  <2> QED
    BY <2>1, <2>2, <2>3
<1>2. CASE Start(j) \/ Release(j) \/ Prune(j) \/ Unwind(j)
  <2>1. /\ wrote' = wrote /\ status'[j] \in {status[j], "absent"}
        /\ \/ pc' = pc
           \/ pc'[j] \in {"waiting", "releasing", "ended", "failing"}
           \/ pc'[j] = "starting" /\ j \notin Compile
    BY <1>2, <1>t DEF Start, Release, Prune, Unwind, Goto
  <2>2. {"waiting", "releasing", "ended", "failing"} \cap AnalyseSteps = {} BY DEF AnalyseSteps
  <2> QED
    BY <2>1, <2>2, KeptOutcome
<1>3. CASE Cancel(j) \/ ExitCancelled(j) \/ PackageCancelled(j)
           \/ ((CheckReturned(j) \/ CheckPublished(j)) /\ CancelSeen(j))
  <2>1. PICK saved \in BOOLEAN : CancelJob(j, saved)
    BY <1>3 DEF Cancel, ExitCancelled, PackageCancelled, CheckReturned, CheckPublished
  <2>2. status'[j] = status[j] \/ (status[j] \in Live /\ status'[j] = "cancelled")
    BY <2>1, CancelEffect DEF SameRecord
  <2>3. wrote' = wrote /\ (pc' = pc \/ pc'[j] = "releasing")
    BY <1>3, <1>t DEF Cancel, ExitCancelled, PackageCancelled, CheckReturned, CheckPublished, Goto
  <2>4. "releasing" \notin AnalyseSteps /\ "absent" \notin Live /\ "cancelled" \notin Done
    BY DEF AnalyseSteps, Live, Done
  <2>5. status'[j] = status[j] \/ (status'[j] \notin Done /\ pc'[j] \notin {"idle", "acquired"})
    BY <2>2, <2>3, <2>4 DEF OutcomeOf
  <2> QED
    BY <2>3, <2>4, <2>5, KeptOutcome
<1>4. CASE EnterCompile(j) \/ FailCompile(j)
  <2>1. PICK s \in {"running", "failed"}, p \in Phases \cup {Keep}, n \in Notes, saved \in BOOLEAN :
           UpdateJob(j, s, p, n, saved)
    BY <1>4, <1>n DEF EnterCompile, FailCompile, FailedNote
  <2>2. status'[j] = status[j] \/ status'[j] \in {"running", "failed"}
    BY <1>n, <2>1, UpdateEffect DEF SameRecord, Keep
  <2>3. wrote' = wrote /\ pc'[j] \in {"entered", "raised", "releasing"}
    BY <1>4, <1>t DEF EnterCompile, FailCompile, Goto
  <2>4. {"entered", "raised", "releasing"} \cap AnalyseSteps = {} BY DEF AnalyseSteps
  <2> QED
    BY <2>2, <2>3, <2>4, KeptOutcome DEF Done
<1>5. CASE \/ BeginLoading(j) \/ BeginChunk(j) \/ CompileChunk(j) \/ BeginValidation(j)
           \/ BeginPersisting(j)
  <2>1. PICK from \in CompileSteps, p \in Phases \cup {Keep},
             to \in {"loading", "model", "chunk", "validating", "persisting"} : Report(j, from, p, to)
    BY <1>5, <1>n DEF BeginLoading, BeginChunk, CompileChunk, BeginValidation, BeginPersisting,
       CompileSteps
  <2>2. wrote' = wrote /\ status'[j] = status[j] /\ pc'[j] \in {to, "raised"}
    BY <2>1, ReportEffect DEF Report, SameRecord
  <2>3. {"loading", "model", "chunk", "validating", "persisting", "raised"} \cap AnalyseSteps = {}
    BY DEF AnalyseSteps
  <2> QED
    BY <2>2, <2>3, KeptOutcome
<1>6. CASE BeginFinalizing(j)
  <2>1. /\ wrote' = wrote /\ status'[j] = status[j]
        /\ pc[j] = "proposed" /\ pc'[j] \in {"finalizing", "raised"}
    BY <1>6, <1>n, ReportEffect DEF BeginFinalizing, Report, SameRecord
  <2> QED
    BY <1>r, <2>1 DEF OutcomeOf, AnalyseSteps
<1>7. CASE \/ LoadModel(j) \/ CancelledAtChunk(j) \/ CancelledInCall(j)
           \/ CheckValidated(j) \/ CheckPersisting(j) \/ CheckBuilt(j) \/ CompileRaises(j)
  <2>1. PICK from \in CompileSteps,
             to \in {"chunk", "cancelling", "committing", "building", "recording", "raised"} :
           Step(j, from, to)
    BY <1>7 DEF LoadModel, CancelledAtChunk, CancelledInCall, CheckValidated, CheckPersisting,
       CheckBuilt, CompileRaises, Checkpoint, CompileSteps
  <2>2. wrote' = wrote /\ status'[j] = status[j] /\ pc'[j] = to
    BY <2>1, StepEffect DEF Step, SameRecord
  <2>3. {"chunk", "cancelling", "committing", "building", "recording", "raised"} \cap AnalyseSteps = {}
    BY DEF AnalyseSteps
  <2> QED
    BY <2>2, <2>3, KeptOutcome
<1>8. CASE CheckRecorded(j)
  <2>1. /\ wrote' = wrote /\ status'[j] = status[j]
        /\ pc[j] = "recorded" /\ pc'[j] \in {"proposing", "cancelling"}
    BY <1>8, StepEffect DEF CheckRecorded, Checkpoint, Step, SameRecord
  <2> QED
    BY <1>r, <2>1 DEF OutcomeOf, AnalyseSteps
<1>9. CASE RestoreReceipt(j)
  <2>1. /\ wrote' = wrote /\ status' = status /\ pc'[j] = "returned" /\ HasReceipt(ArtifactOf[j])
        /\ pc[j] = "entered"
    BY <1>9, <1>t DEF RestoreReceipt, Step, Goto
  <2> QED
    BY <1>r, <2>1 DEF OutcomeOf, AnalyseSteps
<1>10. CASE WriteRegistry(j) \/ WriteProposals(j)
  <2>1. /\ status'[j] = status[j]
        /\ \/ pc[j] = "recording" /\ pc'[j] = "recorded" /\ wrote'[j] = wrote[j] \cup {"registry"}
           \/ pc[j] = "proposing" /\ pc'[j] = "proposed" /\ wrote'[j] = wrote[j] \cup {"proposals"}
    BY <1>10, <1>t DEF WriteRegistry, WriteProposals, Write, Goto, memory
  <2> QED
    BY <1>r, <2>1 DEF OutcomeOf, AnalyseSteps
<1>11. CASE WriteReceipt(j)
  <2>1. /\ status'[j] = status[j]
        /\ pc[j] = "finalizing" /\ pc'[j] = "returned" /\ wrote'[j] = wrote[j] \cup {"receipt"}
    BY <1>11, <1>t DEF WriteReceipt, Write, Goto, memory
  <2>2. j \in Compile => HasReceipt(ArtifactOf[j])' BY <2>1 DEF HasReceipt
  <2> QED
    BY <2>1, <2>2 DEF OutcomeOf, AnalyseSteps
<1>12. CASE CheckReturned(j) /\ ~CancelSeen(j)
  <2>1. /\ wrote' = wrote /\ status' = status /\ pc[j] = "returned" /\ pc'[j] = "finishing"
    BY <1>12, <1>t DEF CheckReturned, Goto
  <2> QED
    BY <1>r, <2>1 DEF OutcomeOf, AnalyseSteps
<1>13. CASE FinishCompile(j)
  <2>1. wrote' = wrote /\ pc[j] = "finishing" /\ pc'[j] \in {"releasing", "raised"}
    BY <1>13, <1>t DEF FinishCompile, Goto
  <2> QED
    BY <1>r, <2>1 DEF OutcomeOf, AnalyseSteps
<1>14. CASE AnalyseWorker(j)
  <2>1. pc[j] \in AnalyseSteps
    BY <1>14 DEF AnalyseWorker, BeginAnalyse, PackageCancelled, LastPackageCheck,
       WriteJournal, PackageRaises, CheckPublished, FinishAnalyse, Step, Write, AnalyseSteps
  <2>2. j \notin Compile BY <2>1 DEF OutcomeOf
  <2>3. pc'[j] \in WorkerSteps BY <1>14, WorkerStays
  <2>4. {"idle", "acquired"} \cap WorkerSteps = {}
    BY DEF WorkerSteps, LockedSteps, CompileSteps, AnalyseSteps
  <2> QED
    BY <2>2, <2>3, <2>4 DEF OutcomeOf
<1> QED
  BY <1>1, <1>2, <1>3, <1>4, <1>5, <1>6, <1>7, <1>8, <1>9, <1>10, <1>11, <1>12, <1>13, <1>14
     DEF Worker, CompileWorker

LEMMA SaveAttemptJournal ==
    ASSUME TypeInv, NEW j \in Jobs, NEW s, NEW saved \in BOOLEAN, SaveAttempt(j, s, saved),
           NEW a \in Artifacts
    PROVE  attempt'[a] = attempt[a] \/ (j \in Compile /\ a = ArtifactOf[j] /\ attempt'[a] = s)
  BY DEF SaveAttempt, TypeInv, TypeOK

\* The journal is told what the record says.
LEMMA JournalFollows ==
    ASSUME TypeInv, NEW j \in Jobs, Submission(j) \/ Worker(j) \/ Cancel(j) \/ Prune(j),
           NEW a \in Artifacts
    PROVE  \/ attempt'[a] \in {attempt[a], "cancelled"}
           \/ j \in Compile /\ a = ArtifactOf[j] /\ attempt'[a] = status'[j]
<1> USE DEF pool, record, memory, bounds
<1>1. ASSUME NEW saved \in BOOLEAN, CancelJob(j, saved)
      PROVE  attempt'[a] \in {attempt[a], "cancelled"}
  BY <1>1, SaveAttemptJournal DEF CancelJob
<1>2. ASSUME NEW s \in Statuses \cup {Keep}, NEW p \in Phases \cup {Keep}, NEW n \in Notes,
             NEW saved \in BOOLEAN, UpdateJob(j, s, p, n, saved)
      PROVE  \/ attempt'[a] = attempt[a]
             \/ j \in Compile /\ a = ArtifactOf[j] /\ attempt'[a] = status'[j]
  <2>1. CASE status[j] = "absent" \/ Ignores(j, s) BY <1>2, <2>1 DEF UpdateJob
  <2>2. CASE ~(status[j] = "absent" \/ Ignores(j, s))
    <3>1. SaveAttempt(j, IF s = Keep THEN status[j] ELSE s, saved) BY <1>2, <2>2 DEF UpdateJob
    <3>2. status'[j] = IF s = Keep THEN status[j] ELSE s BY <1>2, <2>2, UpdateEffect
    <3> QED
      BY <3>1, <3>2, SaveAttemptJournal
  <2> QED
    BY <2>1, <2>2
<1>3. CASE Submission(j)
  <2>1. CASE PersistCreated(j)
    <3>1. PICK saved \in BOOLEAN : SaveAttempt(j, status[j], saved) /\ status' = status
      BY <2>1 DEF PersistCreated
    <3> QED
      BY <3>1, SaveAttemptJournal
  <2>2. CASE ~PersistCreated(j)
    BY <1>3, <2>2 DEF Submission, Acquire, ResolveRaises, Register, Enqueue, EnqueueRaises
  <2> QED
    BY <2>1, <2>2
<1>4. CASE Worker(j) BY <1>1, <1>2, <1>4, WorkerRecord
<1>5. CASE Cancel(j) BY <1>1, <1>5 DEF Cancel
<1>6. CASE Prune(j) BY <1>6 DEF Prune
<1> QED
  BY <1>3, <1>4, <1>5, <1>6

LEMMA OutcomeStep ==
    ASSUME TypeInv, OutcomeInv, [Next]_vars
    PROVE  OutcomeInv'
<1> USE DEF pool, record, memory, bounds
<1>g. Grows BY FilesStay
<1>i. (\A k \in Jobs : OutcomeOf(k)) /\ DoneHasReceipt BY DEF OutcomeInv
<1>1. ASSUME NEW j \in Jobs, Submission(j) \/ Worker(j) \/ Cancel(j) \/ Prune(j)
      PROVE  OutcomeInv'
  <2>1. ASSUME NEW k \in Jobs PROVE OutcomeOf(k)'
    <3>1. CASE k = j BY <1>1, <1>g, <1>i, <3>1, OwnOutcome
    <3>2. CASE k # j
      <4>1. Untouched(k) BY <1>1, <3>2, OthersUntouched
      <4> QED
        BY <1>g, <1>i, <4>1, KeptOutcome DEF Untouched
    <3> QED
      BY <3>1, <3>2
  <2>2. ASSUME NEW a \in Artifacts, attempt'[a] \in Done PROVE HasReceipt(a)'
    <3>1. CASE attempt'[a] = attempt[a]
      BY <1>g, <1>i, <2>2, <3>1, ReceiptsStay DEF DoneHasReceipt, Done
    <3>2. CASE attempt'[a] # attempt[a]
      <4>1. j \in Compile /\ a = ArtifactOf[j] /\ attempt'[a] = status'[j]
        BY <1>1, <2>2, <3>2, JournalFollows DEF Done
      <4> QED
        BY <2>1, <2>2, <4>1 DEF OutcomeOf
    <3> QED
      BY <3>1, <3>2
  <2>3. DoneHasReceipt' BY <2>2 DEF DoneHasReceipt, Done
  <2> QED
    BY <2>1, <2>3 DEF OutcomeInv
<1>2. CASE Status \/ UNCHANGED vars
  <2>1. UNCHANGED <<pc, status, wrote>>
    BY <1>2 DEF Status, StatusActive, StatusReceipt, StatusAttempt, StatusInterrupt, vars
  <2>2. \A k \in Jobs : OutcomeOf(k)' BY <1>g, <1>i, <2>1, KeptOutcome
  <2>3. ASSUME NEW a \in Artifacts PROVE attempt'[a] \in {attempt[a], "interrupted"}
    BY <1>2, <2>3 DEF Status, StatusActive, StatusReceipt, StatusAttempt, StatusInterrupt, vars,
       TypeInv, TypeOK
  <2>4. DoneHasReceipt' BY <1>g, <1>i, <2>3, ReceiptsStay DEF DoneHasReceipt
  <2> QED
    BY <2>2, <2>4 DEF OutcomeInv
<1>3. CASE Crash
  <2>1. UNCHANGED <<wrote, attempt>> BY <1>3 DEF Crash
  <2>2. \A k \in Jobs : status'[k] = "absent" /\ pc'[k] \in {pc[k], "lost"}
    BY <1>3 DEF Crash
  <2>3. ASSUME NEW k \in Jobs PROVE OutcomeOf(k)'
    <3>1. "lost" \notin AnalyseSteps BY DEF AnalyseSteps
    <3> QED
      BY <1>g, <1>i, <2>1, <2>2, <3>1, KeptOutcome
  <2>4. DoneHasReceipt' BY <1>g, <1>i, <2>1, ReceiptsStay DEF DoneHasReceipt
  <2> QED
    BY <2>3, <2>4 DEF OutcomeInv
<1> QED
  BY <1>1, <1>2, <1>3 DEF Next

LEMMA OutcomeInit == Init => OutcomeInv
  BY JobsAssumption DEF JobsAssumption, Init, OutcomeInv, OutcomeOf, DoneHasReceipt, Done, AnalyseSteps

LEMMA Outcomes == Spec => [](TypeInv /\ OutcomeInv)
<1>1. Init => TypeInv /\ OutcomeInv BY InitType, OutcomeInit
<1>2. TypeInv /\ OutcomeInv /\ [Next]_vars => (TypeInv /\ OutcomeInv)' BY NextType, OutcomeStep
<1> QED
  BY <1>1, <1>2, PTL DEF Spec

\* The receipt of a compilation never stands without the registry and the
\* proposals, whenever the process is killed (context_compiler.py:317-330).
THEOREM ReceiptComesLast == Spec => []ReceiptIsComplete
<1>1. OutcomeInv => ReceiptIsComplete
  BY JobsAssumption DEF JobsAssumption, OutcomeInv, OutcomeOf, ReceiptIsComplete
<1> QED
  BY <1>1, Outcomes, PTL

\* The attempt journal says "done" only of an artifact that has its receipt.
THEOREM JournalledDone == Spec => []DoneHasReceipt
<1>1. OutcomeInv => DoneHasReceipt BY DEF OutcomeInv
<1> QED
  BY <1>1, Outcomes, PTL

-----------------------------------------------------------------------------
(* An ended job.                                                            *)

LEMMA SettledStep ==
    ASSUME TypeInv, OutcomeInv, [Next]_vars, NEW k \in Jobs, status[k] \in Terminal
    PROVE  status'[k] \in {status[k], "absent"}
<1> USE DEF pool, record, memory, bounds
<1>n. "absent" \notin Terminal /\ Terminal \cap Live = {} BY DEF Terminal, Live
<1>1. ASSUME NEW j \in Jobs, Submission(j) \/ Worker(j) \/ Cancel(j) \/ Prune(j)
      PROVE  status'[k] \in {status[k], "absent"}
  <2>1. CASE j # k BY <1>1, <2>1, OthersUntouched DEF Untouched
  <2>2. ASSUME j = k, NEW saved \in BOOLEAN, CancelJob(k, saved) PROVE status'[k] = status[k]
    BY <1>n, <2>2, CancelEffect DEF SameRecord
  <2>3. ASSUME j = k, NEW s \in Statuses \cup {Keep}, NEW p \in Phases \cup {Keep}, NEW n \in Notes,
               NEW saved \in BOOLEAN, UpdateJob(k, s, p, n, saved)
        PROVE  status'[k] = status[k]
    BY <2>3, UpdateEffect DEF SameRecord, Ignores
  <2>4. CASE j = k /\ Submission(k)
    <3>1. pc[k] # "acquired" BY <1>n DEF OutcomeInv, OutcomeOf
    <3> QED
      BY <2>4, <3>1 DEF Submission, Acquire, ResolveRaises, Register, PersistCreated, Enqueue, EnqueueRaises
  <2>5. CASE j = k /\ Worker(k) BY <2>2, <2>3, <2>5, WorkerRecord
  <2>6. CASE j = k /\ Cancel(k) BY <2>2, <2>6 DEF Cancel
  <2>7. CASE j = k /\ Prune(k) BY <2>7 DEF Prune, TypeInv, TypeOK
  <2> QED
    BY <1>1, <2>1, <2>4, <2>5, <2>6, <2>7
<1>2. CASE Status \/ Crash \/ UNCHANGED vars
  BY <1>2 DEF Status, StatusActive, StatusReceipt, StatusAttempt, StatusInterrupt, Crash, vars
<1> QED
  BY <1>1, <1>2 DEF Next

\* A job that has ended keeps its status until it is forgotten, whoever
\* reports last (update_job and cancel_job, jobs.py:160-250).
THEOREM EndedIsEnded == Spec => SettledStaysSettled
<1>1. TypeInv /\ OutcomeInv /\ [Next]_vars
        => [\A j \in Jobs : status[j] \in Terminal => status'[j] \in {status[j], "absent"}]_vars
  BY SettledStep
<1> QED
  BY <1>1, Outcomes, PTL DEF Spec, SettledStaysSettled

=============================================================================
