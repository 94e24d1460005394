------------------------------ MODULE RenderJobs ------------------------------
(***************************************************************************)
(* Backend's render jobs (src/src/backend.cpp, struct RenderJobState to    *)
(* the end of the file): start_render, cancel_render, load_path and        *)
(* is_rendering on the GUI thread, RenderJob::run on the threads of a      *)
(* QThreadPool, and the QFutureInterface of each job, which both sides     *)
(* read and write.                                                         *)
(*                                                                         *)
(* One step is what happens between two points where another thread can    *)
(* look: a locked QFutureInterface call, a QThreadPool call, or a file     *)
(* operation.  Audio is a count of frames.  The .wav path of a job is      *)
(* identified with its row: start_render derives distinct paths for        *)
(* distinct rows, and two renders of one file use the same paths (the      *)
(* dialog proposes the same name), which is the case that can go wrong.    *)
(***************************************************************************)
EXTENDS Integers, FiniteSets

CONSTANTS
    NumRows,      \* rows of the channel table: Master Audio and the channels
    MaxThreads,   \* QThread::idealThreadCount()
    MaxRenders,   \* bound: renders started in one behaviour
    NumSamples,   \* frames a job renders to the end (render_nsamp)
    BufferLen,    \* frames of one PlayerA::Render call
    SampleRate    \* frames per second

ASSUME RenderAssumption ==
    /\ NumRows \in Nat
    /\ MaxThreads \in Nat \ {0}
    /\ MaxRenders \in Nat
    /\ NumSamples \in Nat
    /\ BufferLen \in Nat \ {0}
    /\ SampleRate \in Nat \ {0}

Row == 1..NumRows
Job == (1..MaxRenders) \X Row     \* the RenderJob of a render for a row

VARIABLES
    renders,      \* renders started so far
    enabled,      \* rows enabled when the last render was started
    renderJobs,   \* Backend::_render_jobs; its order is that of the rows
    gui,          \* which loop of Backend the GUI thread is in
    todo,         \* rows that loop has still to visit
    pc,           \* where each job is in its life
    fin,          \* jobs whose player has PLAYSTATE_FIN set
    samp,         \* curr_samp of each job
    openFiles,    \* jobs whose Wave_Writer holds its file open
    canceled, finished, result, progress,   \* the QFutureInterface of a job:
                  \* state bits, isResultReadyAt(0), progressValue()
    fate          \* history: how callback() ended

guiVars == <<renders, enabled, renderJobs, gui, todo>>
futureVars == <<canceled, finished, result, progress>>
workVars == <<fin, samp, openFiles, fate>>
vars == <<guiVars, pc, workVars, futureVars>>

PC == {"unborn",     \* not created yet
       "made",       \* owned by start_render's queued_jobs
       "queued",     \* in the queue of the thread pool
       "run",        \* run(): about to look at isCanceled()
       "open",       \* callback(): Wave_Writer::make
       "check",      \* top of the loop: isCanceled()
       "render",     \* PlayerA::Render, Wave_Writer::write
       "progress",   \* setProgressValue
       "close",      \* Wave_Writer::close
       "report",     \* reportResult(error)
       "unwind",     \* leaving callback(): ~Wave_Writer
       "throw",      \* run()'s catch: reportException
       "finish",     \* reportFinished
       "return",     \* finished, but the thread still holds the QRunnable
       "gone"}       \* deleted by the pool

(* The places where a job occupies a thread of the pool.                   *)
OnThread == PC \ {"unborn", "made", "queued", "gone"}
Active == {j \in Job : pc[j] \in OnThread}
Queued == {j \in Job : pc[j] = "queued"}

Fate == {"none", "complete", "error", "exception", "stopped"}

TypeOK ==
    /\ renders \in 0..MaxRenders
    /\ enabled \in SUBSET Row
    /\ renderJobs \in SUBSET Job
    /\ gui \in {"idle", "starting", "canceling"}
    /\ todo \in SUBSET Row
    /\ pc \in [Job -> PC]
    /\ fin \in SUBSET Job
    /\ samp \in [Job -> 0..NumSamples]
    /\ openFiles \in SUBSET Job
    /\ canceled \in SUBSET Job
    /\ finished \in SUBSET Job
    /\ result \in SUBSET Job
    /\ progress \in [Job -> Nat]
    /\ fate \in [Job -> Fate]

Init ==
    /\ renders = 0
    /\ enabled = {}
    /\ renderJobs = {}
    /\ gui = "idle"
    /\ todo = {}
    /\ pc = [j \in Job |-> "unborn"]
    /\ fin = {}
    /\ samp = [j \in Job |-> 0]
    /\ openFiles = {}
    /\ canceled = {}
    /\ finished = {}
    /\ result = {}
    /\ progress = [j \in Job |-> 0]
    /\ fate = [j \in Job |-> "none"]

-------------------------------------------------------------------------------
(* The GUI thread.                                                         *)

(* Futures only ever go from unfinished to finished, so the scan over      *)
(* _render_jobs decides the same as a look at all of them at its last      *)
(* read.                                                                   *)
IsRendering == \E j \in renderJobs : j \notin finished

(* The guard start_render and load_path share.  The definitions named      *)
(* X_... before a definition X, here and below, are forms of X that a bug  *)
(* could give it: each breaks a property, which shows that it can fail.    *)
MayReplaceJobs_Unchecked == TRUE
MayReplaceJobs == ~IsRendering

ClearJobs_Kept == UNCHANGED renderJobs
ClearJobs == renderJobs' = {}

(* start_render up to its last loop: every enabled row gets its RenderJob  *)
(* before any of them is started.                                          *)
StartRender(rows) ==
    /\ gui = "idle"
    /\ MayReplaceJobs
    /\ renders < MaxRenders
    /\ renders' = renders + 1
    /\ enabled' = rows
    /\ ClearJobs
    /\ gui' = "starting"
    /\ todo' = rows
    /\ pc' = [j \in Job |->
                IF j[1] = renders + 1 /\ j[2] \in rows THEN "made" ELSE pc[j]]
    /\ UNCHANGED <<workVars, futureVars>>

(* One RenderJob::make failed: the list has been cleared, the jobs already *)
(* made are destroyed, and none is started.                                *)
StartRenderFails ==
    /\ gui = "idle"
    /\ MayReplaceJobs
    /\ ClearJobs
    /\ UNCHANGED <<renders, enabled, gui, todo, pc, workVars, futureVars>>

(* load_path clears the list first, whether or not the file then loads.    *)
LoadPath ==
    /\ gui = "idle"
    /\ MayReplaceJobs
    /\ ClearJobs
    /\ UNCHANGED <<renders, enabled, gui, todo, pc, workVars, futureVars>>

(* QThreadPool::start runs the job if a thread is free, else queues it.    *)
PoolStart == IF Cardinality(Active) < MaxThreads THEN "run" ELSE "queued"

(* One round of start_render's last loop: push the future, report started, *)
(* hand the job to the pool.                                               *)
StartJob ==
    /\ gui = "starting"
    /\ \E r \in todo :
         /\ \A q \in todo : r <= q
         /\ todo' = todo \ {r}
         /\ renderJobs' = renderJobs \cup {<<renders, r>>}
         /\ pc' = [pc EXCEPT ![<<renders, r>>] = PoolStart]
    /\ UNCHANGED <<renders, enabled, gui, workVars, futureVars>>

(* cancel_render visits the jobs in order, one locked cancel() at a time.  *)
CancelRender ==
    /\ gui = "idle"
    /\ gui' = "canceling"
    /\ todo' = {j[2] : j \in renderJobs}
    /\ UNCHANGED <<renders, enabled, renderJobs, pc, workVars, futureVars>>

CancelJob ==
    /\ gui = "canceling"
    /\ \E r \in todo :
         /\ \A q \in todo : r <= q
         /\ todo' = todo \ {r}
         /\ canceled' = canceled \cup {<<renders, r>>}
    /\ UNCHANGED <<renders, enabled, renderJobs, gui, pc, workVars,
                   finished, result, progress>>

(* Either loop has visited every row.                                      *)
LoopDone ==
    /\ gui # "idle"
    /\ todo = {}
    /\ gui' = "idle"
    /\ UNCHANGED <<renders, enabled, renderJobs, todo, pc, workVars, futureVars>>

-------------------------------------------------------------------------------
(* A thread of the pool, running job j.  From..To: one step of run().      *)

Goto(j, from, to) ==
    /\ pc[j] = from
    /\ pc' = [pc EXCEPT ![j] = to]

EndsWith(j, f) == fate' = [fate EXCEPT ![j] = f]

RunJob_Unchecked(j) ==
    /\ Goto(j, "run", "open")
    /\ UNCHANGED <<guiVars, workVars, futureVars>>

RunJob_Unreported(j) ==
    /\ IF j \in canceled
       THEN Goto(j, "run", "return") /\ EndsWith(j, "stopped")
       ELSE Goto(j, "run", "open") /\ UNCHANGED fate
    /\ UNCHANGED <<guiVars, fin, samp, openFiles, futureVars>>

(* run() does not call callback() for a job canceled while it was queued,  *)
(* but reports it finished.                                                *)
RunJob(j) ==
    /\ IF j \in canceled
       THEN Goto(j, "run", "finish") /\ EndsWith(j, "stopped")
       ELSE Goto(j, "run", "open") /\ UNCHANGED fate
    /\ UNCHANGED <<guiVars, fin, samp, openFiles, futureVars>>

(* Wave_Writer::make opens (and truncates) the file and writes a header.   *)
OpenFile(j) ==
    /\ \/ /\ Goto(j, "open", "check")
          /\ openFiles' = openFiles \cup {j}
          /\ UNCHANGED fate
       \/ /\ Goto(j, "open", "report")
          /\ EndsWith(j, "error")
          /\ UNCHANGED openFiles
    /\ UNCHANGED <<guiVars, fin, samp, futureVars>>

CheckCanceled_Ignored(j) ==
    /\ Goto(j, "check", "render")
    /\ UNCHANGED <<guiVars, workVars, futureVars>>

CheckCanceled(j) ==
    /\ IF j \in canceled
       THEN Goto(j, "check", "unwind") /\ EndsWith(j, "stopped")
       ELSE Goto(j, "check", "render") /\ UNCHANGED fate
    /\ UNCHANGED <<guiVars, fin, samp, openFiles, futureVars>>

(* PlayerA::Render fills the buffer, or sets PLAYSTATE_FIN and returns the *)
(* frames that were left; a song whose end is the end of a buffer takes    *)
(* one more call, which returns none.                                      *)
SongEnds(j) == NumSamples - samp[j] < BufferLen

Frames_Full(j) == BufferLen
Frames(j) == IF SongEnds(j) THEN NumSamples - samp[j] ELSE BufferLen

(* Render, then Wave_Writer::write; curr_samp counts what was written.     *)
RenderBuffer(j) ==
    /\ fin' = IF SongEnds(j) THEN fin \cup {j} ELSE fin
    /\ \/ /\ Goto(j, "render", "progress")
          /\ samp' = [samp EXCEPT ![j] = @ + Frames(j)]
          /\ UNCHANGED fate
       \/ /\ Goto(j, "render", "report")
          /\ EndsWith(j, "error")
          /\ UNCHANGED samp
    /\ UNCHANGED <<guiVars, openFiles, futureVars>>

(* QFutureInterface::setProgressValue never goes back, and is dropped once *)
(* the future is canceled.                                                 *)
SetProgress(j) ==
    LET secs == samp[j] \div SampleRate
    IN progress' = IF j \in canceled \/ secs <= progress[j] THEN progress
                   ELSE [progress EXCEPT ![j] = secs]

ReportProgress(j) ==
    /\ Goto(j, "progress", IF j \in fin THEN "close" ELSE "check")
    /\ SetProgress(j)
    /\ UNCHANGED <<guiVars, workVars, canceled, finished, result>>

(* Wave_Writer::close: success; the header cannot be written, and the file *)
(* is closed; or the flush fails, and the file is left open.               *)
CloseFile(j) ==
    /\ \/ /\ Goto(j, "close", "finish")
          /\ EndsWith(j, "complete")
          /\ openFiles' = openFiles \ {j}
       \/ /\ Goto(j, "close", "report")
          /\ EndsWith(j, "error")
          /\ openFiles' \in {openFiles, openFiles \ {j}}
    /\ UNCHANGED <<guiVars, fin, samp, futureVars>>

(* reportResult drops the message if the future is canceled.               *)
ReportError_Lost(j) ==
    /\ Goto(j, "report", "unwind")
    /\ UNCHANGED <<guiVars, workVars, futureVars>>

ReportError(j) ==
    /\ Goto(j, "report", "unwind")
    /\ result' = IF j \in canceled THEN result ELSE result \cup {j}
    /\ UNCHANGED <<guiVars, workVars, canceled, finished, progress>>

(* ~Wave_Writer closes the file if it still is open.                       *)
Unwind_LeavesOpen(j) ==
    /\ Goto(j, "unwind", "finish")
    /\ UNCHANGED <<guiVars, workVars, futureVars>>

Unwind(j) ==
    /\ Goto(j, "unwind", "finish")
    /\ openFiles' = openFiles \ {j}
    /\ UNCHANGED <<guiVars, fin, samp, fate, futureVars>>

(* An allocation fails under callback(): unwinding closes the file, then   *)
(* run() reports the exception, which to QFuture is a cancellation.        *)
Throw(j) ==
    /\ \/ Goto(j, "open", "throw")
       \/ Goto(j, "render", "throw")
    /\ EndsWith(j, "exception")
    /\ openFiles' = openFiles \ {j}
    /\ UNCHANGED <<guiVars, fin, samp, futureVars>>

ReportException(j) ==
    /\ Goto(j, "throw", "finish")
    /\ canceled' = canceled \cup {j}
    /\ UNCHANGED <<guiVars, workVars, finished, result, progress>>

ReportFinished(j) ==
    /\ Goto(j, "finish", "return")
    /\ finished' = finished \cup {j}
    /\ UNCHANGED <<guiVars, workVars, canceled, result, progress>>

(* The thread deletes the job and, under the pool's lock, takes the job    *)
(* that was queued first or becomes idle.                                  *)
ThreadReturns(j) ==
    /\ pc[j] = "return"
    /\ \/ /\ Queued = {}
          /\ pc' = [pc EXCEPT ![j] = "gone"]
       \/ \E k \in Queued :
             /\ \A q \in Queued : k[2] <= q[2]
             /\ pc' = [pc EXCEPT ![j] = "gone", ![k] = "run"]
    /\ UNCHANGED <<guiVars, workVars, futureVars>>

-------------------------------------------------------------------------------

GuiLoop == StartJob \/ CancelJob \/ LoopDone

Worker(j) ==
    \/ RunJob(j)
    \/ OpenFile(j)
    \/ CheckCanceled(j)
    \/ RenderBuffer(j)
    \/ ReportProgress(j)
    \/ CloseFile(j)
    \/ ReportError(j)
    \/ Unwind(j)
    \/ Throw(j)
    \/ ReportException(j)
    \/ ReportFinished(j)
    \/ ThreadReturns(j)

Next ==
    \/ \E rows \in SUBSET Row : StartRender(rows)
    \/ StartRenderFails
    \/ LoadPath
    \/ CancelRender
    \/ GuiLoop
    \/ \E j \in Job : Worker(j)

Spec == Init /\ [][Next]_vars

(* Threads get scheduled and a GUI handler that was entered returns; that  *)
(* the user does anything is not assumed.                                  *)
Fairness ==
    /\ WF_vars(GuiLoop)
    /\ \A j \in Job : WF_vars(Worker(j))

FairSpec == Spec /\ Fairness

-------------------------------------------------------------------------------
(* Properties.                                                             *)

Over(j) == pc[j] \in {"return", "gone"}
Live(j) == pc[j] \notin {"unborn", "made"} /\ ~Over(j)

(* No two Wave_Writers hold the same .wav file open: not two jobs of one   *)
(* render, and not a job of an earlier render that start_render thought    *)
(* was finished.                                                           *)
OneWriterPerFile ==
    \A j, k \in openFiles : j[2] = k[2] => j = k

(* _render_jobs never loses a job that has been started and is not         *)
(* finished: is_rendering() would miss it and cancel_render() could not    *)
(* reach it.                                                               *)
NoOrphan == \A j \in Job : Live(j) => j \in renderJobs /\ j \notin finished

(* The jobs in _render_jobs are none, or one per row that was enabled when *)
(* the last render was started (backend.h, render_jobs()).                 *)
JobsMatchRows ==
    gui # "starting" =>
        \/ renderJobs = {}
        \/ renderJobs = {<<renders, r>> : r \in enabled}

(* A finished job that shows neither an error nor a cancellation has       *)
(* written the whole song to a file that is closed, and shows the full     *)
(* duration: an error or exception is never lost, whatever cancel_render   *)
(* does meanwhile.                                                         *)
CleanFinishIsComplete ==
    \A j \in finished :
        j \notin result /\ j \notin canceled =>
            /\ fate[j] = "complete"
            /\ samp[j] = NumSamples
            /\ progress[j] = NumSamples \div SampleRate
            /\ j \notin openFiles

(* A job canceled while it waits in the queue never opens (and truncates)  *)
(* its file.                                                               *)
CanceledInQueueWritesNothing ==
    \A j \in Job :
        [](pc[j] = "queued" /\ j \in canceled => [](j \notin openFiles))

(* After cancel() a job renders at most one more buffer.                   *)
CancelStopsWithinOneBuffer ==
    \A j \in Job, n \in 0..NumSamples :
        [](j \in canceled /\ samp[j] = n => [](samp[j] <= n + BufferLen))

(* Every job start_render made is finished in the end, canceled or not,    *)
(* failed or not: the render dialog, which can only close then, does not   *)
(* hang.                                                                   *)
EveryJobFinishes == \A j \in Job : pc[j] = "made" ~> j \in finished

(* The renders implement the abstract batches.                             *)
Phase(j) ==
    IF pc[j] \in {"unborn", "made"} THEN "idle"
    ELSE IF pc[j] \in {"queued", "run", "open"} THEN "waiting"
    ELSE IF j \in openFiles THEN "writing"
    ELSE IF Over(j) THEN "over"
    ELSE "ended"

Batch == INSTANCE RenderBatch WITH phase <- [j \in Job |-> Phase(j)]

RefinesBatch == Batch!Spec

(* Each job runs a callback() such as RenderFile has one in full.          *)
Told(j) == IF fate[j] \in {"stopped", "exception"} THEN "early" ELSE fate[j]

Callback(j) == INSTANCE RenderCallback
    WITH total <- NumSamples, held <- j \in openFiles, written <- samp[j],
         told <- Told(j)

RefinesCallback == \A j \in Job : Callback(j)!Spec

==============================================================================
