----------------------------- MODULE RenderDialog -----------------------------
(***************************************************************************)
(* RenderDialogImpl (src/src/render_dialog.cpp) on top of the render jobs, *)
(* and the part of the main window that starts a render and opens it       *)
(* (src/src/mainwindow.cpp, on_render).  A timer polls the jobs' futures   *)
(* one locked read at a time while the threads go on; error messages reach *)
(* the dialog separately, as events posted by a QFutureWatcher.            *)
(*                                                                         *)
(* The dialog and its message boxes are modal: while one is shown, nothing *)
(* below it gets input.  All of this runs on the GUI thread, so a handler  *)
(* that was entered ends before the next begins.                           *)
(***************************************************************************)
EXTENDS RenderJobs

VARIABLES
    dlg,       \* none, starting (in on_render), hidden (constructor), shown
    modelRows, \* the rows JobModel::_progress was sized for
    polling,   \* in get_progress/update_status
    scan,      \* rows get_progress has still to read
    field,     \* the field of the first of them to be read next
    snap,      \* the ProgressState of each row (max is a constant)
    ui,        \* _is_done, _has_errors, _close_on_end, timer, message boxes
    posted,    \* jobs with a resultReadyAt event in the GUI's event queue
    log        \* history: jobs whose error was written to an error log

dialogVars == <<dlg, modelRows, polling, scan, field, snap, ui, posted, log>>
allVars == <<vars, dialogVars>>

Field == {"curr", "finished", "error", "canceled"}
ProgressState == [curr : Nat, finished : BOOLEAN, error : BOOLEAN, canceled : BOOLEAN]
Unread == [curr |-> 0, finished |-> FALSE, error |-> FALSE, canceled |-> FALSE]

Nothing == [r \in Row |-> Unread]     \* job_progress is local to update_status

Ui == [isDone : BOOLEAN, hasErrors : BOOLEAN, closeOnEnd : BOOLEAN,
       timer : BOOLEAN, cancelBox : BOOLEAN, doneBox : BOOLEAN]
FreshUi(timerOn) ==
    [isDone |-> FALSE, hasErrors |-> FALSE, closeOnEnd |-> FALSE,
     timer |-> timerOn, cancelBox |-> FALSE, doneBox |-> FALSE]

DialogTypes ==
    /\ dlg \in {"none", "starting", "hidden", "shown"}
    /\ modelRows \in SUBSET Row
    /\ polling \in BOOLEAN
    /\ scan \in SUBSET Row
    /\ field \in Field
    /\ snap \in [Row -> ProgressState]
    /\ ui \in Ui
    /\ posted \in SUBSET Job
    /\ log \in SUBSET Job

DialogTypeOK == TypeOK /\ DialogTypes

DialogInit ==
    /\ Init
    /\ dlg = "none"
    /\ modelRows = {}
    /\ polling = FALSE
    /\ scan = {}
    /\ field = "curr"
    /\ snap = Nothing
    /\ ui = FreshUi(FALSE)
    /\ posted = {}
    /\ log = {}

JobOf(r) == <<renders, r>>
JobRows == {j[2] : j \in renderJobs}
MaxProgress == NumSamples \div SampleRate

(* No handler is running on the GUI thread.                                *)
EventLoop == gui = "idle" /\ ~polling

-------------------------------------------------------------------------------
(* The main window.                                                        *)

HasControl_Modeless == dlg \in {"none", "shown"} /\ ~polling
HasControl == dlg = "none"

OnRender(rows) ==
    /\ HasControl
    /\ StartRender(rows)
    /\ dlg' = "starting"
    /\ UNCHANGED <<modelRows, polling, scan, field, snap, ui, posted, log>>

OnRenderFails ==
    /\ HasControl
    /\ StartRenderFails
    /\ UNCHANGED dialogVars

OnLoadPath ==
    /\ HasControl
    /\ LoadPath
    /\ UNCHANGED dialogVars

(* QFutureWatcher::setFuture posts an event for a result that is already   *)
(* there.                                                                  *)
ResultsAtStart_Missed == {}
ResultsAtStart == result \cap renderJobs

(* on_render after start_render: no dialog if nothing is rendering (any    *)
(* more).  The constructor makes a watcher per job, then calls             *)
(* update_status().                                                        *)
OpenDialog ==
    /\ dlg = "starting"
    /\ gui = "idle"
    /\ IF IsRendering
       THEN /\ dlg' = "hidden"
            /\ modelRows' = JobRows
            /\ polling' = TRUE
            /\ scan' = JobRows
            /\ ui' = FreshUi(TRUE)
            /\ posted' = ResultsAtStart
       ELSE /\ dlg' = "none"
            /\ UNCHANGED <<modelRows, polling, scan, ui, posted>>
    /\ UNCHANGED <<vars, field, snap, log>>

-------------------------------------------------------------------------------
(* update_status().                                                        *)

TimerFires ==
    /\ dlg = "shown"
    /\ EventLoop
    /\ ui.timer
    /\ polling' = TRUE
    /\ scan' = JobRows
    /\ UNCHANGED <<vars, dlg, modelRows, field, snap, ui, posted, log>>

(* get_progress reads finished before error and canceled, and curr first.  *)
FieldAfter_ErrorFirst(f) ==
    CASE f = "curr" -> "error" [] f = "error" -> "finished"
      [] f = "finished" -> "canceled" [] f = "canceled" -> "curr"
FieldAfter(f) ==
    CASE f = "curr" -> "finished" [] f = "finished" -> "error"
      [] f = "error" -> "canceled" [] f = "canceled" -> "curr"

ReadField ==
    /\ polling
    /\ \E r \in scan :
         /\ \A q \in scan : r <= q
         /\ snap' =
              CASE field = "curr" -> [snap EXCEPT ![r].curr = progress[JobOf(r)]]
                [] field = "finished" -> [snap EXCEPT ![r].finished = JobOf(r) \in finished]
                [] field = "error" -> [snap EXCEPT ![r].error = JobOf(r) \in result]
                [] field = "canceled" -> [snap EXCEPT ![r].canceled = JobOf(r) \in canceled]
         /\ field' = FieldAfter(field)
         /\ scan' = IF field = "canceled" THEN scan \ {r} ELSE scan
    /\ UNCHANGED <<vars, dlg, modelRows, polling, ui, posted, log>>

AllFinished_Uncanceled == \A r \in JobRows : snap[r].finished /\ ~snap[r].canceled
AllFinished == \A r \in JobRows : snap[r].finished
AnyError == \E r \in JobRows : snap[r].error
AnyCanceled == \E r \in JobRows : snap[r].canceled

(* The sums over all jobs differ.  No job shows more than its maximum, so  *)
(* they do iff some job shows less; the jobs' time_multiplier only weights *)
(* the sums.                                                               *)
Mismatch == \E r \in JobRows : snap[r].curr # MaxProgress

HasErrors_OnlyMismatch == ~AnyError /\ ~AnyCanceled /\ Mismatch
HasErrors == AnyError \/ (~AnyCanceled /\ Mismatch)

(* Not all finished, or the dialog is not visible yet: the caller of the   *)
(* constructor then shows it.                                              *)
UpdateRunning ==
    /\ polling
    /\ scan = {}
    /\ ~AllFinished \/ dlg = "hidden"
    /\ polling' = FALSE
    /\ dlg' = "shown"
    /\ snap' = Nothing
    /\ UNCHANGED <<vars, modelRows, scan, field, ui, posted, log>>

(* QWidget::close on a dialog with WA_DeleteOnClose: the watchers and the  *)
(* events posted to them go too.                                           *)
CloseDialog ==
    /\ dlg' = "none"
    /\ ui' = FreshUi(FALSE)
    /\ posted' = {}

UpdateDone ==
    /\ polling
    /\ scan = {}
    /\ AllFinished
    /\ dlg = "shown"
    /\ polling' = FALSE
    /\ IF ui.closeOnEnd
       THEN CloseDialog
       ELSE /\ ui' = [ui EXCEPT
                        !.isDone = TRUE,
                        !.timer = FALSE,
                        !.hasErrors = HasErrors,
                        !.cancelBox = FALSE,
                        !.doneBox = ~AnyCanceled]
            /\ UNCHANGED <<dlg, posted>>
    /\ snap' = Nothing
    /\ UNCHANGED <<vars, modelRows, scan, field, log>>

(* A watcher drops a result that is delivered after a cancellation.        *)
ResultReady(j) ==
    /\ dlg = "shown"
    /\ EventLoop
    /\ j \in posted
    /\ posted' = posted \ {j}
    /\ log' = IF j \in canceled THEN log ELSE log \cup {j}
    /\ UNCHANGED <<vars, dlg, modelRows, polling, scan, field, snap, ui>>

-------------------------------------------------------------------------------
(* The user.                                                               *)

InDialog == dlg = "shown" /\ EventLoop /\ ~ui.cancelBox /\ ~ui.doneBox

(* The Cancel button, which update_status turns into Close.                *)
ClickCancel ==
    /\ InDialog
    /\ ~ui.isDone
    /\ CancelRender
    /\ UNCHANGED dialogVars

(* X or Esc.                                                               *)
PromptForCancel_JustClose ==
    /\ InDialog
    /\ ~ui.isDone
    /\ CloseDialog
    /\ UNCHANGED <<vars, modelRows, polling, scan, field, snap, log>>

PromptForCancel ==
    /\ InDialog
    /\ ~ui.isDone
    /\ ui' = [ui EXCEPT !.cancelBox = TRUE]
    /\ UNCHANGED <<vars, dlg, modelRows, polling, scan, field, snap, posted, log>>

(* Any of Close, X and Esc when all is done.  The events that were posted  *)
(* before the poll that found the jobs finished precede this one.          *)
CloseWhenDone ==
    /\ InDialog
    /\ ui.isDone
    /\ posted = {}
    /\ CloseDialog
    /\ UNCHANGED <<vars, modelRows, polling, scan, field, snap, log>>

AcceptCancel_StopsTimer ==
    /\ dlg = "shown" /\ EventLoop /\ ui.cancelBox
    /\ CancelRender
    /\ ui' = [ui EXCEPT !.cancelBox = FALSE, !.timer = FALSE, !.closeOnEnd = TRUE]
    /\ UNCHANGED <<dlg, modelRows, polling, scan, field, snap, posted, log>>

AcceptCancel ==
    /\ dlg = "shown" /\ EventLoop /\ ui.cancelBox
    /\ CancelRender
    /\ ui' = [ui EXCEPT !.cancelBox = FALSE, !.closeOnEnd = TRUE]
    /\ UNCHANGED <<dlg, modelRows, polling, scan, field, snap, posted, log>>

RejectCancel ==
    /\ dlg = "shown" /\ EventLoop /\ ui.cancelBox
    /\ ui' = [ui EXCEPT !.cancelBox = FALSE]
    /\ UNCHANGED <<vars, dlg, modelRows, polling, scan, field, snap, posted, log>>

DismissDone ==
    /\ dlg = "shown" /\ EventLoop /\ ui.doneBox
    /\ posted = {}
    /\ IF ui.hasErrors
       THEN ui' = [ui EXCEPT !.doneBox = FALSE] /\ UNCHANGED <<dlg, posted>>
       ELSE CloseDialog
    /\ UNCHANGED <<vars, modelRows, polling, scan, field, snap, log>>

-------------------------------------------------------------------------------

(* A result reported while the watchers exist is posted to them.           *)
WorkerStep(j) ==
    /\ Worker(j)
    /\ posted' = IF dlg \in {"hidden", "shown"} THEN posted \cup (result' \ result)
                 ELSE posted
    /\ UNCHANGED <<dlg, modelRows, polling, scan, field, snap, ui, log>>

BackendLoop == GuiLoop /\ UNCHANGED dialogVars

DialogLoop ==
    \/ BackendLoop
    \/ OpenDialog
    \/ ReadField
    \/ UpdateRunning
    \/ UpdateDone

User ==
    \/ \E rows \in SUBSET Row : OnRender(rows)
    \/ OnRenderFails
    \/ OnLoadPath
    \/ ClickCancel
    \/ PromptForCancel
    \/ CloseWhenDone
    \/ AcceptCancel
    \/ RejectCancel
    \/ DismissDone

DialogNext ==
    \/ \E j \in Job : WorkerStep(j)
    \/ DialogLoop
    \/ TimerFires
    \/ \E j \in Job : ResultReady(j)
    \/ User

DialogSpec == DialogInit /\ [][DialogNext]_allVars

(* Handlers return, threads get scheduled, the timer fires again and again *)
(* and posted events are delivered.  Nothing is assumed of the user.       *)
DialogFairness ==
    /\ WF_allVars(DialogLoop)
    /\ SF_allVars(TimerFires)
    /\ \A j \in Job : WF_allVars(WorkerStep(j)) /\ SF_allVars(ResultReady(j))

DialogFairSpec == DialogSpec /\ DialogFairness

-------------------------------------------------------------------------------
(* Properties.                                                             *)

(* The main window gets control back only when no job is unfinished, so    *)
(* nothing can change the song or start a render behind a running one.     *)
RenderHasDialog == dlg = "none" => ~IsRendering

(* JobModel::_progress keeps the size of Backend::render_jobs() while the  *)
(* dialog exists: data() and set_progress() abort otherwise.               *)
JobModelFits == dlg \in {"hidden", "shown"} => modelRows = JobRows

(* get_progress's own invariant (render_dialog.cpp:150-151): a job that    *)
(* did not complete and is seen as finished is seen with its error or its  *)
(* cancellation.                                                           *)
SnapshotIsConsistent ==
    polling /\ scan = {} =>
        \A r \in JobRows :
            snap[r].finished /\ fate[JobOf(r)] # "complete" =>
                snap[r].error \/ snap[r].canceled

(* The popup that says the render is complete, without errors, appears     *)
(* only when every file was written to its end.                            *)
SuccessIsReal ==
    ui.doneBox /\ ~ui.hasErrors =>
        \A j \in renderJobs : fate[j] = "complete" /\ j \in finished

(* Once the dialog is shown, rendering ends and the dialog says so (or it  *)
(* was told to close then).                                                *)
DialogGetsDone == dlg = "shown" ~> ui.isDone \/ dlg = "none"

(* Accepting the cancel prompt closes the dialog in the end.               *)
CancelCloses == ui.closeOnEnd ~> dlg = "none"

(* An error reported while the dialog is shown reaches its log, unless the *)
(* render is canceled.                                                     *)
ErrorGetsLogged ==
    \A j \in Job :
        dlg = "shown" /\ j \in result ~> j \in log \/ j \in canceled

(* A message that errors were encountered is shown only if some file was   *)
(* not written to its end (render_dialog.cpp:363-365: a job that runs to   *)
(* completion gets a warning if there is a time mismatch).                 *)
NoSpuriousError ==
    ui.isDone /\ ui.hasErrors =>
        \E j \in renderJobs : fate[j] # "complete"

(* When the main window has control again, every error of the last render  *)
(* has been shown to the user, unless the render was canceled              *)
(* (render_dialog.cpp:343-349: if the render fails immediately, the        *)
(* message waits until RenderDialog is shown).                             *)
ErrorsWereShown ==
    dlg = "none" =>
        \A j \in renderJobs : j \in result => j \in log \cup canceled

==============================================================================
