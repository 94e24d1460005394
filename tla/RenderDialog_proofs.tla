-------------------------- MODULE RenderDialog_proofs --------------------------
(***************************************************************************)
(* Proofs about RenderDialog, for every number of rows, threads, renders   *)
(* and frames.  The dialog uses the render jobs only through their own     *)
(* actions, so all that is proved of RenderJobs holds below the dialog.    *)
(***************************************************************************)
EXTENDS RenderDialog, RenderJobs_proofs

USE DEF Row, Job

-------------------------------------------------------------------------------
(* The system with the dialog is a system of render jobs.                  *)

LEMMA DialogStep == [DialogNext]_allVars => [Next]_vars
<1> SUFFICES ASSUME [DialogNext]_allVars PROVE [Next]_vars
  OBVIOUS
<1>1. CASE \E j \in Job : WorkerStep(j)
  BY <1>1 DEF WorkerStep, Next
<1>2. CASE DialogLoop
  BY <1>2 DEF DialogLoop, BackendLoop, OpenDialog, ReadField, UpdateRunning,
              UpdateDone, Next
<1>3. CASE TimerFires \/ \E j \in Job : ResultReady(j)
  BY <1>3 DEF TimerFires, ResultReady
<1>4. CASE User
  <2>1. CASE \E rows \in SUBSET Row : OnRender(rows)
    BY <2>1 DEF OnRender, Next
  <2>2. CASE OnRenderFails \/ OnLoadPath
    BY <2>2 DEF OnRenderFails, OnLoadPath, Next
  <2>3. CASE ClickCancel \/ AcceptCancel
    BY <2>3 DEF ClickCancel, AcceptCancel, Next
  <2>4. CASE PromptForCancel \/ CloseWhenDone \/ RejectCancel \/ DismissDone
    BY <2>4 DEF PromptForCancel, CloseWhenDone, RejectCancel, DismissDone
  <2> QED BY <1>4, <2>1, <2>2, <2>3, <2>4 DEF User
<1>5. CASE UNCHANGED allVars
  BY <1>5 DEF allVars
<1> QED BY <1>1, <1>2, <1>3, <1>4, <1>5 DEF DialogNext

(* Every behaviour of the dialog and main window is one of the render      *)
(* jobs: the GUI calls Backend only as Backend allows.                     *)
THEOREM DialogUsesJobs == DialogSpec => Spec
<1>1. DialogInit => Init
  BY DEF DialogInit
<1> QED BY <1>1, DialogStep, PTL DEF DialogSpec, Spec

(* So no two writers share a file in the whole program either.             *)
COROLLARY DialogOneWriter == DialogSpec => []OneWriterPerFile
  BY DialogUsesJobs, OneWriterPerFileHolds, PTL

LEMMA DialogJobs == DialogSpec => [](Inv /\ WorkInv)
  BY DialogUsesJobs, Invariance, WorkInvariance, PTL

-------------------------------------------------------------------------------
(* Who has control, and what a poll has seen.                              *)

ControlInv ==
    /\ dlg = "none" => gui = "idle" /\ ~polling /\ ~IsRendering
    /\ dlg = "starting" => ~polling /\ gui # "canceling"
    /\ dlg \in {"hidden", "shown"} => gui # "starting" /\ modelRows = JobRows
    /\ polling => gui = "idle" /\ scan \subseteq JobRows
    /\ ui.doneBox => dlg = "shown" /\ ui.isDone
    /\ ui.isDone => dlg = "shown" /\ ~IsRendering

(* The row the poll is at, once it has read finished and error there.      *)
ErrorRead(r) == r \notin scan \/ (field = "canceled" /\ \A q \in scan : r <= q)

(* What the poll has read of a row is still true, as far as these facts    *)
(* never become false again.                                               *)
SnapInv ==
    /\ ~polling => snap = Nothing /\ field = "curr"
    /\ scan = {} => field = "curr"
    /\ \A r \in JobRows :
          snap[r].finished =>
              /\ JobOf(r) \in finished
              /\ ErrorRead(r) /\ fate[JobOf(r)] # "complete" =>
                    snap[r].error \/ JobOf(r) \in canceled
              /\ r \notin scan /\ fate[JobOf(r)] # "complete" =>
                    snap[r].error \/ snap[r].canceled

Own == DialogTypes /\ ControlInv /\ SnapInv /\ SuccessIsReal

(* Outside start_render's loop the list of jobs is one job per row.        *)
LEMMA CurrentJobs ==
  ASSUME Inv, gui # "starting"
  PROVE  /\ JobRows \subseteq Row
         /\ \A r \in JobRows : JobOf(r) \in renderJobs /\ JobOf(r) \in Job
         /\ \A j \in renderJobs : j[2] \in JobRows /\ j = JobOf(j[2])
  BY DEF Inv, TypeOK, LoopInv, JobRows, JobOf

(* What a thread does is added to what was there, and a job that is seen   *)
(* as finished keeps its fate.                                             *)
LEMMA Growth ==
  ASSUME Inv, NEW j \in Job, Worker(j)
  PROVE  /\ UNCHANGED guiVars
         /\ canceled \subseteq canceled'
         /\ result \subseteq result'
         /\ finished \subseteq finished'
         /\ \A k \in finished : fate'[k] = fate[k]
<1> USE DEF Inv, TypeOK, JobInv, Over, Goto, EndsWith, guiVars, workVars, futureVars
<1>1. CASE RunJob(j) \/ OpenFile(j) \/ CheckCanceled(j)
  BY <1>1 DEF RunJob, OpenFile, CheckCanceled
<1>2. CASE RenderBuffer(j) \/ ReportProgress(j) \/ CloseFile(j)
  BY <1>2 DEF RenderBuffer, ReportProgress, CloseFile
<1>3. CASE ReportError(j) \/ Unwind(j) \/ Throw(j)
  BY <1>3 DEF ReportError, Unwind, Throw
<1>4. CASE ReportException(j) \/ ReportFinished(j) \/ ThreadReturns(j)
  BY <1>4 DEF ReportException, ReportFinished, ThreadReturns
<1> QED BY <1>1, <1>2, <1>3, <1>4 DEF Worker

LEMMA RowsOfJobs == Inv => JobRows \subseteq Row
  BY DEF Inv, TypeOK, JobRows

LEMMA NothingSeen == \A r \in Row : ~Nothing[r].finished
  BY DEF Nothing, Unread

(* One field of one row is set.                                            *)
LEMMA SetField ==
  ASSUME NEW s \in [Row -> ProgressState], NEW r \in Row, NEW b \in BOOLEAN
  PROVE  /\ [s EXCEPT ![r].finished = b] \in [Row -> ProgressState]
         /\ [s EXCEPT ![r].error = b] \in [Row -> ProgressState]
         /\ [s EXCEPT ![r].canceled = b] \in [Row -> ProgressState]
         /\ [s EXCEPT ![r].finished = b][r] = [s[r] EXCEPT !.finished = b]
         /\ [s EXCEPT ![r].error = b][r] = [s[r] EXCEPT !.error = b]
         /\ [s EXCEPT ![r].canceled = b][r] = [s[r] EXCEPT !.canceled = b]
         /\ \A q \in Row : q # r =>
               /\ [s EXCEPT ![r].finished = b][q] = s[q]
               /\ [s EXCEPT ![r].error = b][q] = s[q]
               /\ [s EXCEPT ![r].canceled = b][q] = s[q]
  BY DEF ProgressState

LEMMA WorkerOwn ==
  ASSUME Inv, Inv', Own, NEW j \in Job, WorkerStep(j)
  PROVE  Own'
<1> USE DEF Own, WorkerStep
<1>1. /\ UNCHANGED <<guiVars, dlg, modelRows, polling, scan, field, snap, ui, log>>
      /\ finished \subseteq finished' /\ canceled \subseteq canceled'
      /\ \A k \in finished : fate'[k] = fate[k]
  BY Growth
<1>2. JobRows' = JobRows /\ \A r \in Row : JobOf(r)' = JobOf(r)
  BY <1>1 DEF JobRows, JobOf, guiVars
<1>3. IsRendering' => IsRendering
  BY <1>1 DEF IsRendering, guiVars
<1>4. ControlInv'
  BY <1>1, <1>2, <1>3 DEF ControlInv, guiVars
<1>5. SnapInv'
  BY RowsOfJobs, <1>1, <1>2 DEF SnapInv, ErrorRead
<1>6. SuccessIsReal'
  BY <1>1 DEF SuccessIsReal, guiVars
<1>7. DialogTypes'
  BY <1>1 DEF DialogTypes, Inv, TypeOK
<1> QED BY <1>4, <1>5, <1>6, <1>7

(* cancel_render's loop and the rest of start_render's.                    *)
LEMMA BackendOwn ==
  ASSUME Inv, Inv', Own, BackendLoop
  PROVE  Own'
<1> USE DEF Own, BackendLoop, dialogVars
<1>1. ~polling /\ dlg # "none"
  BY DEF ControlInv, GuiLoop, StartJob, CancelJob, LoopDone
<1>2. DialogTypes'
  BY DEF DialogTypes
<1>3. SnapInv'
  <2>1. \A r \in Row : ~snap'[r].finished
    BY <1>1, NothingSeen DEF SnapInv
  <2>2. JobRows' \subseteq Row
    BY DEF Inv, TypeOK, JobRows
  <2> QED BY <1>1, <2>1, <2>2 DEF SnapInv, Nothing
<1>4. CASE StartJob
  <2>1. dlg = "starting" /\ ~ui.isDone /\ ~ui.doneBox
    BY <1>1, <1>4 DEF StartJob, ControlInv, DialogTypes
  <2> QED BY <1>2, <1>3, <1>4, <2>1 DEF StartJob, ControlInv, SuccessIsReal
<1>5. CASE CancelJob \/ LoopDone
  <2>1. UNCHANGED <<renders, renderJobs, finished, fate>>
    BY <1>5 DEF CancelJob, LoopDone, workVars, futureVars
  <2>2. JobRows' = JobRows /\ (IsRendering' <=> IsRendering)
    BY <2>1 DEF JobRows, IsRendering
  <2>3. ControlInv'
    BY <1>1, <1>5, <2>2 DEF CancelJob, LoopDone, ControlInv
  <2> QED BY <1>2, <1>3, <2>1, <2>3 DEF SuccessIsReal
<1> QED BY <1>4, <1>5 DEF GuiLoop

(* A poll begins.                                                          *)
LEMMA PollOwn ==
  ASSUME Inv, Own, OpenDialog \/ TimerFires
  PROVE  Own'
<1> USE DEF Own, OpenDialog, TimerFires, vars, guiVars, workVars, futureVars
<1>1. JobRows' = JobRows /\ (IsRendering' <=> IsRendering) /\ JobRows \subseteq Row
  BY RowsOfJobs DEF JobRows, IsRendering
<1>2. ~polling /\ gui = "idle" /\ snap = Nothing /\ field = "curr"
  BY DEF ControlInv, SnapInv, EventLoop
<1>3. DialogTypes'
  <2>1. ResultsAtStart \subseteq Job /\ FreshUi(TRUE) \in Ui
    BY DEF ResultsAtStart, Inv, TypeOK, FreshUi, Ui
  <2>2. CASE OpenDialog
    BY <1>1, <2>1, <2>2 DEF DialogTypes
  <2>3. CASE TimerFires
    BY <1>1, <2>3 DEF DialogTypes
  <2> QED BY <2>2, <2>3
<1>4. ControlInv'
  BY <1>1, <1>2 DEF ControlInv, DialogTypes, FreshUi
<1>5. SnapInv'
  <2>1. snap' = snap /\ field' = field
    OBVIOUS
  <2>2. \A r \in Row : ~snap[r].finished
    BY <1>2, NothingSeen
  <2> QED BY <1>1, <1>2, <2>1, <2>2 DEF SnapInv
<1>6. SuccessIsReal'
  BY <1>2 DEF SuccessIsReal, ControlInv, FreshUi
<1> QED BY <1>3, <1>4, <1>5, <1>6

(* A poll reads one field of one job.                                      *)
LEMMA ReadOwn ==
  ASSUME Inv, WorkInv, Own, ReadField
  PROVE  Own'
<1> USE DEF Own
<1>1. UNCHANGED <<renders, renderJobs, gui, finished, canceled, result, fate,
                  dlg, modelRows, polling, ui, posted, log>>
  BY DEF ReadField, vars, guiVars, workVars, futureVars
<1>2. /\ JobRows' = JobRows /\ (IsRendering' <=> IsRendering)
      /\ \A r \in Row : JobOf(r)' = JobOf(r)
  BY <1>1 DEF JobRows, IsRendering, JobOf
<1>3. polling /\ gui = "idle"
  BY DEF ReadField, ControlInv
<1>4. PICK r \in scan :
        /\ \A q \in scan : r <= q
        /\ snap' =
             CASE field = "curr" -> [snap EXCEPT ![r].curr = progress[JobOf(r)]]
               [] field = "finished" -> [snap EXCEPT ![r].finished = JobOf(r) \in finished]
               [] field = "error" -> [snap EXCEPT ![r].error = JobOf(r) \in result]
               [] field = "canceled" -> [snap EXCEPT ![r].canceled = JobOf(r) \in canceled]
        /\ field' = FieldAfter(field)
        /\ scan' = IF field = "canceled" THEN scan \ {r} ELSE scan
  BY DEF ReadField
<1>5. r \in Row /\ scan \subseteq Row /\ JobRows \subseteq Row
  BY RowsOfJobs, <1>4 DEF DialogTypes
<1>6. \A q \in JobRows : JobOf(q) \in Job
  BY <1>3, CurrentJobs
<1>7. ControlInv' /\ SuccessIsReal'
  BY <1>1, <1>2, <1>3, <1>4 DEF ControlInv, SuccessIsReal
<1>8. /\ snap' \in [Row -> ProgressState]
      /\ snap'[r].finished = IF field = "finished" THEN JobOf(r) \in finished
                             ELSE snap[r].finished
      /\ snap'[r].error = IF field = "error" THEN JobOf(r) \in result
                          ELSE snap[r].error
      /\ snap'[r].canceled = IF field = "canceled" THEN JobOf(r) \in canceled
                             ELSE snap[r].canceled
      /\ \A q \in Row : q # r => snap'[q] = snap[q]
  <2>1. CASE field = "curr"
    <3>1. progress[JobOf(r)] \in Nat
      BY <1>3, <1>4, <1>6 DEF Inv, TypeOK, ControlInv
    <3> QED BY <1>4, <1>5, <2>1, <3>1 DEF DialogTypes, ProgressState
  <2>2. CASE field = "finished"
    <3>1. snap' = [snap EXCEPT ![r].finished = JobOf(r) \in finished]
      BY <1>4, <2>2
    <3> DEFINE b == JobOf(r) \in finished
    <3>2. b \in BOOLEAN
      OBVIOUS
    <3>3. snap' = [snap EXCEPT ![r].finished = b]
      BY <3>1
    <3> HIDE DEF b
    <3>0. snap \in [Row -> ProgressState]
      BY DEF DialogTypes
    <3>4. /\ snap' \in [Row -> ProgressState]
          /\ snap'[r] = [snap[r] EXCEPT !.finished = b]
          /\ \A q \in Row : q # r => snap'[q] = snap[q]
      BY SetField, <1>5, <3>0, <3>2, <3>3, Zenon
    <3>5. snap[r] \in ProgressState
      BY <1>5 DEF DialogTypes
    <3> QED BY <2>2, <3>2, <3>4, <3>5 DEF ProgressState, b
  <2>3. CASE field = "error"
    <3>1. snap' = [snap EXCEPT ![r].error = JobOf(r) \in result]
      BY <1>4, <2>3
    <3> DEFINE b == JobOf(r) \in result
    <3>2. b \in BOOLEAN
      OBVIOUS
    <3>3. snap' = [snap EXCEPT ![r].error = b]
      BY <3>1
    <3> HIDE DEF b
    <3>0. snap \in [Row -> ProgressState]
      BY DEF DialogTypes
    <3>4. /\ snap' \in [Row -> ProgressState]
          /\ snap'[r] = [snap[r] EXCEPT !.error = b]
          /\ \A q \in Row : q # r => snap'[q] = snap[q]
      BY SetField, <1>5, <3>0, <3>2, <3>3, Zenon
    <3>5. snap[r] \in ProgressState
      BY <1>5 DEF DialogTypes
    <3> QED BY <2>3, <3>2, <3>4, <3>5 DEF ProgressState, b
  <2>4. CASE field = "canceled"
    <3>1. snap' = [snap EXCEPT ![r].canceled = JobOf(r) \in canceled]
      BY <1>4, <2>4
    <3> DEFINE b == JobOf(r) \in canceled
    <3>2. b \in BOOLEAN
      OBVIOUS
    <3>3. snap' = [snap EXCEPT ![r].canceled = b]
      BY <3>1
    <3> HIDE DEF b
    <3>0. snap \in [Row -> ProgressState]
      BY DEF DialogTypes
    <3>4. /\ snap' \in [Row -> ProgressState]
          /\ snap'[r] = [snap[r] EXCEPT !.canceled = b]
          /\ \A q \in Row : q # r => snap'[q] = snap[q]
      BY SetField, <1>5, <3>0, <3>2, <3>3, Zenon
    <3>5. snap[r] \in ProgressState
      BY <1>5 DEF DialogTypes
    <3> QED BY <2>4, <3>2, <3>4, <3>5 DEF ProgressState, b
  <2> QED BY <2>1, <2>2, <2>3, <2>4 DEF DialogTypes, Field
<1>9. DialogTypes'
  BY <1>1, <1>4, <1>5, <1>8 DEF DialogTypes, Field, FieldAfter, Inv, TypeOK
<1>10. SnapInv'
  <2> SUFFICES ASSUME NEW q \in JobRows, snap'[q].finished
               PROVE  /\ JobOf(q) \in finished
                      /\ ErrorRead(q)' /\ fate[JobOf(q)] # "complete" =>
                            snap'[q].error \/ JobOf(q) \in canceled
                      /\ q \notin scan' /\ fate[JobOf(q)] # "complete" =>
                            snap'[q].error \/ snap'[q].canceled
    <3>1. scan' = {} => field' = "curr"
      BY <1>4 DEF SnapInv, FieldAfter
    <3> QED BY <1>1, <1>2, <1>3, <1>5, <3>1 DEF SnapInv
  <2>1. CASE q # r
    <3>1. snap'[q] = snap[q]
      BY <1>5, <1>8, <2>1
    <3>2. q \notin scan' <=> q \notin scan
      BY <1>4, <2>1
    <3>3. ErrorRead(q)' => q \notin scan
      BY <1>4, <1>5, <2>1, <3>2 DEF ErrorRead, FieldAfter
    <3> QED BY <3>1, <3>2, <3>3 DEF SnapInv, ErrorRead
  <2>2. CASE q = r
    <3>1. JobOf(r) \in finished
      BY <1>8, <2>2 DEF SnapInv
    <3>2. fate[JobOf(r)] # "complete" => JobOf(r) \in result \cup canceled
      BY <1>6, <2>2, <3>1 DEF Inv, JobInv, WorkInv, Accounted, Over
    <3>3. CASE field \in {"curr", "finished"}
      BY <1>4, <2>2, <3>1, <3>3 DEF ErrorRead, FieldAfter
    <3>4. CASE field = "error"
      BY <1>4, <1>8, <2>2, <3>1, <3>2, <3>4 DEF ErrorRead, FieldAfter
    <3>5. CASE field = "canceled"
      <4>1. ErrorRead(r)
        BY <1>4, <3>5 DEF ErrorRead
      <4> QED BY <1>4, <1>8, <2>2, <3>1, <3>5, <4>1 DEF SnapInv
    <3> QED BY <3>3, <3>4, <3>5 DEF DialogTypes, Field
  <2> QED BY <2>1, <2>2
<1> QED BY <1>7, <1>9, <1>10
(* A poll that saw every job finished knows how each of them ended.        *)
LEMMA PollKnows ==
  ASSUME Inv, Own, polling, scan = {}
  PROVE  /\ SnapshotIsConsistent
         /\ AllFinished => ~IsRendering
         /\ AllFinished /\ ~AnyError /\ ~AnyCanceled =>
               \A j \in renderJobs : fate[j] = "complete" /\ j \in finished
<1>1. gui # "starting"
  BY DEF Own, ControlInv
<1>2. \A j \in renderJobs : j[2] \in JobRows /\ j = JobOf(j[2])
  BY <1>1, CurrentJobs
<1> QED BY <1>2 DEF Own, SnapInv, ErrorRead, SnapshotIsConsistent, AllFinished,
              AnyError, AnyCanceled, IsRendering

(* A poll ends.                                                            *)
LEMMA UpdateOwn ==
  ASSUME Inv, Inv', Own, UpdateRunning \/ UpdateDone
  PROVE  Own'
<1> USE DEF Own
<1>1. UNCHANGED <<vars, modelRows, field, scan, log>>
  BY DEF UpdateRunning, UpdateDone
<1>2. /\ JobRows' = JobRows /\ (IsRendering' <=> IsRendering)
      /\ UNCHANGED <<renderJobs, gui, finished, fate>>
  BY <1>1 DEF vars, guiVars, workVars, futureVars, JobRows, IsRendering
<1>3. polling /\ scan = {} /\ field = "curr" /\ polling' = FALSE /\ snap' = Nothing
  BY DEF UpdateRunning, UpdateDone, SnapInv
<1>4. SnapInv'
  BY <1>1, <1>2, <1>3, NothingSeen, RowsOfJobs DEF SnapInv
<1>5. Nothing \in [Row -> ProgressState]
  BY DEF Nothing, Unread, ProgressState
<1>6. CASE UpdateRunning
  <2>1. DialogTypes'
    BY <1>1, <1>3, <1>5, <1>6 DEF UpdateRunning, DialogTypes
  <2>2. ControlInv' /\ SuccessIsReal'
    BY <1>1, <1>2, <1>3, <1>6 DEF UpdateRunning, ControlInv, SuccessIsReal, DialogTypes
  <2> QED BY <1>4, <2>1, <2>2
<1>7. CASE UpdateDone
  <2>1. ~IsRendering /\ dlg = "shown"
    BY <1>3, <1>7, PollKnows DEF UpdateDone
  <2>2. CASE ui.closeOnEnd
    <3>1. dlg' = "none" /\ ui' = FreshUi(FALSE) /\ posted' = {}
      BY <1>7, <2>2 DEF UpdateDone, CloseDialog
    <3>2. DialogTypes'
      <4>1. FreshUi(FALSE) \in Ui
        BY DEF FreshUi, Ui
      <4> QED BY <1>1, <1>3, <1>5, <3>1, <4>1 DEF DialogTypes
    <3>3. ControlInv' /\ SuccessIsReal'
      BY <1>1, <1>2, <1>3, <2>1, <3>1 DEF ControlInv, SuccessIsReal, FreshUi
    <3> QED BY <1>4, <3>2, <3>3
  <2>3. CASE ~ui.closeOnEnd
    <3>1. /\ UNCHANGED <<dlg, posted>>
          /\ ui' = [ui EXCEPT !.isDone = TRUE, !.timer = FALSE,
                              !.hasErrors = HasErrors, !.cancelBox = FALSE,
                              !.doneBox = ~AnyCanceled]
      BY <1>7, <2>3 DEF UpdateDone
    <3>2. HasErrors \in BOOLEAN /\ (~AnyCanceled) \in BOOLEAN
      BY DEF HasErrors, AnyCanceled
    <3>3. ui' \in Ui /\ ui'.isDone /\ (ui'.hasErrors <=> HasErrors)
          /\ (ui'.doneBox <=> ~AnyCanceled)
      BY <3>1, <3>2 DEF DialogTypes, Ui
    <3>4. DialogTypes'
      BY <1>1, <1>3, <1>5, <3>1, <3>3 DEF DialogTypes
    <3>5. ControlInv'
      BY <1>1, <1>2, <1>3, <2>1, <3>1, <3>3 DEF ControlInv
    <3>6. SuccessIsReal'
      BY <1>2, <1>3, <1>7, <3>3, PollKnows DEF SuccessIsReal, HasErrors, UpdateDone
    <3> QED BY <1>4, <3>4, <3>5, <3>6
  <2> QED BY <2>2, <2>3
<1> QED BY <1>6, <1>7

(* Input of the user and events, none of them while a poll is on.          *)
LEMMA UserOwn ==
  ASSUME Inv, Inv', Own, User \/ \E j \in Job : ResultReady(j)
  PROVE  Own'
<1> USE DEF Own
<1>0. JobRows' \subseteq Row
  BY DEF Inv, TypeOK, JobRows
<1>1. CASE \E rows \in SUBSET Row : OnRender(rows)
  <2>1. /\ dlg = "none" /\ dlg' = "starting" /\ gui' = "starting"
        /\ UNCHANGED <<modelRows, polling, scan, field, snap, ui, posted, log>>
    BY <1>1 DEF OnRender, HasControl, StartRender
  <2>2. ~polling /\ ~ui.isDone /\ ~ui.doneBox
    BY <2>1 DEF ControlInv
  <2>3. DialogTypes' /\ ControlInv' /\ SuccessIsReal'
    BY <2>1, <2>2 DEF DialogTypes, ControlInv, SuccessIsReal
  <2>4. SnapInv'
    BY <2>1, <2>2, <1>0, NothingSeen DEF SnapInv, Nothing
  <2> QED BY <2>3, <2>4
<1>2. CASE OnRenderFails \/ OnLoadPath
  <2>1. /\ dlg = "none" /\ gui' = gui /\ renderJobs' = {}
        /\ UNCHANGED dialogVars
    BY <1>2 DEF OnRenderFails, OnLoadPath, HasControl, StartRenderFails, LoadPath,
                ClearJobs
  <2>2. ~polling /\ ~ui.isDone /\ ~ui.doneBox
    BY <2>1 DEF ControlInv
  <2>3. DialogTypes' /\ ControlInv' /\ SuccessIsReal'
    BY <2>1, <2>2 DEF dialogVars, DialogTypes, ControlInv, SuccessIsReal, IsRendering
  <2>4. SnapInv'
    BY <2>1, <2>2, <1>0, NothingSeen DEF dialogVars, SnapInv, Nothing
  <2> QED BY <2>3, <2>4
<1>3. CASE ClickCancel \/ AcceptCancel
  <2>1. /\ dlg = "shown" /\ ~polling /\ gui' = "canceling" /\ CancelRender
        /\ UNCHANGED <<dlg, modelRows, polling, scan, field, snap, posted, log>>
        /\ \/ ui' = ui
           \/ ui' = [ui EXCEPT !.cancelBox = FALSE, !.closeOnEnd = TRUE]
    BY <1>3 DEF ClickCancel, AcceptCancel, CancelRender, InDialog, EventLoop, dialogVars
  <2>2. UNCHANGED <<renderJobs, finished, fate>>
    BY <2>1 DEF CancelRender, workVars, futureVars
  <2>3. JobRows' = JobRows /\ (IsRendering' <=> IsRendering)
    BY <2>2 DEF JobRows, IsRendering
  <2>4. ui' \in Ui /\ ui'.isDone = ui.isDone /\ ui'.doneBox = ui.doneBox
        /\ ui'.hasErrors = ui.hasErrors
    BY <2>1 DEF DialogTypes, Ui
  <2>5. DialogTypes' /\ ControlInv' /\ SuccessIsReal'
    BY <2>1, <2>2, <2>3, <2>4 DEF DialogTypes, ControlInv, SuccessIsReal
  <2>6. SnapInv'
    BY <2>1, <1>0, NothingSeen DEF SnapInv, Nothing
  <2> QED BY <2>5, <2>6
<1>4. CASE PromptForCancel \/ RejectCancel \/ \E j \in Job : ResultReady(j)
  <2>1. /\ ~polling
        /\ UNCHANGED <<vars, dlg, modelRows, polling, scan, field, snap>>
        /\ posted' \subseteq posted /\ log' \in SUBSET Job
        /\ \E b \in BOOLEAN : ui' = [ui EXCEPT !.cancelBox = b]
    <3>1. ui = [ui EXCEPT !.cancelBox = ui.cancelBox] /\ ui.cancelBox \in BOOLEAN
      BY DEF DialogTypes, Ui
    <3> QED BY <1>4, <3>1 DEF PromptForCancel, RejectCancel, ResultReady, InDialog,
                              EventLoop, DialogTypes
  <2>2. UNCHANGED <<renderJobs, finished, fate, gui>>
        /\ JobRows' = JobRows /\ (IsRendering' <=> IsRendering)
    BY <2>1 DEF vars, guiVars, workVars, futureVars, JobRows, IsRendering
  <2>3. ui' \in Ui /\ ui'.isDone = ui.isDone /\ ui'.doneBox = ui.doneBox
        /\ ui'.hasErrors = ui.hasErrors
    BY <2>1 DEF DialogTypes, Ui
  <2>4. DialogTypes' /\ ControlInv' /\ SuccessIsReal'
    BY <2>1, <2>2, <2>3 DEF DialogTypes, ControlInv, SuccessIsReal
  <2>5. SnapInv'
    BY <2>1, <1>0, NothingSeen DEF SnapInv, Nothing
  <2> QED BY <2>4, <2>5
<1>5. CASE CloseWhenDone \/ DismissDone
  <2>1. /\ ~polling /\ dlg = "shown" /\ ui.isDone
        /\ UNCHANGED <<vars, modelRows, polling, scan, field, snap, log>>
        /\ \/ CloseDialog
           \/ ui' = [ui EXCEPT !.doneBox = FALSE] /\ UNCHANGED <<dlg, posted>>
    BY <1>5 DEF CloseWhenDone, DismissDone, InDialog, EventLoop, ControlInv
  <2>2. UNCHANGED <<renderJobs, finished, fate, gui>>
        /\ JobRows' = JobRows /\ (IsRendering' <=> IsRendering)
    BY <2>1 DEF vars, guiVars, workVars, futureVars, JobRows, IsRendering
  <2>3. SnapInv'
    BY <2>1, <1>0, NothingSeen DEF SnapInv, Nothing
  <2>4. CASE CloseDialog
    <3>1. FreshUi(FALSE) \in Ui /\ ~FreshUi(FALSE).isDone /\ ~FreshUi(FALSE).doneBox
      BY DEF FreshUi, Ui
    <3>2. dlg' = "none" /\ ui' = FreshUi(FALSE) /\ posted' = {}
      BY <2>4 DEF CloseDialog
    <3>3. gui = "idle"
      BY <1>5 DEF CloseWhenDone, DismissDone, InDialog, EventLoop
    <3>4. DialogTypes' /\ ControlInv' /\ SuccessIsReal'
      BY <2>1, <2>2, <3>1, <3>2, <3>3 DEF DialogTypes, ControlInv, SuccessIsReal
    <3> QED BY <2>3, <3>4
  <2>5. CASE ui' = [ui EXCEPT !.doneBox = FALSE] /\ UNCHANGED <<dlg, posted>>
    <3>1. ui' \in Ui /\ ui'.isDone = ui.isDone /\ ~ui'.doneBox
      BY <2>5 DEF DialogTypes, Ui
    <3>2. DialogTypes' /\ ControlInv' /\ SuccessIsReal'
      BY <2>1, <2>2, <2>5, <3>1 DEF DialogTypes, ControlInv, SuccessIsReal
    <3> QED BY <2>3, <3>2
  <2> QED BY <2>1, <2>4, <2>5
<1> QED BY <1>1, <1>2, <1>3, <1>4, <1>5 DEF User

LEMMA OwnInvariance == DialogSpec => []Own
<1>1. DialogInit => Own
  <2> SUFFICES ASSUME DialogInit PROVE Own
    OBVIOUS
  <2>1. Nothing \in [Row -> ProgressState] /\ FreshUi(FALSE) \in Ui
    BY DEF Nothing, Unread, ProgressState, FreshUi, Ui
  <2>2. JobRows = {} /\ ~IsRendering
    BY DEF DialogInit, Init, JobRows, IsRendering
  <2>3. DialogTypes
    BY <2>1 DEF DialogInit, DialogTypes, Field
  <2>4. ControlInv /\ SnapInv /\ SuccessIsReal
    BY <2>2 DEF DialogInit, Init, ControlInv, SnapInv, SuccessIsReal, FreshUi
  <2> QED BY <2>3, <2>4 DEF Own
<1>2. Inv /\ Inv' /\ WorkInv /\ Own /\ [DialogNext]_allVars => Own'
  <2> SUFFICES ASSUME Inv, Inv', WorkInv, Own, [DialogNext]_allVars PROVE Own'
    OBVIOUS
  <2>1. CASE UNCHANGED allVars
    BY <2>1 DEF allVars, dialogVars, vars, guiVars, workVars, futureVars, Own,
                DialogTypes, ControlInv, SnapInv, SuccessIsReal, IsRendering,
                JobRows, JobOf, ErrorRead
  <2> QED BY <2>1, WorkerOwn, BackendOwn, PollOwn, ReadOwn, UpdateOwn, UserOwn
          DEF DialogNext, DialogLoop
<1> QED BY <1>1, <1>2, DialogJobs, PTL DEF DialogSpec

-------------------------------------------------------------------------------
(* The theorems.                                                           *)

(* Every variable keeps its type, those of the jobs and of the dialog.     *)
THEOREM DialogTypeCorrect == DialogSpec => []DialogTypeOK
<1>1. Inv /\ Own => DialogTypeOK
  BY DEF Inv, Own, DialogTypes, DialogTypeOK
<1> QED BY <1>1, DialogJobs, OwnInvariance, PTL

(* Whoever clicks what and however the threads run, the main window is     *)
(* blocked while a job is unfinished.                                      *)
THEOREM RenderHasDialogHolds == DialogSpec => []RenderHasDialog
<1>1. Own => RenderHasDialog
  BY DEF Own, ControlInv, RenderHasDialog
<1> QED BY <1>1, OwnInvariance, PTL

(* JobModel never meets a list of jobs it was not sized for.               *)
THEOREM JobModelFitsHolds == DialogSpec => []JobModelFits
<1>1. Own => JobModelFits
  BY DEF Own, ControlInv, JobModelFits
<1> QED BY <1>1, OwnInvariance, PTL

(* Reading finished before error and canceled is enough, without a lock    *)
(* around the three reads.                                                 *)
THEOREM SnapshotHolds == DialogSpec => []SnapshotIsConsistent
<1>1. Inv /\ Own => SnapshotIsConsistent
  BY PollKnows DEF SnapshotIsConsistent
<1> QED BY <1>1, DialogJobs, OwnInvariance, PTL

(* The popup never claims a success that is not one.                       *)
THEOREM SuccessHolds == DialogSpec => []SuccessIsReal
<1>1. Own => SuccessIsReal
  BY DEF Own
<1> QED BY <1>1, OwnInvariance, PTL

-------------------------------------------------------------------------------
(* What DialogGetsDone, CancelCloses and ErrorGetsLogged need besides      *)
(* fairness: nothing that the dialog waits for gets lost on the way.       *)

DialogExists == dlg \in {"hidden", "shown"}

(* The timer goes on until the dialog is done, and a prompt that is open   *)
(* or was accepted belongs to a dialog that is not done.                   *)
TimerRuns ==
    /\ DialogExists => ui.timer \/ ui.isDone
    /\ ui.cancelBox \/ ui.closeOnEnd => dlg = "shown" /\ ~ui.isDone

(* An accepted prompt cancels every job, or cancel_render still will.      *)
CancelReachesAll ==
    ui.closeOnEnd =>
        \A j \in renderJobs : j \in canceled \/ (gui = "canceling" /\ j[2] \in todo)

(* The error of a job of this render is shown, on its way to the log, or   *)
(* dropped because of a cancellation.                                      *)
ErrorsArrive ==
    DialogExists => \A j \in renderJobs : j \in result => j \in posted \cup log \cup canceled

Promises == TimerRuns /\ CancelReachesAll /\ ErrorsArrive

LEMMA WorkerPromises ==
  ASSUME Inv, Own, Promises, NEW j \in Job, WorkerStep(j)
  PROVE  Promises'
<1>1. /\ UNCHANGED <<guiVars, dlg, ui, log>>
      /\ canceled \subseteq canceled'
      /\ posted' = IF DialogExists THEN posted \cup (result' \ result) ELSE posted
  BY Growth DEF WorkerStep, DialogExists
<1> QED BY <1>1 DEF guiVars, Promises, TimerRuns, CancelReachesAll, ErrorsArrive,
            DialogExists

LEMMA BackendPromises ==
  ASSUME Inv, Own, Promises, BackendLoop
  PROVE  Promises'
<1> USE DEF BackendLoop, dialogVars, Promises
<1>1. TimerRuns'
  BY DEF TimerRuns, DialogExists
<1>2. CASE StartJob
  <2>1. ~DialogExists /\ ~ui.closeOnEnd
    BY <1>2 DEF StartJob, Own, ControlInv, DialogExists, TimerRuns
  <2> QED BY <1>1, <2>1 DEF CancelReachesAll, ErrorsArrive, DialogExists
<1>3. CASE CancelJob
  <2>1. PICK r \in todo : todo' = todo \ {r} /\ canceled' = canceled \cup {<<renders, r>>}
    BY <1>3 DEF CancelJob
  <2>2. UNCHANGED <<renderJobs, gui, result>> /\ gui = "canceling"
    BY <1>3 DEF CancelJob
  <2>3. \A j \in renderJobs : j = <<renders, j[2]>>
    BY <2>2 DEF Inv, LoopInv
  <2> QED BY <1>1, <2>1, <2>2, <2>3 DEF CancelReachesAll, ErrorsArrive, DialogExists
<1>4. CASE LoopDone
  <2>1. UNCHANGED <<renderJobs, result, canceled, todo>> /\ todo = {}
    BY <1>4 DEF LoopDone, workVars, futureVars
  <2> QED BY <1>1, <2>1 DEF CancelReachesAll, ErrorsArrive, DialogExists
<1> QED BY <1>2, <1>3, <1>4 DEF GuiLoop

(* A poll: it begins, reads, and ends with jobs still running or not.      *)
LEMMA PollPromises ==
  ASSUME Inv, Own, Promises,
         OpenDialog \/ TimerFires \/ ReadField \/ UpdateRunning \/ UpdateDone
  PROVE  Promises'
<1> USE DEF Promises
<1>1. UNCHANGED <<renderJobs, gui, todo, canceled, result, log>>
  BY DEF OpenDialog, TimerFires, ReadField, UpdateRunning, UpdateDone, vars,
         guiVars, workVars, futureVars
<1>2. CASE OpenDialog
  <2>1. ~ui.closeOnEnd /\ ~ui.cancelBox
    BY <1>2 DEF OpenDialog, TimerRuns
  <2>2. \/ /\ dlg' = "hidden" /\ ui' = FreshUi(TRUE)
           /\ posted' = result \cap renderJobs
        \/ dlg' = "none" /\ ui' = ui
    BY <1>2 DEF OpenDialog, ResultsAtStart
  <2> QED BY <1>1, <2>1, <2>2
          DEF TimerRuns, CancelReachesAll, ErrorsArrive, DialogExists, FreshUi
<1>3. CASE TimerFires \/ ReadField \/ UpdateRunning
  <2>1. UNCHANGED <<ui, posted>> /\ (dlg' = dlg \/ (DialogExists /\ dlg' = "shown"))
    BY <1>3 DEF TimerFires, ReadField, UpdateRunning, Own, ControlInv, DialogTypes,
                DialogExists
  <2> QED BY <1>1, <2>1 DEF TimerRuns, CancelReachesAll, ErrorsArrive, DialogExists
<1>4. CASE UpdateDone
  <2>1. CASE ui.closeOnEnd
    <3>1. dlg' = "none" /\ ui' = FreshUi(FALSE)
      BY <1>4, <2>1 DEF UpdateDone, CloseDialog
    <3> QED BY <3>1 DEF TimerRuns, CancelReachesAll, ErrorsArrive, DialogExists, FreshUi
  <2>2. CASE ~ui.closeOnEnd
    <3>1. /\ UNCHANGED <<dlg, posted>>
          /\ ui' = [ui EXCEPT !.isDone = TRUE, !.timer = FALSE,
                              !.hasErrors = HasErrors, !.cancelBox = FALSE,
                              !.doneBox = ~AnyCanceled]
      BY <1>4, <2>2 DEF UpdateDone
    <3>2. ui'.isDone /\ ~ui'.cancelBox /\ ui'.closeOnEnd = ui.closeOnEnd
      BY <3>1 DEF Own, DialogTypes, Ui
    <3> QED BY <1>1, <2>2, <3>1, <3>2
            DEF TimerRuns, CancelReachesAll, ErrorsArrive, DialogExists
  <2> QED BY <2>1, <2>2
<1> QED BY <1>2, <1>3, <1>4

LEMMA UserPromises ==
  ASSUME Inv, Own, Promises, User \/ \E j \in Job : ResultReady(j)
  PROVE  Promises'
<1> USE DEF Promises
<1>0. ui \in Ui
  BY DEF Own, DialogTypes
<1>1. CASE \E rows \in SUBSET Row : OnRender(rows)
  <2>1. dlg = "none" /\ dlg' = "starting" /\ UNCHANGED ui
    BY <1>1 DEF OnRender, HasControl
  <2> QED BY <2>1 DEF TimerRuns, CancelReachesAll, ErrorsArrive, DialogExists
<1>2. CASE OnRenderFails \/ OnLoadPath
  <2>1. dlg = "none" /\ UNCHANGED <<dlg, ui>>
    BY <1>2 DEF OnRenderFails, OnLoadPath, HasControl, dialogVars
  <2> QED BY <2>1 DEF TimerRuns, CancelReachesAll, ErrorsArrive, DialogExists
<1>3. CASE ClickCancel \/ AcceptCancel
  <2>1. /\ dlg = "shown" /\ ~ui.isDone /\ UNCHANGED <<dlg, posted, log>>
        /\ CancelRender
        /\ \/ ui' = ui
           \/ ui' = [ui EXCEPT !.cancelBox = FALSE, !.closeOnEnd = TRUE]
    BY <1>3 DEF ClickCancel, AcceptCancel, InDialog, dialogVars, TimerRuns
  <2>2. ui'.timer = ui.timer /\ ui'.isDone = ui.isDone
    BY <1>0, <2>1 DEF Ui
  <2>3. /\ gui' = "canceling" /\ renderJobs' = renderJobs
        /\ \A j \in renderJobs : j[2] \in todo'
        /\ UNCHANGED <<result, canceled>>
    BY <2>1 DEF CancelRender, futureVars
  <2> QED BY <2>1, <2>2, <2>3 DEF TimerRuns, CancelReachesAll, ErrorsArrive, DialogExists
<1>4. CASE PromptForCancel \/ RejectCancel
  <2>1. /\ UNCHANGED <<vars, dlg, posted, log>> /\ dlg = "shown"
        /\ \E b \in BOOLEAN : ui' = [ui EXCEPT !.cancelBox = b] /\ (b => ~ui.isDone)
    BY <1>4 DEF PromptForCancel, RejectCancel, InDialog
  <2>2. /\ ui'.timer = ui.timer /\ ui'.isDone = ui.isDone
        /\ ui'.closeOnEnd = ui.closeOnEnd
        /\ ui'.cancelBox => ~ui.isDone
    BY <1>0, <2>1 DEF Ui
  <2>3. UNCHANGED <<renderJobs, gui, todo, canceled, result>>
    BY <2>1 DEF vars, guiVars, futureVars
  <2> QED BY <2>1, <2>2, <2>3 DEF TimerRuns, CancelReachesAll, ErrorsArrive, DialogExists
<1>5. CASE CloseWhenDone \/ DismissDone
  <2>1. UNCHANGED vars /\ log' = log /\ dlg = "shown"
    BY <1>5 DEF CloseWhenDone, DismissDone, InDialog
  <2>2. UNCHANGED <<renderJobs, gui, todo, canceled, result>>
    BY <2>1 DEF vars, guiVars, futureVars
  <2>3. CASE CloseDialog
    BY <2>3 DEF CloseDialog, FreshUi, TimerRuns, CancelReachesAll, ErrorsArrive, DialogExists
  <2>4. CASE ui' = [ui EXCEPT !.doneBox = FALSE] /\ UNCHANGED <<dlg, posted>>
    <3>1. /\ ui'.timer = ui.timer /\ ui'.isDone = ui.isDone
          /\ ui'.closeOnEnd = ui.closeOnEnd /\ ui'.cancelBox = ui.cancelBox
      BY <1>0, <2>4 DEF Ui
    <3> QED BY <2>1, <2>2, <2>4, <3>1
            DEF TimerRuns, CancelReachesAll, ErrorsArrive, DialogExists
  <2> QED BY <1>5, <2>3, <2>4 DEF CloseWhenDone, DismissDone
<1>6. CASE \E j \in Job : ResultReady(j)
  <2>1. PICK j \in Job : ResultReady(j)
    BY <1>6
  <2>2. /\ UNCHANGED <<vars, dlg, ui>> /\ posted' = posted \ {j}
        /\ log' = IF j \in canceled THEN log ELSE log \cup {j}
    BY <2>1 DEF ResultReady
  <2>3. UNCHANGED <<renderJobs, gui, todo, canceled, result>>
    BY <2>2 DEF vars, guiVars, futureVars
  <2> QED BY <2>2, <2>3 DEF TimerRuns, CancelReachesAll, ErrorsArrive, DialogExists
<1> QED BY <1>1, <1>2, <1>3, <1>4, <1>5, <1>6 DEF User

(* The dialog keeps its promises: its timer runs until it has seen the     *)
(* end, a cancel that was accepted spares no job, and no error disappears  *)
(* between its future and the log, even one that was reported before the   *)
(* watchers existed.                                                       *)
THEOREM PromisesHold == DialogSpec => []Promises
<1>1. DialogInit => Promises
  BY DEF DialogInit, Promises, TimerRuns, CancelReachesAll, ErrorsArrive,
         DialogExists, FreshUi
<1>2. Inv /\ Own /\ Promises /\ [DialogNext]_allVars => Promises'
  <2> SUFFICES ASSUME Inv, Own, Promises, [DialogNext]_allVars PROVE Promises'
    OBVIOUS
  <2>1. CASE UNCHANGED allVars
    BY <2>1 DEF allVars, dialogVars, vars, guiVars, futureVars, Promises, TimerRuns,
                CancelReachesAll, ErrorsArrive, DialogExists
  <2> QED BY <2>1, WorkerPromises, BackendPromises, PollPromises, UserPromises
          DEF DialogNext, DialogLoop
<1> QED BY <1>1, <1>2, DialogJobs, OwnInvariance, PTL DEF DialogSpec

(* When the dialog goes away, no job of this or an earlier render is still *)
(* at work, all of its render are finished, and every error has been       *)
(* written to its log, or the job was canceled.  So errors stay unseen     *)
(* only in the way that ErrorsWereShown is violated: when there is no      *)
(* dialog.                                                                 *)
ClosesInformed ==
    DialogExists /\ dlg' = "none" =>
        /\ \A j \in Job : ~Live(j)
        /\ \A j \in renderJobs :
              j \in finished /\ (j \in result => j \in log \cup canceled)

(* The dialog goes away when a poll has seen all jobs finished.            *)
LEMMA ClosesFinished ==
  ASSUME Inv, Own, [DialogNext]_allVars, DialogExists, dlg' = "none"
  PROVE  \A j \in renderJobs : j \in finished
<1>1. \/ UpdateDone
      \/ ui.isDone
  BY DEF DialogNext, WorkerStep, DialogLoop, BackendLoop, dialogVars,
         OpenDialog, ReadField, UpdateRunning, TimerFires,
         ResultReady, User, OnRender, OnRenderFails, OnLoadPath,
         HasControl, ClickCancel, PromptForCancel, CloseWhenDone, InDialog,
         AcceptCancel, RejectCancel, DismissDone, allVars, DialogExists,
         Own, ControlInv
<1>2. CASE UpdateDone
  <2>1. gui # "starting"
    BY DEF DialogExists, Own, ControlInv
  <2> TAKE j \in renderJobs
  <2>2. j[2] \in JobRows /\ j = JobOf(j[2])
    BY <2>1, CurrentJobs
  <2>3. snap[j[2]].finished
    BY <1>2, <2>2 DEF UpdateDone, AllFinished
  <2> QED BY <2>2, <2>3 DEF Own, SnapInv
<1>3. CASE ui.isDone
  BY <1>3 DEF Own, ControlInv, IsRendering
<1> QED BY <1>1, <1>2, <1>3

THEOREM ClosesInformedHolds == DialogSpec => [][ClosesInformed]_allVars
<1>1. ASSUME Inv, Own, Promises, [DialogNext]_allVars PROVE ClosesInformed
  <2> SUFFICES ASSUME DialogExists, dlg' = "none"
               PROVE  /\ \A j \in Job : ~Live(j)
                      /\ \A j \in renderJobs :
                            j \in finished /\ (j \in result => j \in log \cup canceled)
    BY DEF ClosesInformed
  <2>1. \/ UpdateDone /\ ui.closeOnEnd
        \/ posted = {}
    BY <1>1 DEF DialogNext, WorkerStep, DialogLoop, BackendLoop, dialogVars,
                OpenDialog, ReadField, UpdateRunning, UpdateDone, TimerFires,
                ResultReady, User, OnRender, OnRenderFails, OnLoadPath,
                HasControl, ClickCancel, PromptForCancel, CloseWhenDone,
                AcceptCancel, RejectCancel, DismissDone, allVars, DialogExists
  <2>2. \A j \in renderJobs : j \in result => j \in log \cup canceled
    <3>1. CASE UpdateDone /\ ui.closeOnEnd
      BY <1>1, <3>1 DEF UpdateDone, Own, ControlInv, Promises, CancelReachesAll
    <3>2. CASE posted = {}
      BY <1>1, <3>2 DEF Promises, ErrorsArrive
    <3> QED BY <2>1, <3>1, <3>2
  <2>3. \A j \in renderJobs : j \in finished
    BY <1>1, ClosesFinished
  <2>4. \A j \in Job : ~Live(j)
    <3>1. NoOrphan
      BY <1>1 DEF Inv, JobInv, NoOrphan, Live, Over
    <3> QED BY <2>3, <3>1 DEF NoOrphan
  <2> QED BY <2>2, <2>3, <2>4
<1>2. Inv /\ Own /\ Promises /\ [DialogNext]_allVars => ClosesInformed
  BY <1>1
<1> QED BY <1>2, DialogJobs, OwnInvariance, PromisesHold, PTL DEF DialogSpec

==============================================================================
