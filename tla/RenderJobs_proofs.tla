--------------------------- MODULE RenderJobs_proofs ---------------------------
(***************************************************************************)
(* Proofs about RenderJobs, for every number of rows, threads, renders,    *)
(* frames, and every buffer length and sample rate.                        *)
(***************************************************************************)
EXTENDS RenderJobs, TLAPS

-------------------------------------------------------------------------------
(* The inductive invariant.                                                *)

(* The GUI loops: which rows they still have to visit, and what the list   *)
(* of jobs holds meanwhile.                                                *)
LoopInv ==
    /\ gui = "idle" => todo = {}
    /\ todo # {} => renders \in 1..MaxRenders
    /\ renderJobs # {} => renders \in 1..MaxRenders
    /\ todo \subseteq enabled
    /\ gui = "starting" => renderJobs = {<<renders, r>> : r \in enabled \ todo}
    /\ gui # "starting" =>
          renderJobs = {} \/ renderJobs = {<<renders, r>> : r \in enabled}

(* The jobs of earlier renders are over; those of the current render are   *)
(* made, then in the list until they are over.                             *)
JobInv ==
    \A j \in Job :
        /\ pc[j] # "unborn" => j[1] <= renders
        /\ pc[j] = "made" => gui = "starting" /\ j[1] = renders /\ j[2] \in todo
        /\ gui = "starting" /\ j[1] = renders /\ j[2] \in todo => pc[j] = "made"
        /\ Live(j) => j \in renderJobs
        /\ j \in finished <=> Over(j)

(* A file is open only inside callback().                                  *)
FileInv ==
    \A j \in openFiles :
        pc[j] \in {"check", "render", "progress", "close", "report", "unwind"}

Inv == TypeOK /\ LoopInv /\ JobInv /\ FileInv

-------------------------------------------------------------------------------
(* Type correctness and the invariant.                                     *)

USE DEF Row, Job

LEMMA InitInv == Init => Inv
  BY RenderAssumption DEF Init, Inv, TypeOK, LoopInv, JobInv, FileInv, PC, Fate, Live, Over

(* Nothing is live when the GUI thread is idle and is_rendering() is false.*)
LEMMA Quiescent ==
  ASSUME Inv, gui = "idle", MayReplaceJobs
  PROVE  \A j \in Job : pc[j] = "unborn" \/ Over(j)
  BY DEF Inv, TypeOK, JobInv, MayReplaceJobs, IsRendering, Live

LEMMA StartRenderInv ==
  ASSUME Inv, NEW rows \in SUBSET Row, StartRender(rows)
  PROVE  Inv'
<1> USE RenderAssumption DEF Inv, StartRender, ClearJobs, workVars, futureVars
<1>1. \A j \in Job : pc[j] = "unborn" \/ Over(j)
  BY Quiescent
<1>2. TypeOK'
  BY DEF TypeOK, PC
<1>3. LoopInv'
  BY DEF TypeOK, LoopInv
<1>4. JobInv'
  BY <1>1 DEF TypeOK, LoopInv, JobInv, Live, Over
<1>5. FileInv'
  BY <1>1 DEF TypeOK, FileInv, JobInv, Over
<1> QED BY <1>2, <1>3, <1>4, <1>5

LEMMA ClearInv ==
  ASSUME Inv, StartRenderFails \/ LoadPath
  PROVE  Inv'
<1> USE DEF Inv, StartRenderFails, LoadPath, ClearJobs, workVars, futureVars
<1>1. \A j \in Job : pc[j] = "unborn" \/ Over(j)
  BY Quiescent
<1>2. TypeOK' /\ LoopInv' /\ FileInv'
  BY DEF TypeOK, LoopInv, FileInv
<1>3. JobInv'
  BY <1>1 DEF JobInv, Live, Over
<1> QED BY <1>2, <1>3

LEMMA StartJobInv ==
  ASSUME Inv, StartJob
  PROVE  Inv'
<1> USE RenderAssumption DEF Inv, StartJob, workVars, futureVars
<1>1. PICK r \in todo :
        /\ todo' = todo \ {r}
        /\ renderJobs' = renderJobs \cup {<<renders, r>>}
        /\ pc' = [pc EXCEPT ![<<renders, r>>] = PoolStart]
  OBVIOUS
<1>2. <<renders, r>> \in Job /\ pc[<<renders, r>>] = "made"
  BY DEF TypeOK, LoopInv, JobInv
<1>3. PoolStart \in {"run", "queued"}
  BY DEF PoolStart
<1>4. TypeOK'
  BY <1>1, <1>2, <1>3 DEF TypeOK, PC
<1>5. LoopInv'
  BY <1>1, <1>2 DEF TypeOK, LoopInv
<1>6. JobInv'
  BY <1>1, <1>2, <1>3 DEF TypeOK, LoopInv, JobInv, Live, Over
<1>7. FileInv'
  BY <1>1, <1>2, <1>3 DEF TypeOK, FileInv
<1> QED BY <1>4, <1>5, <1>6, <1>7

LEMMA CancelInv ==
  ASSUME Inv, CancelRender \/ CancelJob
  PROVE  Inv'
<1> USE RenderAssumption DEF Inv, workVars, futureVars
<1>1. CASE CancelRender
  <2> USE <1>1 DEF CancelRender
  <2>1. TypeOK' /\ LoopInv' /\ FileInv'
    BY DEF TypeOK, LoopInv, FileInv
  <2>2. JobInv'
    BY DEF JobInv, Live, Over
  <2> QED BY <2>1, <2>2
<1>2. CASE CancelJob
  <2> USE <1>2 DEF CancelJob
  <2>1. TypeOK' /\ LoopInv' /\ FileInv'
    BY DEF TypeOK, LoopInv, FileInv
  <2>2. JobInv'
    BY DEF JobInv, Live, Over
  <2> QED BY <2>1, <2>2
<1> QED BY <1>1, <1>2

LEMMA LoopDoneInv ==
  ASSUME Inv, LoopDone
  PROVE  Inv'
<1> USE DEF Inv, LoopDone, workVars, futureVars
<1>1. TypeOK' /\ LoopInv' /\ FileInv'
  BY DEF TypeOK, LoopInv, FileInv
<1>2. JobInv'
  BY DEF JobInv, Live, Over
<1> QED BY <1>1, <1>2

(* Steps of a pool thread change no variable of the GUI thread.  What the  *)
(* step to pc[j] = to needs of the types is the same for all of them.      *)
LEMMA RunJobInv ==
  ASSUME Inv, NEW j \in Job, RunJob(j)
  PROVE  Inv'
<1> USE DEF Inv, RunJob, Goto, EndsWith, guiVars, futureVars
<1>1. TypeOK' /\ LoopInv' /\ FileInv'
  BY DEF TypeOK, LoopInv, FileInv, PC, Fate
<1>2. JobInv'
  BY DEF TypeOK, JobInv, Live, Over
<1> QED BY <1>1, <1>2

LEMMA OpenFileInv ==
  ASSUME Inv, NEW j \in Job, OpenFile(j)
  PROVE  Inv'
<1> USE DEF Inv, OpenFile, Goto, EndsWith, guiVars, futureVars
<1>1. TypeOK' /\ LoopInv' /\ FileInv'
  BY DEF TypeOK, LoopInv, FileInv, PC, Fate
<1>2. JobInv'
  BY DEF TypeOK, JobInv, Live, Over
<1> QED BY <1>1, <1>2

LEMMA CheckCanceledInv ==
  ASSUME Inv, NEW j \in Job, CheckCanceled(j)
  PROVE  Inv'
<1> USE DEF Inv, CheckCanceled, Goto, EndsWith, guiVars, futureVars
<1>1. TypeOK'
  BY DEF TypeOK, PC, Fate
<1>2. LoopInv' /\ FileInv'
  BY DEF TypeOK, LoopInv, FileInv
<1>3. JobInv'
  BY DEF TypeOK, JobInv, Live, Over
<1> QED BY <1>1, <1>2, <1>3

LEMMA RenderBufferInv ==
  ASSUME Inv, NEW j \in Job, RenderBuffer(j)
  PROVE  Inv'
<1> USE RenderAssumption DEF Inv, RenderBuffer, Frames, SongEnds, Goto, EndsWith, guiVars, futureVars
<1>1. TypeOK'
  BY DEF TypeOK, PC, Fate
<1>2. LoopInv' /\ FileInv'
  BY DEF TypeOK, LoopInv, FileInv
<1>3. JobInv'
  BY DEF TypeOK, JobInv, Live, Over
<1> QED BY <1>1, <1>2, <1>3

LEMMA ReportProgressInv ==
  ASSUME Inv, NEW j \in Job, ReportProgress(j)
  PROVE  Inv'
<1> USE RenderAssumption DEF Inv, ReportProgress, Goto, guiVars, workVars
<1>1. samp[j] \div SampleRate \in Nat
  BY DEF TypeOK
<1>2. TypeOK'
  BY <1>1 DEF TypeOK, PC, SetProgress
<1>3. LoopInv' /\ FileInv'
  BY DEF TypeOK, LoopInv, FileInv
<1>4. JobInv'
  BY DEF TypeOK, JobInv, Live, Over
<1> QED BY <1>2, <1>3, <1>4

LEMMA CloseFileInv ==
  ASSUME Inv, NEW j \in Job, CloseFile(j)
  PROVE  Inv'
<1> USE DEF Inv, CloseFile, Goto, EndsWith, guiVars, futureVars
<1>1. TypeOK'
  BY DEF TypeOK, PC, Fate
<1>2. LoopInv' /\ FileInv'
  BY DEF TypeOK, LoopInv, FileInv
<1>3. JobInv'
  BY DEF TypeOK, JobInv, Live, Over
<1> QED BY <1>1, <1>2, <1>3

LEMMA ReportErrorInv ==
  ASSUME Inv, NEW j \in Job, ReportError(j)
  PROVE  Inv'
<1> USE DEF Inv, ReportError, Goto, guiVars, workVars
<1>1. TypeOK' /\ LoopInv' /\ FileInv'
  BY DEF TypeOK, LoopInv, FileInv, PC
<1>2. JobInv'
  BY DEF TypeOK, JobInv, Live, Over
<1> QED BY <1>1, <1>2

LEMMA UnwindInv ==
  ASSUME Inv, NEW j \in Job, Unwind(j)
  PROVE  Inv'
<1> USE DEF Inv, Unwind, Goto, guiVars, futureVars
<1>1. TypeOK' /\ LoopInv' /\ FileInv'
  BY DEF TypeOK, LoopInv, FileInv, PC
<1>2. JobInv'
  BY DEF TypeOK, JobInv, Live, Over
<1> QED BY <1>1, <1>2

LEMMA ThrowInv ==
  ASSUME Inv, NEW j \in Job, Throw(j)
  PROVE  Inv'
<1> USE DEF Inv, Throw, Goto, EndsWith, guiVars, futureVars
<1>1. TypeOK' /\ LoopInv' /\ FileInv'
  BY DEF TypeOK, LoopInv, FileInv, PC, Fate
<1>2. JobInv'
  BY DEF TypeOK, JobInv, Live, Over
<1> QED BY <1>1, <1>2

LEMMA ReportExceptionInv ==
  ASSUME Inv, NEW j \in Job, ReportException(j)
  PROVE  Inv'
<1> USE DEF Inv, ReportException, Goto, guiVars, workVars
<1>1. TypeOK' /\ LoopInv' /\ FileInv'
  BY DEF TypeOK, LoopInv, FileInv, PC
<1>2. JobInv'
  BY DEF TypeOK, JobInv, Live, Over
<1> QED BY <1>1, <1>2

LEMMA ReportFinishedInv ==
  ASSUME Inv, NEW j \in Job, ReportFinished(j)
  PROVE  Inv'
<1> USE DEF Inv, ReportFinished, Goto, guiVars, workVars
<1>1. TypeOK' /\ LoopInv' /\ FileInv'
  BY DEF TypeOK, LoopInv, FileInv, PC
<1>2. JobInv'
  BY DEF TypeOK, JobInv, Live, Over
<1> QED BY <1>1, <1>2

LEMMA ThreadReturnsInv ==
  ASSUME Inv, NEW j \in Job, ThreadReturns(j)
  PROVE  Inv'
<1> USE DEF Inv, ThreadReturns, Queued, guiVars, workVars, futureVars
<1>1. TypeOK' /\ LoopInv' /\ FileInv'
  BY DEF TypeOK, LoopInv, FileInv, PC
<1>2. JobInv'
  BY DEF TypeOK, JobInv, Live, Over
<1> QED BY <1>1, <1>2

LEMMA StutterInv ==
  ASSUME Inv, UNCHANGED vars
  PROVE  Inv'
<1> USE DEF Inv, vars, guiVars, workVars, futureVars
<1>1. TypeOK' /\ LoopInv' /\ FileInv'
  BY DEF TypeOK, LoopInv, FileInv
<1>2. JobInv'
  BY DEF JobInv, Live, Over
<1> QED BY <1>1, <1>2

LEMMA NextInv == Inv /\ [Next]_vars => Inv'
<1> SUFFICES ASSUME Inv, [Next]_vars
             PROVE  Inv'
  OBVIOUS
<1>1. CASE \E rows \in SUBSET Row : StartRender(rows)
  BY <1>1, StartRenderInv
<1>2. CASE StartRenderFails \/ LoadPath
  BY <1>2, ClearInv
<1>3. CASE CancelRender
  BY <1>3, CancelInv
<1>4. CASE GuiLoop
  BY <1>4, StartJobInv, CancelInv, LoopDoneInv DEF GuiLoop
<1>5. CASE \E j \in Job : Worker(j)
  BY <1>5, RunJobInv, OpenFileInv, CheckCanceledInv, RenderBufferInv,
     ReportProgressInv, CloseFileInv, ReportErrorInv, UnwindInv, ThrowInv,
     ReportExceptionInv, ReportFinishedInv, ThreadReturnsInv
     DEF Worker
<1>6. CASE UNCHANGED vars
  BY <1>6, StutterInv
<1> QED BY <1>1, <1>2, <1>3, <1>4, <1>5, <1>6 DEF Next

LEMMA Invariance == Spec => []Inv
  BY InitInv, NextInv, PTL DEF Spec

(* Every variable keeps its type, whatever the interleaving of the GUI     *)
(* thread and the threads of the pool.                                     *)
THEOREM TypeCorrect == Spec => []TypeOK
  BY Invariance, PTL DEF Inv

(* start_render and load_path replace the list of jobs only when nothing   *)
(* runs, so is_rendering() and cancel_render() never miss a running job.   *)
THEOREM NoOrphanHolds == Spec => []NoOrphan
<1>1. Inv => NoOrphan
  BY DEF Inv, JobInv, NoOrphan, Live
<1> QED BY <1>1, Invariance, PTL

(* Two Wave_Writers never hold the same .wav file open, in one render or   *)
(* across renders: finished implies closed, and only unfinished jobs of    *)
(* the current render hold a file.                                         *)
THEOREM OneWriterPerFileHolds == Spec => []OneWriterPerFile
<1>1. Inv => OneWriterPerFile
  <2> SUFFICES ASSUME Inv, NEW j \in openFiles, NEW k \in openFiles, j[2] = k[2]
               PROVE  j = k
    BY DEF OneWriterPerFile
  <2>1. Live(j) /\ Live(k)
    BY DEF Inv, FileInv, Live, Over
  <2>2. j \in Job /\ k \in Job
    BY DEF Inv, TypeOK
  <2>3. j \in renderJobs /\ k \in renderJobs
    BY <2>1, <2>2 DEF Inv, JobInv
  <2>4. j[1] = renders /\ k[1] = renders
    BY <2>3 DEF Inv, LoopInv
  <2> QED BY <2>2, <2>4
<1> QED BY <1>1, Invariance, PTL

(* _render_jobs is empty or matches the rows enabled at the last render.   *)
THEOREM JobsMatchRowsHolds == Spec => []JobsMatchRows
<1>1. Inv => JobsMatchRows
  BY DEF Inv, LoopInv, JobsMatchRows
<1> QED BY <1>1, Invariance, PTL

-------------------------------------------------------------------------------
(* RenderJobs implements RenderBatch.                                      *)

phases == [j \in Job |-> Phase(j)]

(* A step in which only job j can change its phase moves or stutters.      *)
LEMMA OneMoves ==
  ASSUME NEW j \in Job, \A k \in Job \ {j} : Phase(k)' = Phase(k)
  PROVE  phases' = [phases EXCEPT ![j] = Phase(j)']
  BY DEF phases

LEMMA PhaseUnchanged ==
  ASSUME \A k \in Job : Phase(k)' = Phase(k)
  PROVE  phases' = phases
  BY DEF phases

(* A step of run() touches the phase of its own job only.                  *)
LEMMA OthersStay ==
  ASSUME Inv, NEW j \in Job,
         NEW from, NEW to, Goto(j, from, to),
         openFiles' \in {openFiles, openFiles \cup {j}, openFiles \ {j}}
  PROVE  \A k \in Job \ {j} : Phase(k)' = Phase(k)
  BY DEF Inv, TypeOK, Goto, Phase, Over

(* What the steps of one job do to its phase.                              *)
LEMMA LeaveStep ==
  ASSUME NEW j \in Job, \A k \in Job \ {j} : Phase(k)' = Phase(k),
         Phase(j) \in {"waiting", "writing"}, Phase(j)' = "ended"
  PROVE  Batch!Leave(j)
  BY OneMoves DEF phases, Batch!Leave, Batch!Move

LEMMA StutterStep ==
  ASSUME NEW j \in Job, \A k \in Job \ {j} : Phase(k)' = Phase(k),
         Phase(j)' = Phase(j)
  PROVE  phases' = phases
  BY DEF phases

LEMMA LaunchStep ==
  ASSUME Inv, StartJob
  PROVE  \E j \in Job : Batch!Launch(j)
<1> USE RenderAssumption DEF Inv, StartJob, workVars
<1>1. PICK r \in todo : pc' = [pc EXCEPT ![<<renders, r>>] = PoolStart]
  OBVIOUS
<1> DEFINE j == <<renders, r>>
<1>2. j \in Job /\ pc[j] = "made" /\ j \notin openFiles
  BY DEF TypeOK, LoopInv, JobInv, FileInv
<1>3. PoolStart \in {"run", "queued"}
  BY DEF PoolStart
<1>4. Phase(j) = "idle" /\ Phase(j)' = "waiting"
  BY <1>1, <1>2, <1>3 DEF TypeOK, Phase
<1>5. \A k \in Job \ {j} : Phase(k)' = Phase(k)
  BY <1>1, <1>2, <1>3 DEF TypeOK, Phase, Over
<1>6. ASSUME NEW k \in Job, k[1] # j[1]
      PROVE  Phase(k) \in {"idle", "over"}
  <2>1. k \notin renderJobs
    BY <1>6 DEF LoopInv
  <2>2. pc[k] \in {"unborn", "made"} \/ Over(k)
    BY <2>1 DEF JobInv, Live
  <2> QED BY <2>2 DEF Phase, Over, FileInv, TypeOK
<1>7. Batch!Launch(j)
  BY <1>2, <1>4, <1>5, <1>6, OneMoves
     DEF phases, Batch!Launch, Batch!Move, Batch!Resting, Batch!Job, Batch!Row
<1> QED BY <1>2, <1>7

(* Opening a file: no other job has the file of the same row open, since   *)
(* only jobs of the current render have one.                               *)
LEMMA OpenStep ==
  ASSUME Inv, NEW j \in Job, OpenFile(j)
  PROVE  Batch!OpenFile(j) \/ Batch!Leave(j)
<1> USE DEF Inv, OpenFile
<1>1. j \in renderJobs /\ j \notin openFiles /\ Phase(j) = "waiting"
  BY DEF Goto, JobInv, FileInv, Live, Over, Phase
<1>2. \A k \in Job \ {j} : Phase(k)' = Phase(k)
  BY OthersStay
<1>3. CASE Goto(j, "open", "check") /\ openFiles' = openFiles \cup {j}
  <2>1. Phase(j)' = "writing"
    BY <1>3 DEF Goto, TypeOK, Phase
  <2>2. ASSUME NEW k \in Job, k[2] = j[2], Phase(k) = "writing"
        PROVE  FALSE
    <3>1. k \in openFiles /\ k # j
      BY <1>1, <2>2 DEF Phase
    <3>2. k \in renderJobs
      BY <3>1 DEF FileInv, JobInv, Live, Over
    <3>3. k[1] = j[1]
      BY <1>1, <3>2 DEF LoopInv
    <3> QED BY <2>2, <3>1, <3>3
  <2>3. Batch!OpenFile(j)
    BY <1>1, <1>2, <2>1, <2>2, OneMoves
       DEF phases, Batch!OpenFile, Batch!Move, Batch!Job, Batch!Row
  <2> QED BY <2>3
<1>4. CASE Goto(j, "open", "report") /\ UNCHANGED openFiles
  <2>1. Phase(j)' = "ended"
    BY <1>1, <1>4 DEF Goto, TypeOK, Phase, Over
  <2> QED BY <1>1, <1>2, <2>1, LeaveStep
<1> QED BY <1>3, <1>4

LEMMA OverStep ==
  ASSUME Inv, NEW j \in Job, ReportFinished(j)
  PROVE  Batch!Over(j)
<1> USE DEF Inv, ReportFinished, workVars
<1>1. \A k \in Job \ {j} : Phase(k)' = Phase(k)
  BY OthersStay
<1>2. Phase(j) = "ended" /\ Phase(j)' = "over"
  BY DEF Goto, TypeOK, FileInv, Phase, Over
<1> QED BY <1>1, <1>2, OneMoves DEF phases, Batch!Over, Batch!Move

(* The steps of run() that leave callback(), or stay in it.                *)
LEMMA InsideStep ==
  ASSUME Inv, NEW j \in Job,
         \/ RunJob(j) \/ CheckCanceled(j) \/ RenderBuffer(j)
         \/ ReportProgress(j) \/ CloseFile(j) \/ ReportError(j)
         \/ Unwind(j) \/ Throw(j) \/ ReportException(j)
  PROVE  Batch!Leave(j) \/ phases' = phases
<1> USE DEF Inv
<1>1. CASE RunJob(j)
  <2>1. \A k \in Job \ {j} : Phase(k)' = Phase(k)
    BY <1>1, OthersStay DEF RunJob
  <2>2. Phase(j) = "waiting" /\ Phase(j)' \in {"waiting", "ended"}
    BY <1>1 DEF RunJob, Goto, TypeOK, FileInv, Phase, Over
  <2> QED BY <2>1, <2>2, LeaveStep, StutterStep
<1>2. CASE CheckCanceled(j) \/ RenderBuffer(j) \/ ReportProgress(j)
  <2> USE <1>2 DEF CheckCanceled, RenderBuffer, ReportProgress, workVars
  <2>1. \A k \in Job \ {j} : Phase(k)' = Phase(k)
    BY OthersStay
  <2>2. Phase(j)' = Phase(j)
    BY DEF Goto, TypeOK, Phase, Over
  <2> QED BY <2>1, <2>2, StutterStep
<1>3. CASE CloseFile(j) \/ ReportError(j) \/ Unwind(j) \/ ReportException(j)
  <2> USE <1>3 DEF CloseFile, ReportError, Unwind, ReportException, workVars
  <2>1. \A k \in Job \ {j} : Phase(k)' = Phase(k)
    BY OthersStay
  <2>2. \/ Phase(j)' = Phase(j)
        \/ Phase(j) = "writing" /\ Phase(j)' = "ended"
    BY DEF Goto, TypeOK, FileInv, Phase, Over
  <2> QED BY <2>1, <2>2, LeaveStep, StutterStep
<1>4. CASE Throw(j)
  <2>1. \A k \in Job \ {j} : Phase(k)' = Phase(k)
    BY <1>4, OthersStay DEF Throw
  <2>2. \/ Phase(j)' = Phase(j)
        \/ Phase(j) \in {"waiting", "writing"} /\ Phase(j)' = "ended"
    BY <1>4 DEF Throw, Goto, TypeOK, FileInv, Phase, Over
  <2> QED BY <2>1, <2>2, LeaveStep, StutterStep
<1> QED BY <1>1, <1>2, <1>3, <1>4

(* The pool and the GUI thread's other steps change no phase.              *)
LEMMA QuietStep ==
  ASSUME Inv,
         \/ \E rows \in SUBSET Row : StartRender(rows)
         \/ StartRenderFails \/ LoadPath \/ CancelRender \/ CancelJob \/ LoopDone
         \/ \E j \in Job : ThreadReturns(j)
         \/ UNCHANGED vars
  PROVE  phases' = phases
<1> USE DEF Inv, workVars
<1>1. CASE \E rows \in SUBSET Row : StartRender(rows)
  <2>1. \A j \in Job : pc[j] = "unborn" \/ Over(j)
    BY <1>1, Quiescent DEF StartRender
  <2>2. \A j \in Job : j[1] = renders + 1 => pc[j] = "unborn"
    BY <2>1 DEF TypeOK, JobInv
  <2>3. \A j \in Job : Phase(j)' = Phase(j)
    BY <1>1, <2>2 DEF StartRender, TypeOK, Phase, Over
  <2> QED BY <2>3, PhaseUnchanged
<1>2. CASE \/ StartRenderFails \/ LoadPath \/ CancelRender \/ CancelJob
           \/ LoopDone \/ UNCHANGED vars
  <2>1. \A j \in Job : Phase(j)' = Phase(j)
    BY <1>2 DEF StartRenderFails, LoadPath, CancelRender, CancelJob, LoopDone,
                vars, Phase, Over
  <2> QED BY <2>1, PhaseUnchanged
<1>3. CASE \E j \in Job : ThreadReturns(j)
  <2>1. \A j \in Job : Phase(j)' = Phase(j)
    BY <1>3 DEF ThreadReturns, Queued, TypeOK, FileInv, Phase, Over
  <2> QED BY <2>1, PhaseUnchanged
<1> QED BY <1>1, <1>2, <1>3

(* A move is seen in the phase of its job.                                 *)
LEMMA MoveIsStep ==
  ASSUME NEW j \in Job,
         Batch!Launch(j) \/ Batch!OpenFile(j) \/ Batch!Leave(j) \/ Batch!Over(j)
  PROVE  Batch!Next
<1>1. PICK from, to :
        Batch!Move(j, from, to) /\ to \notin from
  <2>1. /\ "waiting" \notin {"idle"} /\ "writing" \notin {"waiting"}
        /\ "ended" \notin {"waiting", "writing"} /\ "over" \notin {"ended"}
    OBVIOUS
  <2> QED BY <2>1 DEF Batch!Launch, Batch!OpenFile, Batch!Leave, Batch!Over
<1>2. phases[j] # phases'[j]
  BY <1>1 DEF Batch!Move, phases
<1> QED BY <1>2 DEF Batch!Next, Batch!Job, Batch!Row, phases

LEMMA StepRefines == Inv /\ [Next]_vars => [Batch!Next]_phases
<1> SUFFICES ASSUME Inv, [Next]_vars
             PROVE  [Batch!Next]_phases
  OBVIOUS
<1>1. CASE StartJob
  BY <1>1, LaunchStep, MoveIsStep
<1>2. CASE \E j \in Job : OpenFile(j)
  BY <1>2, OpenStep, MoveIsStep
<1>3. CASE \E j \in Job : ReportFinished(j)
  BY <1>3, OverStep, MoveIsStep
<1>4. CASE \E j \in Job :
             \/ RunJob(j) \/ CheckCanceled(j) \/ RenderBuffer(j)
             \/ ReportProgress(j) \/ CloseFile(j) \/ ReportError(j)
             \/ Unwind(j) \/ Throw(j) \/ ReportException(j)
  BY <1>4, InsideStep, MoveIsStep
<1>5. CASE \/ \E rows \in SUBSET Row : StartRender(rows)
           \/ StartRenderFails \/ LoadPath \/ CancelRender \/ CancelJob \/ LoopDone
           \/ \E j \in Job : ThreadReturns(j)
           \/ UNCHANGED vars
  BY <1>5, QuietStep
<1> QED BY <1>1, <1>2, <1>3, <1>4, <1>5 DEF Next, GuiLoop, Worker

(* Every behaviour of the render jobs is one of RenderBatch: renders do    *)
(* not overlap, a job has its file open at most once and never while       *)
(* another job has the same file, and it is over only afterwards.          *)
THEOREM Refinement == Spec => RefinesBatch
<1>1. Init => Batch!Init
  BY DEF Init, Batch!Init, Batch!Job, Batch!Row, Phase
<1> QED BY <1>1, StepRefines, Invariance, PTL
        DEF Spec, RefinesBatch, Batch!Spec, phases

-------------------------------------------------------------------------------
(* Each job implements RenderCallback.                                     *)

(* Where callback() has its file open, and where it has not ended yet.     *)
InLoop == {"check", "render", "progress", "close"}
NotEnded == {"unborn", "made", "queued", "run", "open"} \cup InLoop

CallInv ==
    \A j \in Job :
        /\ pc[j] \in InLoop => j \in openFiles
        /\ pc[j] \in NotEnded <=> fate[j] = "none"
        /\ pc[j] = "close" => samp[j] = NumSamples
        /\ pc[j] = "progress" /\ j \in fin => samp[j] = NumSamples
        /\ pc[j] \in NotEnded \ {"progress", "close"} => j \notin fin

(* What others see of job j stays as it is.                                *)
Unseen(j) ==
    /\ j \in openFiles' <=> j \in openFiles
    /\ samp'[j] = samp[j] /\ fate'[j] = fate[j]

LEMMA GuiCall ==
  ASSUME Inv, CallInv,
         \/ \E rows \in SUBSET Row : StartRender(rows)
         \/ StartRenderFails \/ LoadPath \/ CancelRender \/ GuiLoop
         \/ UNCHANGED vars
  PROVE  CallInv' /\ \A j \in Job : Unseen(j)
<1> USE DEF Inv, workVars, futureVars
<1>1. UNCHANGED <<fin, samp, openFiles, fate>>
  BY DEF StartRender, StartRenderFails, LoadPath, CancelRender, GuiLoop, StartJob,
         CancelJob, LoopDone, vars
<1>2. \A j \in Job : Unseen(j)
  BY <1>1 DEF Unseen
<1>3. ASSUME NEW j \in Job
      PROVE  \/ pc'[j] = pc[j]
             \/ pc[j] \in {"unborn", "made"} /\ pc'[j] \in {"made", "queued", "run"}
  <2>1. CASE \E rows \in SUBSET Row : StartRender(rows)
    <3>1. j[1] = renders + 1 => pc[j] = "unborn"
      BY <2>1 DEF StartRender, TypeOK, JobInv
    <3> QED BY <2>1, <3>1 DEF StartRender
  <2>2. CASE StartJob
    <3>1. PICK r \in todo : pc' = [pc EXCEPT ![<<renders, r>>] = PoolStart]
      BY <2>2 DEF StartJob
    <3>2. <<renders, r>> \in Job /\ pc[<<renders, r>>] = "made"
      BY RenderAssumption, <2>2, <3>1 DEF StartJob, TypeOK, LoopInv, JobInv
    <3>3. PoolStart \in {"run", "queued"}
      BY DEF PoolStart
    <3> QED BY <3>1, <3>2, <3>3 DEF TypeOK
  <2>3. CASE \/ StartRenderFails \/ LoadPath \/ CancelRender \/ CancelJob
             \/ LoopDone \/ UNCHANGED vars
    BY <2>3 DEF StartRenderFails, LoadPath, CancelRender, CancelJob, LoopDone, vars
  <2> QED BY <2>1, <2>2, <2>3 DEF GuiLoop
<1>4. ASSUME NEW j \in Job
      PROVE  /\ pc'[j] \in InLoop <=> pc[j] \in InLoop
             /\ pc'[j] \in NotEnded <=> pc[j] \in NotEnded
             /\ pc'[j] \in {"progress", "close"} => pc'[j] = pc[j]
             /\ pc[j] \in {"progress", "close"} => pc'[j] = pc[j]
  BY <1>3 DEF InLoop, NotEnded
<1> QED BY <1>1, <1>2, <1>4 DEF CallInv

(* A step of job j: what the others show does not change, and what j shows *)
(* changes as RenderCallback says.                                         *)
LEMMA OthersUnseen ==
  ASSUME Inv, NEW j \in Job, Worker(j), NEW k \in Job \ {j}
  PROVE  /\ Unseen(k) /\ (k \in fin' <=> k \in fin)
         /\ pc'[k] = pc[k] \/ (pc[k] = "queued" /\ pc'[k] = "run")
<1> USE DEF Inv, TypeOK, Goto, EndsWith, workVars, Unseen
<1>1. CASE RunJob(j) \/ OpenFile(j) \/ CheckCanceled(j) \/ CloseFile(j)
  BY <1>1 DEF RunJob, OpenFile, CheckCanceled, CloseFile
<1>2. CASE RenderBuffer(j)
  BY <1>2 DEF RenderBuffer
<1>3. CASE ReportProgress(j) \/ ReportError(j) \/ Unwind(j) \/ Throw(j)
  BY <1>3 DEF ReportProgress, ReportError, Unwind, Throw
<1>4. CASE ReportException(j) \/ ReportFinished(j)
  BY <1>4 DEF ReportException, ReportFinished
<1>5. CASE ThreadReturns(j)
  BY <1>5 DEF ThreadReturns, Queued
<1> QED BY <1>1, <1>2, <1>3, <1>4, <1>5 DEF Worker

(* What j's own step leaves true of it, and shows.                         *)
CallGood(j) ==
    /\ pc[j] \in InLoop => j \in openFiles
    /\ pc[j] \in NotEnded <=> fate[j] = "none"
    /\ pc[j] = "close" => samp[j] = NumSamples
    /\ pc[j] = "progress" /\ j \in fin => samp[j] = NumSamples
    /\ pc[j] \in NotEnded \ {"progress", "close"} => j \notin fin

LEMMA BufferIsMore ==
  ASSUME Inv, NEW j \in Job
  PROVE  /\ samp[j] + Frames(j) \in samp[j]..samp[j] + BufferLen
         /\ samp[j] + Frames(j) <= NumSamples
         /\ SongEnds(j) => samp[j] + Frames(j) = NumSamples
<1>1. PICK s, n, b \in Nat : s = samp[j] /\ n = NumSamples /\ b = BufferLen /\ s <= n
  BY RenderAssumption DEF Inv, TypeOK
<1>2. CASE SongEnds(j)
  <2>1. Frames(j) = n - s /\ n - s < b
    BY <1>1, <1>2 DEF Frames, SongEnds
  <2> QED BY <1>1, <2>1
<1>3. CASE ~SongEnds(j)
  <2>1. Frames(j) = b /\ b <= n - s
    BY <1>1, <1>3 DEF Frames, SongEnds
  <2> QED BY <1>1, <1>3, <2>1
<1> QED BY <1>2, <1>3

LEMMA WorkerCall ==
  ASSUME Inv, NEW j \in Job, CallGood(j), Worker(j)
  PROVE  CallGood(j)' /\ (Callback(j)!Next \/ Unseen(j))
<1> USE DEF Inv, TypeOK, Goto, EndsWith, workVars, CallGood, InLoop, NotEnded
<1>1. CASE RunJob(j)
  <2>1. CallGood(j)'
    BY <1>1 DEF RunJob
  <2>2. Callback(j)!GiveUp \/ Unseen(j)
    BY <1>1 DEF RunJob, Told, Unseen, Callback!GiveUp
  <2> QED BY <2>1, <2>2 DEF Callback!Next
<1>2. CASE OpenFile(j)
  <2>1. CallGood(j)'
    BY <1>2 DEF OpenFile
  <2>2. Callback(j)!Open \/ Callback(j)!GiveUp
    <3>1. j \notin openFiles
      BY <1>2 DEF OpenFile, FileInv
    <3> QED BY <1>2, <3>1 DEF OpenFile, Told, Callback!Open, Callback!GiveUp
  <2> QED BY <2>1, <2>2 DEF Callback!Next
<1>3. CASE CheckCanceled(j)
  <2>1. CallGood(j)'
    BY <1>3 DEF CheckCanceled
  <2>2. Callback(j)!GiveUp \/ Unseen(j)
    BY <1>3 DEF CheckCanceled, Told, Unseen, Callback!GiveUp
  <2> QED BY <2>1, <2>2 DEF Callback!Next
<1>4. CASE RenderBuffer(j)
  <2>1. CallGood(j)'
    BY <1>4, BufferIsMore DEF RenderBuffer
  <2>2. Callback(j)!Write \/ Callback(j)!GiveUp
    BY <1>4, BufferIsMore DEF RenderBuffer, Told, Callback!Write, Callback!GiveUp, Callback!More
  <2> QED BY <2>1, <2>2 DEF Callback!Next
<1>5. CASE ReportProgress(j)
  <2>1. CallGood(j)'
    BY <1>5 DEF ReportProgress
  <2>2. Unseen(j)
    BY <1>5 DEF ReportProgress, Unseen
  <2> QED BY <2>1, <2>2
<1>6. CASE CloseFile(j)
  <2>1. CallGood(j)'
    BY <1>6 DEF CloseFile
  <2>2. Callback(j)!Complete \/ Callback(j)!GiveUp
    <3>1. CASE fate'[j] = "complete"
      <4>1. /\ j \in openFiles /\ samp[j] = NumSamples /\ fate[j] = "none"
            /\ samp'[j] = samp[j] /\ (j \in openFiles') = FALSE
        BY <1>6, <3>1 DEF CloseFile
      <4> QED BY <3>1, <4>1 DEF Told, Callback!Complete
    <3>2. CASE fate'[j] # "complete"
      <4>1. /\ fate[j] = "none" /\ fate'[j] = "error" /\ samp'[j] = samp[j]
            /\ j \in openFiles' => j \in openFiles
        BY <1>6, <3>2 DEF CloseFile
      <4>2. \/ (j \in openFiles') = (j \in openFiles)
            \/ (j \in openFiles') = FALSE
        BY <4>1
      <4> QED BY <4>1, <4>2 DEF Told, Callback!GiveUp
    <3> QED BY <3>1, <3>2
  <2> QED BY <2>1, <2>2 DEF Callback!Next
<1>7. CASE Unwind(j)
  <2>1. CallGood(j)'
    BY <1>7 DEF Unwind
  <2>2. Callback(j)!LetGo \/ Unseen(j)
    BY <1>7 DEF Unwind, Told, Unseen, Callback!LetGo
  <2> QED BY <2>1, <2>2 DEF Callback!Next
<1>8. CASE Throw(j)
  <2>1. CallGood(j)'
    BY <1>8 DEF Throw
  <2>2. Callback(j)!GiveUp
    <3>1. /\ fate[j] = "none" /\ fate'[j] = "exception" /\ samp'[j] = samp[j]
          /\ (j \in openFiles') = FALSE
      BY <1>8 DEF Throw
    <3> QED BY <3>1 DEF Told, Callback!GiveUp
  <2> QED BY <2>1, <2>2 DEF Callback!Next
<1>9. CASE ReportError(j) \/ ReportException(j) \/ ReportFinished(j)
  <2>1. CallGood(j)'
    BY <1>9 DEF ReportError, ReportException, ReportFinished
  <2>2. Unseen(j)
    BY <1>9 DEF ReportError, ReportException, ReportFinished, Unseen
  <2> QED BY <2>1, <2>2
<1>10. CASE ThreadReturns(j)
  <2>1. CallGood(j)'
    BY <1>10 DEF ThreadReturns, Queued
  <2>2. Unseen(j)
    BY <1>10 DEF ThreadReturns, Unseen
  <2> QED BY <2>1, <2>2
<1> QED BY <1>1, <1>2, <1>3, <1>4, <1>5, <1>6, <1>7, <1>8, <1>9, <1>10 DEF Worker

LEMMA StepIsCall ==
  ASSUME Inv, CallInv, [Next]_vars
  PROVE  CallInv' /\ \A j \in Job : Callback(j)!Next \/ Unseen(j)
<1>1. CASE \E j \in Job : Worker(j)
  <2>1. PICK j \in Job : Worker(j)
    BY <1>1
  <2>2. CallGood(j)' /\ (Callback(j)!Next \/ Unseen(j))
    BY <2>1, WorkerCall DEF CallInv, CallGood
  <2>3. ASSUME NEW k \in Job \ {j} PROVE CallGood(k)' /\ Unseen(k)
    <3>1. /\ Unseen(k) /\ (k \in fin' <=> k \in fin)
          /\ pc'[k] = pc[k] \/ (pc[k] = "queued" /\ pc'[k] = "run")
      BY <2>1, OthersUnseen
    <3>2. CallGood(k)
      BY DEF CallInv, CallGood
    <3> QED BY <3>1, <3>2 DEF CallGood, Unseen, InLoop, NotEnded
  <2>4. \A k \in Job : CallGood(k)' /\ (Callback(k)!Next \/ Unseen(k))
    BY <2>2, <2>3
  <2> QED BY <2>4 DEF CallInv, CallGood
<1>2. CASE \/ \E rows \in SUBSET Row : StartRender(rows)
           \/ StartRenderFails \/ LoadPath \/ CancelRender \/ GuiLoop
           \/ UNCHANGED vars
  BY <1>2, GuiCall
<1> QED BY <1>1, <1>2 DEF Next

LEMMA CallInvariance == Spec => []CallInv
<1>1. Init => CallInv
  BY DEF Init, CallInv, InLoop, NotEnded
<1> QED BY <1>1, StepIsCall, Invariance, PTL DEF Spec

(* Every job is a callback(): it opens its file at most once, adds buffers *)
(* up to the song's end, and is complete only with all frames written and  *)
(* the file closed.  RenderFile, which has the player and the writer in    *)
(* full, implements the same (RenderFile_proofs).                          *)
THEOREM JobsAreCallbacks == Spec => RefinesCallback
<1>1. ASSUME NEW j \in Job PROVE Spec => Callback(j)!Spec
  <2>1. Init => Callback(j)!Init
    BY RenderAssumption DEF Init, Told, Callback!Init
  <2>2. Inv /\ CallInv /\ [Next]_vars =>
           [Callback(j)!Next]_<<NumSamples, j \in openFiles, samp[j], Told(j)>>
    <3>1. ASSUME Unseen(j)
          PROVE  UNCHANGED <<NumSamples, j \in openFiles, samp[j], Told(j)>>
      BY <3>1 DEF Unseen, Told
    <3> QED BY <3>1, StepIsCall
  <2> QED BY <2>1, <2>2, Invariance, CallInvariance, PTL DEF Spec, Callback!Spec
<1> QED BY <1>1 DEF RefinesCallback

-------------------------------------------------------------------------------
(* A finished job tells how it ended.                                      *)

LEMMA DivMonotone ==
  ASSUME NEW a \in Nat, NEW b \in Nat, a <= b
  PROVE  a \div SampleRate <= b \div SampleRate
  BY RenderAssumption

LEMMA DivNat ==
  ASSUME NEW a \in Nat
  PROVE  a \div SampleRate \in Nat
  BY RenderAssumption

(* What a job that is not canceled has done by the time it reaches each    *)
(* point of callback().                                                    *)
Shown(j) ==
    /\ progress[j] <= samp[j] \div SampleRate
    /\ j \in canceled \/ progress[j] = samp[j] \div SampleRate
Accounted(j) ==
    \/ j \in canceled
    \/ j \in result
    \/ /\ fate[j] = "complete"
       /\ samp[j] = NumSamples
       /\ progress[j] = NumSamples \div SampleRate

WorkInv ==
    \A j \in Job :
        /\ pc[j] \in {"unborn", "made", "queued", "run", "open"} =>
              samp[j] = 0 /\ progress[j] = 0 /\ j \notin fin
        /\ pc[j] \in {"check", "render"} => Shown(j) /\ j \notin fin
        /\ pc[j] = "progress" =>
              /\ progress[j] <= samp[j] \div SampleRate
              /\ j \in fin => samp[j] = NumSamples
        /\ pc[j] = "close" => Shown(j) /\ samp[j] = NumSamples
        /\ pc[j] \in {"unwind", "finish", "return", "gone"} => Accounted(j)

(* GUI steps leave samp, progress, fate and the sets of result and fin     *)
(* alone, and only add to canceled.                                        *)
LEMMA GuiWork ==
  ASSUME Inv, WorkInv,
         \/ \E rows \in SUBSET Row : StartRender(rows)
         \/ StartRenderFails \/ LoadPath \/ CancelRender \/ GuiLoop
         \/ UNCHANGED vars
  PROVE  WorkInv'
<1> USE DEF Inv, workVars, futureVars, Shown, Accounted
<1>1. CASE \E rows \in SUBSET Row : StartRender(rows)
  <2>1. \A j \in Job : j[1] = renders + 1 => pc[j] = "unborn"
    BY <1>1 DEF StartRender, TypeOK, JobInv
  <2> QED BY <1>1, <2>1 DEF StartRender, TypeOK, WorkInv
<1>2. CASE StartJob
  <2>1. PICK r \in todo : pc' = [pc EXCEPT ![<<renders, r>>] = PoolStart]
    BY <1>2 DEF StartJob
  <2>2. <<renders, r>> \in Job /\ pc[<<renders, r>>] = "made"
    BY RenderAssumption, <1>2, <2>1 DEF StartJob, TypeOK, LoopInv, JobInv
  <2>3. PoolStart \in {"run", "queued"}
    BY DEF PoolStart
  <2> QED BY <1>2, <2>1, <2>2, <2>3 DEF StartJob, TypeOK, WorkInv
<1>3. CASE CancelJob
  BY <1>3 DEF CancelJob, WorkInv
<1>4. CASE StartRenderFails \/ LoadPath \/ CancelRender \/ LoopDone \/ UNCHANGED vars
  BY <1>4 DEF StartRenderFails, LoadPath, CancelRender, LoopDone, vars, WorkInv
<1> QED BY <1>1, <1>2, <1>3, <1>4 DEF GuiLoop

(* A step of run() that leaves the sample count and the progress alone.    *)
LEMMA PlainWork ==
  ASSUME Inv, WorkInv, NEW j \in Job,
         \/ RunJob(j) \/ OpenFile(j) \/ CheckCanceled(j) \/ CloseFile(j)
         \/ ReportError(j) \/ Unwind(j) \/ Throw(j) \/ ReportException(j)
         \/ ReportFinished(j) \/ ThreadReturns(j)
  PROVE  WorkInv'
<1> USE DEF Inv, Goto, EndsWith, guiVars, workVars, futureVars, TypeOK, WorkInv,
            Shown, Accounted
<1>1. CASE RunJob(j)
  BY <1>1 DEF RunJob
<1>2. CASE OpenFile(j)
  <2>1. 0 \div SampleRate = 0
    BY RenderAssumption
  <2> QED BY <1>2, <2>1 DEF OpenFile
<1>3. CASE CheckCanceled(j)
  BY <1>3 DEF CheckCanceled
<1>4. CASE CloseFile(j)
  BY <1>4 DEF CloseFile
<1>5. CASE ReportError(j)
  BY <1>5 DEF ReportError
<1>6. CASE Unwind(j)
  BY <1>6 DEF Unwind
<1>7. CASE Throw(j)
  BY <1>7 DEF Throw
<1>8. CASE ReportException(j)
  BY <1>8 DEF ReportException
<1>9. CASE ReportFinished(j)
  BY <1>9 DEF ReportFinished
<1>10. CASE ThreadReturns(j)
  BY <1>10 DEF ThreadReturns, Queued
<1> QED BY <1>1, <1>2, <1>3, <1>4, <1>5, <1>6, <1>7, <1>8, <1>9, <1>10

LEMMA RenderBufferWork ==
  ASSUME Inv, WorkInv, NEW j \in Job, RenderBuffer(j)
  PROVE  WorkInv'
<1> USE DEF Inv, RenderBuffer, Frames, SongEnds, Goto, EndsWith, guiVars, futureVars, TypeOK
<1>1. /\ samp[j] \in 0..NumSamples
      /\ pc[j] = "render"
      /\ j \notin fin
      /\ progress[j] \in Nat
      /\ progress[j] <= samp[j] \div SampleRate
  BY DEF WorkInv, Shown
<1>2. CASE Goto(j, "render", "progress")
  <2>1. /\ samp'[j] \in Nat
        /\ samp[j] <= samp'[j]
        /\ j \in fin' => samp'[j] = NumSamples
    BY <1>1, <1>2, RenderAssumption
  <2>2. samp[j] \div SampleRate <= samp'[j] \div SampleRate
    BY <1>1, <2>1, DivMonotone
  <2>3. /\ samp[j] \div SampleRate \in Nat
        /\ samp'[j] \div SampleRate \in Nat
    <3>1. samp[j] \in Nat
      BY <1>1
    <3> QED BY <2>1, <3>1, DivNat
  <2>4. progress[j] <= samp'[j] \div SampleRate
    BY <1>1, <2>2, <2>3
  <2>5. \A k \in Job \ {j} :
          /\ pc'[k] = pc[k] /\ samp'[k] = samp[k] /\ fate'[k] = fate[k]
          /\ k \in fin' <=> k \in fin
    BY <1>2
  <2> QED BY <1>2, <2>1, <2>4, <2>5 DEF WorkInv, Shown, Accounted
<1>3. CASE Goto(j, "render", "report")
  BY <1>1, <1>3 DEF WorkInv, Shown, Accounted
<1> QED BY <1>2, <1>3

LEMMA ReportProgressWork ==
  ASSUME Inv, WorkInv, NEW j \in Job, ReportProgress(j)
  PROVE  WorkInv'
<1> USE DEF Inv, ReportProgress, SetProgress, Goto, guiVars, workVars, TypeOK
<1>1. /\ progress'[j] <= samp[j] \div SampleRate
      /\ j \in canceled \/ progress'[j] = samp[j] \div SampleRate
  BY RenderAssumption DEF WorkInv
<1> QED BY <1>1 DEF WorkInv, Shown, Accounted

LEMMA WorkInvariance == Spec => []WorkInv
<1>1. Init => WorkInv
  BY DEF Init, WorkInv
<1>2. Inv /\ WorkInv /\ [Next]_vars => WorkInv'
  BY GuiWork, PlainWork, RenderBufferWork, ReportProgressWork DEF Next, Worker
<1> QED BY <1>1, <1>2, Invariance, PTL DEF Spec

(* A job seen as finished, with neither an error nor a cancellation, has   *)
(* written all its frames, closed its file and shown the full duration.    *)
THEOREM CleanFinish == Spec => []CleanFinishIsComplete
<1>1. Inv /\ WorkInv => CleanFinishIsComplete
  BY DEF Inv, TypeOK, JobInv, FileInv, WorkInv, Accounted, Over, CleanFinishIsComplete
<1> QED BY <1>1, Invariance, WorkInvariance, PTL

-------------------------------------------------------------------------------
(* Cancellation: what a job that is canceled does from then on.            *)

(* A job canceled in the queue goes from the queue to its end.             *)
Dropped(j) ==
    /\ j \in canceled
    /\ pc[j] \in {"queued", "run", "finish", "return", "gone"}
    /\ j \notin openFiles

(* What the GUI thread and the pool do to get a job on a thread.           *)
Starting == {<<"unborn", "made">>, <<"made", "queued">>, <<"made", "run">>,
             <<"queued", "run">>}

(* No step of the GUI thread, and none of another job's thread, moves a    *)
(* job in any other way, nor touches its frames or its file.  No step      *)
(* takes a cancellation back.                                              *)
LEMMA MovedByOthers ==
  ASSUME Inv, [Next]_vars, NEW j \in Job, ~Worker(j)
  PROVE  /\ pc'[j] = pc[j] \/ <<pc[j], pc'[j]>> \in Starting
         /\ samp'[j] = samp[j]
         /\ j \in openFiles' <=> j \in openFiles
         /\ j \in canceled => j \in canceled'
<1> USE DEF Inv, TypeOK, workVars, futureVars, Starting
<1>1. CASE \E rows \in SUBSET Row : StartRender(rows)
  BY <1>1, RenderAssumption DEF StartRender, JobInv
<1>2. CASE StartJob
  <2>1. PICK r \in todo : pc' = [pc EXCEPT ![<<renders, r>>] = PoolStart]
    BY <1>2 DEF StartJob
  <2>2. <<renders, r>> \in Job /\ pc[<<renders, r>>] = "made"
    BY RenderAssumption, <1>2 DEF StartJob, LoopInv, JobInv
  <2>3. PoolStart \in {"run", "queued"}
    BY DEF PoolStart
  <2> QED BY <1>2, <2>1, <2>2, <2>3 DEF StartJob
<1>3. CASE StartRenderFails \/ LoadPath \/ CancelRender \/ CancelJob \/ LoopDone
  BY <1>3 DEF StartRenderFails, LoadPath, CancelRender, CancelJob, LoopDone
<1>4. CASE \E k \in Job : Worker(k)
  <2>1. PICK k \in Job : Worker(k)
    BY <1>4
  <2>2. k # j
    BY <2>1
  <2>3. CASE ThreadReturns(k)
    BY <2>2, <2>3 DEF ThreadReturns, Queued
  <2>4. CASE RunJob(k) \/ OpenFile(k) \/ CheckCanceled(k) \/ RenderBuffer(k)
    BY <2>2, <2>4 DEF RunJob, OpenFile, CheckCanceled, RenderBuffer, Goto
  <2>5. CASE ReportProgress(k) \/ CloseFile(k) \/ ReportError(k) \/ Unwind(k)
    BY <2>2, <2>5 DEF ReportProgress, CloseFile, ReportError, Unwind, Goto
  <2>6. CASE Throw(k) \/ ReportException(k) \/ ReportFinished(k)
    BY <2>2, <2>6 DEF Throw, ReportException, ReportFinished, Goto
  <2> QED BY <2>1, <2>3, <2>4, <2>5, <2>6 DEF Worker
<1>5. CASE UNCHANGED vars
  BY <1>5 DEF vars
<1> QED BY <1>1, <1>2, <1>3, <1>4, <1>5 DEF Next, GuiLoop

LEMMA StaysDropped ==
  ASSUME Inv, [Next]_vars, NEW j \in Job, Dropped(j)
  PROVE  Dropped(j)'
<1> USE DEF Inv, TypeOK, Dropped
<1>1. CASE Worker(j)
  <2>1. RunJob(j) \/ ReportFinished(j) \/ ThreadReturns(j)
    BY <1>1 DEF Worker, Goto, OpenFile, CheckCanceled, RenderBuffer,
                ReportProgress, CloseFile, ReportError, Unwind, Throw,
                ReportException
  <2> QED BY <2>1 DEF RunJob, ReportFinished, ThreadReturns, Queued, Goto,
                      workVars, futureVars
<1>2. CASE ~Worker(j)
  BY <1>2, MovedByOthers DEF Starting
<1> QED BY <1>1, <1>2

(* A job canceled while it waits for a thread never opens its file, so the *)
(* file that an earlier render left is not truncated.                      *)
THEOREM CanceledInQueueHolds == Spec => CanceledInQueueWritesNothing
<1>1. ASSUME NEW j \in Job
      PROVE  Spec => [](pc[j] = "queued" /\ j \in canceled => [](j \notin openFiles))
  <2>1. Inv /\ pc[j] = "queued" /\ j \in canceled => Dropped(j)
    BY DEF Inv, FileInv, Dropped
  <2>2. Inv /\ [Next]_vars /\ Dropped(j) => Dropped(j)'
    BY StaysDropped
  <2>3. Dropped(j) => j \notin openFiles
    BY DEF Dropped
  <2> QED BY <2>1, <2>2, <2>3, Invariance, PTL DEF Spec
<1> QED BY <1>1 DEF CanceledInQueueWritesNothing

(* The places of callback() from which a job that is canceled may still    *)
(* render one buffer; it comes back to none of them.                       *)
BeforeBuffer == {"unborn", "made", "queued", "run", "open", "render"}

(* A canceled job has written n frames, or n and one buffer.               *)
Stopping(j, n) ==
    /\ j \in canceled
    /\ \/ samp[j] <= n
       \/ samp[j] <= n + BufferLen /\ pc[j] \notin BeforeBuffer

LEMMA FramesFit ==
  ASSUME Inv, NEW j \in Job
  PROVE  Frames(j) \in Nat /\ Frames(j) <= BufferLen
  BY RenderAssumption DEF Inv, TypeOK, Frames, SongEnds

LEMMA StaysStopping ==
  ASSUME Inv, [Next]_vars, NEW j \in Job, NEW n \in 0..NumSamples, Stopping(j, n)
  PROVE  Stopping(j, n)'
<1> USE DEF Inv, TypeOK, Stopping, BeforeBuffer
<1>1. n \in Nat /\ samp[j] \in Nat /\ BufferLen \in Nat
  BY RenderAssumption
<1>2. CASE RenderBuffer(j)
  <2>1. /\ pc[j] = "render" /\ samp[j] <= n
        /\ j \in canceled'
        /\ pc'[j] \in {"progress", "report"}
        /\ samp'[j] = samp[j] + Frames(j) \/ samp'[j] = samp[j]
    BY <1>2 DEF RenderBuffer, Goto, futureVars
  <2>2. Frames(j) \in Nat /\ Frames(j) <= BufferLen
    BY FramesFit
  <2> HIDE DEF Inv, TypeOK
  <2>3. samp'[j] <= n + BufferLen
    BY <1>1, <2>1, <2>2
  <2> QED BY <2>1, <2>3
<1>3. CASE Worker(j) /\ ~RenderBuffer(j)
  <2>1. samp'[j] = samp[j] /\ j \in canceled'
    BY <1>3 DEF Worker, RunJob, OpenFile, CheckCanceled, ReportProgress,
                CloseFile, ReportError, Unwind, Throw, ReportException,
                ReportFinished, ThreadReturns, workVars, futureVars
  <2>2. pc[j] \notin BeforeBuffer => pc'[j] \notin BeforeBuffer
    BY <1>3 DEF Worker, Goto, Queued, RunJob, OpenFile, CheckCanceled,
                ReportProgress, CloseFile, ReportError, Unwind, Throw,
                ReportException, ReportFinished, ThreadReturns
  <2> QED BY <2>1, <2>2
<1>4. CASE ~Worker(j)
  BY <1>4, MovedByOthers DEF Starting
<1> QED BY <1>2, <1>3, <1>4

(* Wherever cancel() meets a job that renders, at most the buffer that is  *)
(* being rendered is still written.                                        *)
THEOREM CancelStopsHolds == Spec => CancelStopsWithinOneBuffer
<1>1. ASSUME NEW j \in Job, NEW n \in 0..NumSamples
      PROVE  Spec => [](j \in canceled /\ samp[j] = n => [](samp[j] <= n + BufferLen))
  <2>1. n \in Nat /\ BufferLen \in Nat
    BY RenderAssumption
  <2>2. Inv /\ j \in canceled /\ samp[j] = n => Stopping(j, n)
    BY <2>1 DEF Stopping
  <2>3. Inv /\ [Next]_vars /\ Stopping(j, n) => Stopping(j, n)'
    BY StaysStopping
  <2>4. Inv /\ Stopping(j, n) => samp[j] <= n + BufferLen
    BY <2>1 DEF Inv, TypeOK, Stopping
  <2> QED BY <2>2, <2>3, <2>4, Invariance, PTL DEF Spec
<1> QED BY <1>1 DEF CancelStopsWithinOneBuffer

-------------------------------------------------------------------------------
(* Why every job finishes: what EveryJobFinishes needs besides fairness.   *)

(* What a job has still to do: the buffers left, and the way to the end.   *)
Left(j) == IF j \in fin THEN 0 ELSE NumSamples - samp[j] + 1

Place == [p \in PC |->
    CASE p = "unborn" -> 15   [] p = "made" -> 14    [] p = "queued" -> 13
      [] p = "run" -> 12      [] p = "open" -> 11    [] p = "progress" -> 10
      [] p = "check" -> 9     [] p = "render" -> 8   [] p = "close" -> 7
      [] p = "report" -> 6    [] p = "unwind" -> 5   [] p = "throw" -> 4
      [] p = "finish" -> 3    [] p = "return" -> 2   [] p = "gone" -> 1]

Rank(j) == 3 * Left(j) + Place[pc[j]]

(* A step of a job's thread brings the job closer to its end, and no step  *)
(* of anyone sends a job back.                                             *)
Advances ==
    \A j \in Job : Rank(j)' <= Rank(j) /\ (Worker(j) => Rank(j)' < Rank(j))

LEMMA RankType ==
  ASSUME Inv, NEW j \in Job
  PROVE  Left(j) \in 0..NumSamples + 1 /\ Place[pc[j]] \in 1..15
<1> USE RenderAssumption DEF Inv, TypeOK
<1>1. Left(j) \in 0..NumSamples + 1
  BY DEF Left
<1>2. Place[pc[j]] \in 1..15
  BY DEF Place, PC
<1> QED BY <1>1, <1>2

(* A buffer leaves less of the song, or nothing.                           *)
LEMMA BufferAdvances ==
  ASSUME Inv, WorkInv, Inv', NEW j \in Job, RenderBuffer(j)
  PROVE  /\ pc[j] = "render" /\ pc'[j] \in {"progress", "report"}
         /\ Left(j)' <= Left(j)
         /\ pc'[j] = "progress" => Left(j)' < Left(j)
<1>1. /\ pc[j] = "render" /\ pc'[j] \in {"progress", "report"}
      /\ fin' = IF SongEnds(j) THEN fin \cup {j} ELSE fin
      /\ pc'[j] = "progress" => samp'[j] = samp[j] + Frames(j)
      /\ pc'[j] = "report" => samp'[j] = samp[j]
  BY DEF Inv, TypeOK, RenderBuffer, Goto
<1>2. j \notin fin /\ samp[j] \in Nat /\ NumSamples - samp[j] \in Nat
  BY <1>1, RenderAssumption DEF Inv, TypeOK, WorkInv
<1>3. CASE SongEnds(j)
  <2>1. Left(j) = NumSamples - samp[j] + 1 /\ Left(j)' = 0
    BY <1>1, <1>2, <1>3 DEF Left
  <2> QED BY <1>1, <1>2, <2>1
<1>4. CASE ~SongEnds(j)
  <2>1. Left(j) = NumSamples - samp[j] + 1 /\ Left(j)' = NumSamples - samp'[j] + 1
    BY <1>1, <1>2, <1>4 DEF Left
  <2>2. Frames(j) = BufferLen
    BY <1>4 DEF Frames
  <2> QED BY <1>1, <1>2, <2>1, <2>2, RenderAssumption
<1> QED BY <1>3, <1>4

(* Every other step of run() goes down the list of places.                 *)
LEMMA Downhill ==
  ASSUME Inv, NEW j \in Job, Worker(j), ~RenderBuffer(j)
  PROVE  Place[pc'[j]] < Place[pc[j]]
<1>1. PICK from, to \in PC :
        /\ pc[j] = from /\ pc'[j] = to
        /\ Place[to] < Place[from]
  <2> USE DEF Inv, TypeOK, Goto, Place, PC
  <2>1. CASE RunJob(j)
    BY <2>1 DEF RunJob
  <2>2. CASE OpenFile(j)
    BY <2>2 DEF OpenFile
  <2>3. CASE CheckCanceled(j)
    BY <2>3 DEF CheckCanceled
  <2>4. CASE ReportProgress(j)
    BY <2>4 DEF ReportProgress
  <2>5. CASE CloseFile(j)
    BY <2>5 DEF CloseFile
  <2>6. CASE ReportError(j)
    BY <2>6 DEF ReportError
  <2>7. CASE Unwind(j)
    BY <2>7 DEF Unwind
  <2>8. CASE Throw(j)
    BY <2>8 DEF Throw
  <2>9. CASE ReportException(j)
    BY <2>9 DEF ReportException
  <2>10. CASE ReportFinished(j)
    BY <2>10 DEF ReportFinished
  <2>11. CASE ThreadReturns(j)
    BY <2>11 DEF ThreadReturns, Queued
  <2> QED BY <2>1, <2>2, <2>3, <2>4, <2>5, <2>6, <2>7, <2>8, <2>9, <2>10, <2>11
          DEF Worker
<1> QED BY <1>1

LEMMA OthersKeepFin ==
  ASSUME Inv, [Next]_vars, NEW j \in Job, ~Worker(j)
  PROVE  j \in fin' <=> j \in fin
<1>1. CASE \E k \in Job : Worker(k)
  <2>1. PICK k \in Job : Worker(k)
    BY <1>1
  <2>2. k # j
    BY <2>1
  <2> QED BY <2>1, <2>2 DEF Worker, RunJob, OpenFile, CheckCanceled, RenderBuffer,
             ReportProgress, CloseFile, ReportError, Unwind, Throw,
             ReportException, ReportFinished, ThreadReturns, workVars
<1>2. CASE ~\E k \in Job : Worker(k)
  BY <1>2 DEF Next, GuiLoop, StartRender, StartRenderFails, LoadPath, CancelRender,
              StartJob, CancelJob, LoopDone, vars, workVars
<1> QED BY <1>1, <1>2

LEMMA OwnStepAdvances ==
  ASSUME Inv, WorkInv, Inv', NEW j \in Job, Worker(j)
  PROVE  Rank(j)' < Rank(j)
<1>1. /\ Left(j) \in Nat /\ Left(j)' \in Nat
      /\ pc[j] \in PC /\ pc'[j] \in PC
  BY RenderAssumption DEF Inv, TypeOK, Left
<1>2. Place[pc[j]] \in 1..15 /\ Place[pc'[j]] \in 1..15
  BY <1>1 DEF Place, PC
<1>3. CASE RenderBuffer(j)
  <2>1. /\ pc[j] = "render" /\ pc'[j] \in {"progress", "report"}
        /\ Left(j)' <= Left(j)
        /\ pc'[j] = "progress" => Left(j)' < Left(j)
    BY <1>3, BufferAdvances
  <2>2. /\ Place["render"] = 8 /\ Place["progress"] = 10 /\ Place["report"] = 6
    BY DEF Place, PC
  <2> QED BY <1>1, <2>1, <2>2 DEF Rank
<1>4. CASE ~RenderBuffer(j)
  <2>1. Left(j)' = Left(j)
    BY <1>4 DEF Worker, Left, RunJob, OpenFile, CheckCanceled, ReportProgress,
                CloseFile, ReportError, Unwind, Throw, ReportException,
                ReportFinished, ThreadReturns, workVars, futureVars
  <2>2. Place[pc'[j]] < Place[pc[j]]
    BY <1>4, Downhill
  <2> QED BY <1>1, <1>2, <2>1, <2>2 DEF Rank
<1> QED BY <1>3, <1>4

LEMMA JobAdvances ==
  ASSUME Inv, WorkInv, Inv', [Next]_vars
  PROVE  Advances
<1> SUFFICES ASSUME NEW j \in Job
             PROVE  Rank(j)' <= Rank(j) /\ (Worker(j) => Rank(j)' < Rank(j))
  BY DEF Advances
<1>1. /\ Rank(j) \in Nat /\ Rank(j)' \in Nat
      /\ Left(j) \in Nat /\ Left(j)' \in Nat
      /\ pc[j] \in PC /\ pc'[j] \in PC
  BY RenderAssumption DEF Inv, TypeOK, Left, Rank, Place, PC
<1>2. CASE Worker(j)
  BY <1>1, <1>2, OwnStepAdvances
<1>3. CASE ~Worker(j)
  <2>1. pc'[j] = pc[j] \/ <<pc[j], pc'[j]>> \in Starting
    BY <1>3, MovedByOthers
  <2>2. Place[pc'[j]] <= Place[pc[j]] /\ Place[pc'[j]] \in 1..15 /\ Place[pc[j]] \in 1..15
    BY <1>1, <2>1 DEF Place, PC, Starting
  <2>3. Left(j)' = Left(j)
    BY <1>3, MovedByOthers, OthersKeepFin DEF Left
  <2> QED BY <1>1, <1>3, <2>2, <2>3 DEF Rank
<1> QED BY <1>2, <1>3

(* Once it is made, a job takes at most Rank(j) steps: whatever the user   *)
(* and the other threads do, nothing makes it render a buffer again, wait  *)
(* again or report twice.  With fair threads it is finished in the end.    *)
THEOREM JobsAdvance == Spec => [][Advances]_vars
<1>1. Inv /\ WorkInv /\ Inv' /\ [Next]_vars => Advances
  BY JobAdvances
<1> QED BY <1>1, Invariance, WorkInvariance, PTL DEF Spec
===============================================================================
