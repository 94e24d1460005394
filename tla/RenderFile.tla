------------------------------ MODULE RenderFile ------------------------------
(***************************************************************************)
(* One RenderJob::callback (src/src/backend.cpp) in full: the player that  *)
(* renders a song buffer by buffer and the writer of its file.  RenderJobs *)
(* has many such jobs and sees of each only what other threads can see.    *)
(***************************************************************************)
EXTENDS Player, WaveWriter

fvars == <<pvars, wvars>>

RenderFileInit == PlayerInit /\ WriterInit

(* The loop renders a buffer and writes what PlayerA returned, until       *)
(* PLAYSTATE_FIN is set, also when that came with a short buffer.          *)
RenderBuffer_DropsLast ==
    /\ ~fin
    /\ LET r == Rendered(BufferLen) IN
          Play(r) /\ Write(IF r.fin THEN 0 ELSE r.frames)
RenderBuffer_WritesAll ==
    /\ ~fin
    /\ LET r == Rendered(BufferLen) IN Play(r) /\ Write(BufferLen)
RenderBuffer ==
    /\ ~fin
    /\ LET r == Rendered(BufferLen) IN Play(r) /\ Write(r.frames)

Work ==
    \/ RenderBuffer
    \/ fin /\ Close /\ UNCHANGED pvars
    \/ Make /\ UNCHANGED pvars
    \/ MakeFails /\ UNCHANGED pvars
    \/ Seek /\ UNCHANGED pvars
    \/ WriteHeader /\ UNCHANGED pvars
    \/ Flush /\ UNCHANGED pvars
    \/ Destroy /\ UNCHANGED pvars
    \/ DestroyFile /\ UNCHANGED pvars

(* The job was canceled, or something under callback() throws.             *)
EndEarly == Leave /\ UNCHANGED pvars

(* The thread goes on to other things when the file is let go.             *)
Gone == wpc = "gone" /\ UNCHANGED fvars

RenderFileNext == Work \/ EndEarly \/ Gone

RenderFileSpec == RenderFileInit /\ [][RenderFileNext]_fvars /\ WF_fvars(Work)

(* The progress in seconds after the last buffer.                          *)
Progress == frames \div rate

-------------------------------------------------------------------------------

FileTypeOK ==
    /\ WriterTypeOK
    /\ song \in Songs /\ rate \in SampleRates
    /\ playSmpl \in Nat
    /\ fadeStart \in Nat \cup {Unset} /\ endStart \in Nat \cup {Unset}
    /\ fin \in BOOLEAN
    /\ frames <= playSmpl

(* A file that is whole has the frames that make() promised, or one more,  *)
(* since the engine meets the end of a song at the first sample behind it. *)
(* So the progress at the end is the duration that was announced, which    *)
(* the dialog compares; at rates below that of the ticks one frame more    *)
(* may be one second more.                                                 *)
LengthIsPromised ==
    verdict = "whole" /\ frames < CountLimit =>
        /\ frames \in {RenderSamples, RenderSamples + 1}
        /\ rate >= TickRate => Progress = Duration

(* The dialog divides by the duration: the tail or the fade make it        *)
(* positive whatever the song, unless the count of samples wraps around.   *)
DurationIsPositive ==
    Tick2Sample(TotalPlayTicks) + FadeSmpls + EndSilenceSmpls < CountLimit
        => Duration >= 1

(* Every file is let go: the player sets PLAYSTATE_FIN after finitely many *)
(* buffers, whatever lies at a buffer's end.                               *)
RenderEnds == <>(wpc = "gone")

(* Where the engine ends the song or starts to fade it, where the player   *)
(* ends it, and where it stops.                                            *)
LoopsEnd == ReachedAt(TotalPlayTicks)
SongEnd == LoopsEnd + FadeSmpls
Stop == SongEnd + EndSilenceSmpls

(* How callback() ended: the destructor runs without a verdict when it was *)
(* left early.                                                             *)
Told ==
    IF verdict = "whole" THEN "complete"
    ELSE IF verdict = "error" THEN "error"
    ELSE IF wpc = "destroy" \/ caller = "destructor" THEN "early"
    ELSE "none"

Callback == INSTANCE RenderCallback
    WITH total <- Stop, held <- file.open, written <- frames, told <- Told

(* The render is a callback() as RenderJobs sees it: it opens its file     *)
(* once, adds buffers up to where the song stops and no further, and calls *)
(* complete only a file that has all of them and is closed.                *)
RefinesCallback == Callback!Spec
===============================================================================
