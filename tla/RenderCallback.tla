---------------------------- MODULE RenderCallback ----------------------------
(***************************************************************************)
(* What Backend relies on of one RenderJob::callback                       *)
(* (src/src/backend.cpp), with no player, no buffered file and no other    *)
(* threads: a file that is held from when it is opened, buffers that are   *)
(* added to it, and how callback() ended.  RenderJobs has many of these    *)
(* and RenderFile has one in full; both implement it, so that what the two *)
(* say of a job is said of the same job.                                   *)
(***************************************************************************)
EXTENDS Integers

CONSTANT BufferLen     \* frames of one buffer at most

VARIABLES
    total,     \* frames of the song; it never changes
    held,      \* the file is open
    written,   \* frames that callback() has asked to be written
    told       \* how it ended

Init ==
    /\ total \in Nat
    /\ held = FALSE
    /\ written = 0
    /\ told = "none"

(* The file is opened at most once: it is held until callback() ends.      *)
Open ==
    /\ told = "none"
    /\ ~held
    /\ held' = TRUE
    /\ UNCHANGED <<total, written, told>>

(* A buffer, the last of which ends where the song does.                   *)
More ==
    /\ held
    /\ written' \in written..written + BufferLen
    /\ written' <= total

Write ==
    /\ told = "none"
    /\ More
    /\ UNCHANGED <<total, held, told>>

(* Success: every frame is written and the file is closed.                 *)
Complete ==
    /\ told = "none"
    /\ held
    /\ written = total
    /\ told' = "complete"
    /\ held' = FALSE
    /\ UNCHANGED <<total, written>>

(* An error, perhaps of a buffer that was counted, or an end without one:  *)
(* a cancellation, an exception.  The file may still be open.              *)
GiveUp ==
    /\ told = "none"
    /\ told' \in {"error", "early"}
    /\ held' \in {held, FALSE}
    /\ More \/ UNCHANGED written
    /\ UNCHANGED total

(* A destructor closes it then, and nothing is written any more.           *)
LetGo ==
    /\ told # "none"
    /\ held
    /\ held' = FALSE
    /\ UNCHANGED <<total, written, told>>

Next == Open \/ Write \/ Complete \/ GiveUp \/ LetGo

Spec == Init /\ [][Next]_<<total, held, written, told>>
===============================================================================
