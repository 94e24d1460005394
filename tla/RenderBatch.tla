----------------------------- MODULE RenderBatch -----------------------------
(***************************************************************************)
(* What Backend (src/src/backend.cpp) promises of a sequence of renders,   *)
(* with no thread pool, no futures and no GUI loop: one render is a set of *)
(* jobs, one per row of the channel table; renders never overlap; a job    *)
(* writes its .wav file at most once, and is over only when that file has  *)
(* been let go.                                                            *)
(***************************************************************************)
EXTENDS Integers

CONSTANTS MaxRenders,   \* how many renders are started at most
          NumRows       \* rows of the channel table (Master Audio and channels)

Row == 1..NumRows
Job == (1..MaxRenders) \X Row     \* <<render, row>>

VARIABLE phase

Phase == {"idle",       \* not part of any started render
          "waiting",    \* started, its file not opened yet
          "writing",    \* its file is open
          "ended",      \* will not open its file (any more)
          "over"}       \* finished, as seen through its QFuture

Resting == {"idle", "over"}

Init == phase = [j \in Job |-> "idle"]

Move(j, from, to) ==
    /\ phase[j] \in from
    /\ phase' = [phase EXCEPT ![j] = to]

(* A job is launched only when every job of the other renders rests.       *)
Launch(j) ==
    /\ Move(j, {"idle"}, "waiting")
    /\ \A k \in Job : k[1] # j[1] => phase[k] \in Resting

(* Two jobs never have the same .wav file open.                            *)
OpenFile(j) ==
    /\ Move(j, {"waiting"}, "writing")
    /\ \A k \in Job : k[2] = j[2] => phase[k] # "writing"

Leave(j) == Move(j, {"waiting", "writing"}, "ended")

Over(j) == Move(j, {"ended"}, "over")

(* The first conjunct is implied by the others; TLC decides by it sooner.  *)
Next ==
    \E j \in Job :
        /\ phase[j] # phase'[j]
        /\ Launch(j) \/ OpenFile(j) \/ Leave(j) \/ Over(j)

Spec == Init /\ [][Next]_phase

==============================================================================
