------------------------------ MODULE WaveWriter ------------------------------
(***************************************************************************)
(* Wave_Writer (src/src/wave_writer.cpp) over a QFile: the buffer between  *)
(* the two and the disk below, whose writes may fail or stop short.        *)
(*                                                                         *)
(* A file is a sequence of cells: the 44-byte header is one cell, a frame  *)
(* of audio is one.  One step is one operation on the QFile, so that what  *)
(* a killed program leaves on the disk between two of them is a state.     *)
(* make() and the writing loop are driven by RenderJob::callback; close()  *)
(* is run by it and, always, by the destructor.                            *)
(***************************************************************************)
EXTENDS Integers, Sequences

CONSTANTS
    BufferLen,     \* frames of one write (BUFFER_LEN)
    ChunkSize,     \* cells QFile buffers before it writes (16384 bytes)
    SizeLimit,     \* a size field of the header counts modulo this (2^32)
    RiffExtra,     \* what the RIFF size counts besides the data
    OldFile        \* what the path may hold before

ASSUME WriterAssumption ==
    /\ BufferLen \in Nat \ {0}
    /\ ChunkSize \in Nat /\ ChunkSize >= BufferLen
    /\ SizeLimit \in Nat \ {0}
    /\ RiffExtra \in Nat

VARIABLES
    file,      \* the QFile: what the disk holds, the engine's position, the
               \* write buffer, lastWasWrite, isOpen(), and whether the disk
               \* has refused a write
    frames,    \* Wave_Writer::_sample_count, in frames
    chans,     \* Wave_Writer::_chan_count
    wpc,       \* where callback(), close() or the destructor is
    caller,    \* who runs close()
    verdict,   \* history: what callback() knows of the file
    seekFailed \* history: has a seek(0) failed, which close() does not look at?

wvars == <<file, frames, chans, wpc, caller, verdict, seekFailed>>

Header(n, c) == [kind |-> "header", chans |-> c, data |-> n % SizeLimit,
                 riff |-> (RiffExtra + (n % SizeLimit)) % SizeLimit]
Frame(i) == [kind |-> "frame", index |-> i]
Frames(from, n) == [i \in 1..n |-> Frame(from + i - 1)]

Cell == [kind : {"header"}, chans : {1, 2}, data : Nat, riff : Nat]
        \cup [kind : {"frame"}, index : Nat]
File == [disk : Seq(Cell), pos : Nat, buf : Seq(Cell),
         lastWasWrite : BOOLEAN, open : BOOLEAN, refused : BOOLEAN]

ASSUME OldFileAssumption == OldFile \subseteq Seq(Cell)

WriterTypeOK ==
    /\ file \in File
    /\ Len(file.buf) <= ChunkSize
    /\ frames \in Nat
    /\ chans \in {1, 2}
    /\ wpc \in {"make", "loop", "seek", "header", "flush",
                "destroy", "file", "gone"}
    /\ caller \in {"callback", "destructor"}
    /\ verdict \in {"none", "whole", "error"}
    /\ seekFailed \in BOOLEAN

-------------------------------------------------------------------------------
(* QFile.  An operation gives the set of its outcomes: the file after it   *)
(* and whether it reported success.                                        *)

Outcome(f, ok) == [file |-> f, ok |-> ok]

(* The disk's cells after s is written at position p.                      *)
Overwritten(disk, p, s) ==
    [i \in 1..(IF p + Len(s) > Len(disk) THEN p + Len(s) ELSE Len(disk)) |->
        IF i \in p + 1 .. p + Len(s) THEN s[i - p] ELSE disk[i]]

(* QFSFileEngine takes the first n cells of the buffer, then refuses.      *)
Flushed(f, n) ==
    [f EXCEPT !.disk = Overwritten(@, f.pos, SubSeq(f.buf, 1, n)),
              !.pos = @ + n,
              !.buf = SubSeq(@, n + 1, Len(@)),
              !.refused = @ \/ n < Len(f.buf)]

(* How many cells the disk may take: a full one may have room again at the *)
(* next flush, since other jobs of the render empty the files they open.   *)
Taken(f) == 0..Len(f.buf)

QFlush(f) == {Outcome(Flushed(f, n), n = Len(f.buf)) : n \in Taken(f)}

(* A write goes to the buffer; one that does not fit flushes first, and    *)
(* is dropped if that fails.                                               *)
QWrite(f, s) ==
    LET g == [f EXCEPT !.lastWasWrite = TRUE] IN
    IF Len(f.buf) + Len(s) > ChunkSize
    THEN {IF r.ok THEN Outcome([r.file EXCEPT !.buf = s], TRUE) ELSE r :
             r \in QFlush(g)}
    ELSE {Outcome([g EXCEPT !.buf = @ \o s], TRUE)}

(* seek() to the start flushes what the last write left, and goes nowhere  *)
(* if that fails.                                                          *)
QSeekStart(f) ==
    LET g == [f EXCEPT !.lastWasWrite = FALSE] IN
    IF f.lastWasWrite
    THEN {IF r.ok THEN Outcome([r.file EXCEPT !.pos = 0], TRUE) ELSE r :
             r \in QFlush(g)}
    ELSE {Outcome([g EXCEPT !.pos = 0], TRUE)}

(* QFile::close(), also run by ~QFile: what cannot be flushed is dropped.  *)
Shut(f) == [f EXCEPT !.buf = <<>>, !.lastWasWrite = FALSE, !.open = FALSE]
QClose(f) == {Shut(r.file) : r \in QFlush(f)}

-------------------------------------------------------------------------------
(* The writer.                                                             *)

WriterInit ==
    /\ \E old \in OldFile :
          file = [disk |-> old, pos |-> 0, buf |-> <<>>, lastWasWrite |-> FALSE,
                  open |-> FALSE, refused |-> FALSE]
    /\ frames = 0
    /\ chans = 1
    /\ wpc = "make"
    /\ caller = "callback"
    /\ verdict = "none"
    /\ seekFailed = FALSE

(* make() opens the file, which empties it, and buffers a header with      *)
(* dummy information; callback() then calls enable_stereo().               *)
Make ==
    /\ wpc = "make"
    /\ file' = [file EXCEPT !.disk = <<>>, !.buf = <<Header(0, chans)>>,
                            !.lastWasWrite = TRUE, !.open = TRUE]
    /\ chans' = 2
    /\ wpc' = "loop"
    /\ UNCHANGED <<frames, caller, verdict, seekFailed>>

MakeFails ==
    /\ wpc = "make"
    /\ verdict' = "error"
    /\ wpc' = "gone"
    /\ UNCHANGED <<file, frames, chans, caller, seekFailed>>

(* write() counts the frames before it writes them.                        *)
Write(n) ==
    /\ wpc = "loop"
    /\ frames' = frames + n
    /\ \E r \in QWrite(file, Frames(frames + 1, n)) :
          /\ file' = r.file
          /\ wpc' = IF r.ok THEN "loop" ELSE "destroy"
          /\ verdict' = IF r.ok THEN verdict ELSE "error"
    /\ UNCHANGED <<chans, caller, seekFailed>>

(* callback() calls close() when the song is over.                         *)
Close ==
    /\ wpc = "loop"
    /\ wpc' = "seek"
    /\ UNCHANGED <<file, frames, chans, caller, verdict, seekFailed>>

(* callback() returns or throws before that.                               *)
Leave ==
    /\ wpc = "loop"
    /\ wpc' = "destroy"
    /\ UNCHANGED <<file, frames, chans, caller, verdict, seekFailed>>

(* close(): the result of seek(0) is ignored.                              *)
Seek_Missing ==
    /\ wpc = "seek"
    /\ wpc' = "header"
    /\ UNCHANGED <<file, frames, chans, caller, verdict, seekFailed>>
Seek ==
    /\ wpc = "seek"
    /\ \E r \in QSeekStart(file) :
          /\ file' = r.file
          /\ seekFailed' = (seekFailed \/ ~r.ok)
    /\ wpc' = "header"
    /\ UNCHANGED <<frames, chans, caller, verdict>>

(* close() returns: to callback(), which reports what it says, or to the   *)
(* destructor, which does not.                                             *)
CloseReturns(v) ==
    IF caller = "callback"
    THEN wpc' = "destroy" /\ verdict' = v
    ELSE wpc' = "file" /\ verdict' = verdict

WriteHeader ==
    /\ wpc = "header"
    /\ \E r \in QWrite(file, <<Header(frames, chans)>>) :
          IF r.ok
          THEN /\ file' = r.file
               /\ wpc' = "flush"
               /\ UNCHANGED verdict
          ELSE /\ file' \in QClose(r.file)
               /\ CloseReturns("error")
    /\ UNCHANGED <<frames, chans, caller, seekFailed>>

(* A flush that fails leaves the file open.                                *)
Flush_Unchecked ==
    /\ wpc = "flush"
    /\ \E r \in QFlush(file) : file' \in QClose(r.file)
    /\ CloseReturns("whole")
    /\ UNCHANGED <<frames, chans, caller, seekFailed>>
Flush ==
    /\ wpc = "flush"
    /\ \E r \in QFlush(file) :
          IF r.ok
          THEN /\ file' \in QClose(r.file)
               /\ CloseReturns("whole")
          ELSE /\ file' = r.file
               /\ CloseReturns("error")
    /\ UNCHANGED <<frames, chans, caller, seekFailed>>

(* ~Wave_Writer() calls close() again; it does nothing if that closed the  *)
(* file before.                                                            *)
Destroy_NoSeek ==
    /\ wpc = "destroy"
    /\ caller' = "destructor"
    /\ wpc' = IF file.open THEN "header" ELSE "file"
    /\ UNCHANGED <<file, frames, chans, verdict, seekFailed>>
Destroy_NoClose ==
    /\ wpc = "destroy"
    /\ caller' = "destructor"
    /\ wpc' = "file"
    /\ UNCHANGED <<file, frames, chans, verdict, seekFailed>>
Destroy ==
    /\ wpc = "destroy"
    /\ caller' = "destructor"
    /\ wpc' = IF file.open THEN "seek" ELSE "file"
    /\ UNCHANGED <<file, frames, chans, verdict, seekFailed>>

DestroyFile ==
    /\ wpc = "file"
    /\ file' \in IF file.open THEN QClose(file) ELSE {file}
    /\ wpc' = "gone"
    /\ UNCHANGED <<frames, chans, caller, verdict, seekFailed>>

WriterStep ==
    \/ Make \/ MakeFails \/ Seek \/ WriteHeader \/ Flush \/ Destroy \/ DestroyFile
    \/ Close \/ Leave

WriterNext == WriterStep \/ \E n \in 0..BufferLen : Write(n)

WriterSpec == WriterInit /\ [][WriterNext]_wvars

-------------------------------------------------------------------------------
(* Properties.                                                             *)

(* A file with n frames in order behind a header of c channels for m.      *)
Holds(disk, m, c, n) == disk = <<Header(m, c)>> \o Frames(1, n)

(* What a close() that could not seek leaves: the dummy header in front,   *)
(* the final one behind the audio.                                         *)
Misplaced(disk) == disk = <<Header(0, 1)>> \o Frames(1, frames) \o <<Header(frames, 2)>>

(* When close() told callback() that all went well, the file is closed and *)
(* has every frame that was given to write(), in order, and nothing of a   *)
(* file that was there nor a gap left by a flush that failed.  The final   *)
(* header has replaced the dummy one, with true sizes as long as they fit  *)
(* their fields; only if seek(0) failed, unseen, is it at the end.         *)
SuccessIsWhole ==
    verdict = "whole" =>
        /\ ~file.open
        /\ IF seekFailed THEN Misplaced(file.disk)
           ELSE Holds(file.disk, frames, 2, frames)
        /\ ~seekFailed /\ RiffExtra + frames < SizeLimit =>
              /\ file.disk[1].data = frames
              /\ file.disk[1].riff = RiffExtra + frames

(* Whenever the program is killed, the disk holds a prefix of the song     *)
(* behind some header, or nothing yet.  After a seek(0) that failed the    *)
(* final header may be behind the audio; when callback() reported an error *)
(* by then, the destructor's close() may even have put one over it.  No    *)
(* frame is ever at another place than its own.                            *)
AudioInOrder ==
    chans = 2 =>
        /\ \A p \in 1..Len(file.disk) :
              file.disk[p].kind = "header" \/ file.disk[p] = Frame(p - 1)
        /\ \/ file.disk = <<>>
           \/ \E n, m \in 0..frames, c \in {1, 2} : Holds(file.disk, m, c, n)
           \/ seekFailed /\ (verdict = "error" \/ Misplaced(file.disk))

(* A render that is canceled leaves a shorter file that is well-formed:    *)
(* the destructor completes it, unless the disk refused a write.           *)
EarlyEndIsWhole ==
    wpc = "gone" /\ chans = 2 /\ ~file.refused =>
        Holds(file.disk, frames, 2, frames)

(* A file that was made never gets shorter and never loses a frame, though *)
(* the writer seeks back, flushes twice and is destroyed after close(),    *)
(* unless callback() reported an error and the destructor could not seek;  *)
(* and of a file that it was told is whole nothing is written again.       *)
DiskKeepsStep ==
    wpc # "make" =>
        /\ Len(file.disk) <= Len(file'.disk)
        /\ \/ verdict = "error" /\ seekFailed
           \/ \A p \in 2..Len(file.disk) : file'.disk[p] = file.disk[p]
        /\ verdict = "whole" => file' = file
DiskKeeps == [][DiskKeepsStep]_wvars

(* The real fields "will be written when close() calls write_header()      *)
(* again", in place of the dummy ones (wave_writer.cpp:87): a file that    *)
(* close() reports as finished has them at its start.                      *)
HeaderIsFilledIn == verdict = "whole" => file.disk[1] = Header(frames, chans)

===============================================================================
