--------------------------- MODULE WaveWriter_proofs ---------------------------
(***************************************************************************)
(* The file that Wave_Writer leaves, for buffers and songs of any length   *)
(* and on any disk: a write may be refused at any cell, and the next one   *)
(* taken.                                                                  *)
(***************************************************************************)
EXTENDS WaveWriter, TLAPS

(* The song of n frames behind one header.                                 *)
Audio(n, h) == <<h>> \o Frames(1, n)

Dummy == Header(0, 1)
Final == Header(frames, 2)

(* What has been given to the QFile is c: the disk has a first part of it  *)
(* and the buffer the rest.                                                *)
Streams(f, c) ==
    /\ f.open /\ f.pos = Len(f.disk)
    /\ Len(f.disk) + Len(f.buf) = Len(c)
    /\ \A p \in 1..Len(f.disk) : f.disk[p] = c[p]
    /\ \A q \in 1..Len(f.buf) : f.buf[q] = c[Len(f.disk) + q]

Prefix(d, c) == Len(d) <= Len(c) /\ \A p \in 1..Len(d) : d[p] = c[p]

(* close() got back to the start of d, then buffered the header h.         *)
Rewound(f, d) == f.open /\ f.pos = 0 /\ f.buf = <<>> /\ f.disk = d
Rewriting(f, d, h) == f.open /\ f.pos = 0 /\ f.buf = <<h>> /\ f.disk = d

(* Every frame is, or is about to be written, at its place.                *)
Placed(f) ==
    /\ \A p \in 1..Len(f.disk) : f.disk[p].kind = "header" \/ f.disk[p] = Frame(p - 1)
    /\ \A q \in 1..Len(f.buf) :
          f.buf[q].kind = "header" \/ f.buf[q] = Frame(f.pos + q - 1)

-------------------------------------------------------------------------------
(* The invariant: where the writer is, ...                                 *)

PcInv ==
    /\ file.pos <= Len(file.disk)
    /\ wpc = "make" => chans = 1 /\ frames = 0 /\ file.pos = 0 /\ ~file.refused /\ ~file.open
    /\ wpc \notin {"make", "gone"} => chans = 2
    /\ wpc \in {"make", "loop"} => verdict = "none" /\ ~seekFailed
    /\ wpc \in {"make", "loop", "destroy"} => caller = "callback"
    /\ wpc \in {"seek", "header", "flush"} /\ caller = "callback" => verdict = "none"
    /\ wpc \in {"loop", "seek", "header", "flush"} => file.open /\ verdict # "whole"
    /\ wpc \in {"loop", "seek", "flush"} \/ (wpc = "destroy" /\ file.open)
          => file.lastWasWrite
    /\ wpc = "file" => caller = "destructor"
    /\ wpc = "gone" => ~file.open
    /\ file.open => verdict # "whole"
    /\ verdict = "whole" => chans = 2
    /\ (verdict = "error" /\ chans = 2) \/ seekFailed => file.refused
    /\ seekFailed => chans = 2

(* ... and what it has made of the file.  A write() that failed drops its  *)
(* frames, and a close() that failed may have left its header.             *)
Kept(n, h) ==
    /\ n \in 0..frames /\ h \in {Dummy, Final}
    /\ verdict # "error" => n = frames /\ h = Dummy

(* When every seek(0) went through; n frames behind h is what close()      *)
(* completes.                                                              *)
SoughtInv(n, h) ==
    /\ wpc = "loop" => Streams(file, Audio(n, h))
    /\ wpc = "seek" \/ (wpc = "destroy" /\ file.open) =>
          \/ Streams(file, Audio(n, h))
          \/ verdict = "error" /\ Rewriting(file, Audio(n, h), Final)
    /\ wpc = "header" => Rewound(file, Audio(n, h))
    /\ wpc = "flush" => Rewriting(file, Audio(n, h), Final)
    /\ wpc = "file" /\ file.open => Rewriting(file, Audio(n, h), Final) /\ file.refused
    /\ ~file.open => \/ file.disk = Audio(frames, Final)
                     \/ file.disk = Audio(n, h) /\ file.refused /\ verdict # "whole"

(* When one failed: the final header goes behind what was given before, c. *)
UnsoughtInv(c) ==
    /\ wpc \notin {"loop", "seek"}
    /\ wpc = "header" => Streams(file, c)
    /\ wpc # "header" /\ file.open => Streams(file, c \o <<Final>>)
    /\ wpc = "destroy" /\ file.open => verdict = "error"
    /\ ~file.open => /\ Prefix(file.disk, c \o <<Final>>)
                     /\ verdict = "whole" => file.disk = c \o <<Final>>

(* The destructor closes again after an error was reported, and a seek(0)  *)
(* failed: its header may be anywhere.                                     *)
Second == seekFailed /\ verdict = "error" /\ caller = "destructor"

PlaceInv ==
    chans = 2 /\ ~Second =>
        IF seekFailed THEN UnsoughtInv(Audio(frames, Dummy))
        ELSE \E n \in 0..frames, h \in {Dummy, Final} : Kept(n, h) /\ SoughtInv(n, h)

WriterInv ==
    /\ WriterTypeOK
    /\ PcInv
    /\ PlaceInv
    /\ chans = 2 => Placed(file)

-------------------------------------------------------------------------------
(* Cells and sequences.                                                    *)

LEMMA HeaderType ==
    ASSUME NEW n \in Nat, NEW c \in {1, 2}
    PROVE  Header(n, c) \in Cell
BY WriterAssumption DEF Header, Cell

LEMMA FramesType ==
    ASSUME NEW from \in Nat, NEW n \in Nat
    PROVE  /\ Frames(from, n) \in Seq(Cell)
           /\ Len(Frames(from, n)) = n
           /\ \A i \in 1..n : Frames(from, n)[i] = Frame(from + i - 1)
<1>1. Frames(from, n) \in [1..n -> Cell]
  BY DEF Frames, Frame, Cell
<1> QED BY <1>1 DEF Frames

(* g is f after n cells of its buffer went to the disk.                    *)
IsFlushed(f, n, g) ==
    /\ g \in File
    /\ g.pos = f.pos + n /\ g.pos <= Len(g.disk)
    /\ Len(g.disk) = IF f.pos + n > Len(f.disk) THEN f.pos + n ELSE Len(f.disk)
    /\ \A p \in 1..Len(g.disk) :
          g.disk[p] = IF p \in f.pos + 1..f.pos + n THEN f.buf[p - f.pos] ELSE f.disk[p]
    /\ Len(g.buf) = Len(f.buf) - n
    /\ \A q \in 1..Len(g.buf) : g.buf[q] = f.buf[n + q]
    /\ g.refused <=> (f.refused \/ n < Len(f.buf))
    /\ g.lastWasWrite = f.lastWasWrite /\ g.open = f.open

LEMMA FlushedFacts ==
    ASSUME NEW f \in File, f.pos <= Len(f.disk), NEW n \in 0..Len(f.buf)
    PROVE  IsFlushed(f, n, Flushed(f, n))
<1> DEFINE g == Flushed(f, n)
           s == SubSeq(f.buf, 1, n)
           d == Overwritten(f.disk, f.pos, s)
           b == SubSeq(f.buf, n + 1, Len(f.buf))
           m == IF f.pos + n > Len(f.disk) THEN f.pos + n ELSE Len(f.disk)
<1>1. f.disk \in Seq(Cell) /\ f.buf \in Seq(Cell) /\ f.pos \in Nat
      /\ f.refused \in BOOLEAN
  BY DEF File
<1>2. s \in Seq(Cell) /\ Len(s) = n /\ \A i \in 1..n : s[i] = f.buf[i]
  BY <1>1
<1>3. b \in Seq(Cell) /\ Len(b) = Len(f.buf) - n /\ \A q \in 1..Len(b) : b[q] = f.buf[n + q]
  BY <1>1
<1>4. m \in Nat
  BY <1>1
<1>5. d = [i \in 1..m |-> IF i \in f.pos + 1..f.pos + n THEN s[i - f.pos] ELSE f.disk[i]]
  BY <1>2 DEF Overwritten
<1>6. \A i \in 1..m : d[i] = IF i \in f.pos + 1..f.pos + n THEN f.buf[i - f.pos] ELSE f.disk[i]
  <2> HIDE DEF d, s, m
  <2>1. ASSUME NEW i \in 1..m, i \in f.pos + 1..f.pos + n PROVE i - f.pos \in 1..n
    BY <2>1, <1>1
  <2> QED BY <1>5, <1>2, <2>1
<1>7. d \in Seq(Cell) /\ Len(d) = m
  <2>1. ASSUME NEW i \in 1..m PROVE d[i] \in Cell
    <3>1. CASE i \in f.pos + 1..f.pos + n
      <4>1. i - f.pos \in 1..Len(f.buf)
        BY <3>1, <1>1
      <4>2. f.buf[i - f.pos] \in Cell
        BY <4>1, <1>1
      <4> HIDE DEF d, m
      <4> QED BY <4>2, <3>1, <1>6
    <3>2. CASE i \notin f.pos + 1..f.pos + n
      <4>1. i \in 1..Len(f.disk)
        BY <3>2, <1>1
      <4>2. f.disk[i] \in Cell
        BY <4>1, <1>1
      <4> HIDE DEF d, m
      <4> QED BY <4>2, <3>2, <1>6
    <3> QED BY <3>1, <3>2
  <2> HIDE DEF d, m
  <2>2. d \in [1..m -> Cell]
    BY <2>1, <1>5
  <2> QED BY <2>2, <1>4
<1>8. g = [f EXCEPT !.disk = d, !.pos = f.pos + n, !.buf = b,
                    !.refused = f.refused \/ n < Len(f.buf)]
  BY DEF Flushed, File
<1> DEFINE r == f.refused \/ n < Len(f.buf)
<1> HIDE DEF d, b, s, m, r, g
<1>9. g \in File /\ g.disk = d /\ g.pos = f.pos + n /\ g.buf = b
      /\ g.refused = r /\ g.lastWasWrite = f.lastWasWrite /\ g.open = f.open
  <2>1. g = [f EXCEPT !.disk = d, !.pos = f.pos + n, !.buf = b, !.refused = r]
    BY <1>8 DEF r
  <2>2. r \in BOOLEAN
    BY <1>1 DEF r
  <2>3. f.pos + n \in Nat
    BY <1>1
  <2> QED BY <2>1, <2>2, <2>3, <1>7, <1>3 DEF File
<1>10. f.pos + n <= m
  BY <1>1 DEF m
<1> QED BY <1>9, <1>7, <1>6, <1>3, <1>10 DEF m, r, g, IsFlushed

-------------------------------------------------------------------------------
(* What a flush makes of the file, at each place of the writer.            *)

AtFile(f) == f \in File /\ f.pos <= Len(f.disk)

LEMMA FileFields ==
    ASSUME NEW f, AtFile(f)
    PROVE  /\ f.disk \in Seq(Cell) /\ f.buf \in Seq(Cell)
           /\ Len(f.disk) \in Nat /\ Len(f.buf) \in Nat /\ f.pos \in Nat
           /\ f.buf = <<>> <=> Len(f.buf) = 0
           /\ f.open \in BOOLEAN /\ f.refused \in BOOLEAN /\ f.lastWasWrite \in BOOLEAN
BY DEF AtFile, File

LEMMA UpTo ==
    ASSUME NEW m \in Nat, NEW k \in 0..m
    PROVE  k \in Nat /\ k <= m
OBVIOUS

(* k cells of the buffer went to the disk; a and b are the lengths before. *)
Moves(f, r, a, b, k) ==
    /\ a = Len(f.disk) /\ b = Len(f.buf) /\ k <= b
    /\ IsFlushed(f, k, r.file)
    /\ r.ok \in BOOLEAN /\ (r.ok <=> k = b)
    /\ k \in Taken(f)

LEMMA FlushMoves ==
    ASSUME NEW f, NEW r \in QFlush(f), AtFile(f)
    PROVE  /\ AtFile(r.file)
           /\ \E a, b, k \in Nat : Moves(f, r, a, b, k)
<1>1. PICK k \in Taken(f) : r = Outcome(Flushed(f, k), k = Len(f.buf))
  BY DEF QFlush
<1>2. k \in 0..Len(f.buf)
  BY DEF Taken, AtFile, File
<1>3. IsFlushed(f, k, Flushed(f, k))
  BY <1>2, FlushedFacts DEF AtFile
<1>4. Len(f.disk) \in Nat /\ Len(f.buf) \in Nat
  BY FileFields
<1>5. k \in Nat /\ k <= Len(f.buf)
  BY <1>2, <1>4, UpTo
<1>6. r.file = Flushed(f, k) /\ r.ok = (k = Len(f.buf))
  BY <1>1 DEF Outcome
<1>7. Moves(f, r, Len(f.disk), Len(f.buf), k)
  BY <1>1, <1>3, <1>5, <1>6 DEF Moves
<1>8. AtFile(r.file)
  BY <1>3, <1>6 DEF IsFlushed, AtFile
<1> QED BY <1>4, <1>5, <1>7, <1>8

LEMMA NothingMoves ==
    ASSUME NEW f, NEW g, AtFile(f), IsFlushed(f, 0, g)
    PROVE  /\ Len(g.disk) = Len(f.disk)
           /\ Len(g.buf) = Len(f.buf)
           /\ \A p \in 1..Len(f.disk) : g.disk[p] = f.disk[p]
<1>1. PICK a, b, s \in Nat : a = Len(f.disk) /\ b = Len(f.buf) /\ s = f.pos
  BY FileFields
<1>2. s <= a
  BY <1>1 DEF AtFile
<1>3. Len(g.disk) = a
  <2>1. Len(g.disk) = IF s + 0 > a THEN s + 0 ELSE a
    BY <1>1 DEF IsFlushed
  <2> QED BY <1>2, <2>1
<1>4. Len(g.buf) = b
  <2>1. Len(g.buf) = b - 0
    BY <1>1 DEF IsFlushed
  <2>2. b - 0 = b
    OBVIOUS
  <2> QED BY <2>1, <2>2
<1>5. \A p \in 1..a : g.disk[p] = f.disk[p]
  <2> TAKE p \in 1..a
  <2>1. g.disk[p] = IF p \in s + 1..s + 0 THEN f.buf[p - s] ELSE f.disk[p]
    BY <1>1, <1>3 DEF IsFlushed
  <2> QED BY <2>1
<1> QED BY <1>1, <1>3, <1>4, <1>5

-------------------------------------------------------------------------------
(* What the QFile's other operations make of it.                           *)

LEMMA ToStart ==
    ASSUME NEW f, NEW g, AtFile(f), g = [f EXCEPT !.pos = 0]
    PROVE  /\ AtFile(g) /\ g.pos = 0 /\ g.disk = f.disk /\ g.buf = f.buf
           /\ g.refused = f.refused /\ g.open = f.open
<1>1. f \in File /\ Len(f.disk) \in Nat
  BY FileFields DEF AtFile
<1>2. g \in File /\ g.pos = 0 /\ g.disk = f.disk /\ g.buf = f.buf
      /\ g.refused = f.refused /\ g.open = f.open
  BY <1>1 DEF File
<1> QED BY <1>1, <1>2 DEF AtFile

LEMMA ShutFacts ==
    ASSUME NEW f, AtFile(f)
    PROVE  /\ AtFile(Shut(f)) /\ Shut(f).disk = f.disk /\ Shut(f).buf = <<>>
           /\ Shut(f).refused = f.refused /\ ~Shut(f).open
<1>1. f \in File /\ Len(f.disk) \in Nat
  BY FileFields DEF AtFile
<1>2. PICK e \in Seq(Cell) : e = <<>>
  <2>1. <<>> \in Seq(Cell)
    OBVIOUS
  <2> QED BY <2>1
<1>3. Shut(f) = [f EXCEPT !.buf = e, !.lastWasWrite = FALSE, !.open = FALSE]
  BY <1>2 DEF Shut
<1>4. /\ Shut(f) \in File /\ Shut(f).pos = f.pos /\ Shut(f).disk = f.disk
      /\ Shut(f).buf = e /\ Shut(f).refused = f.refused /\ ~Shut(f).open
  BY <1>1, <1>2, <1>3 DEF File
<1> QED BY <1>1, <1>2, <1>4 DEF AtFile

-------------------------------------------------------------------------------
(* No operation on a QFile makes it shorter or forgets a refusal, and only *)
(* close() closes it.                                                      *)

Grows(f, g) ==
    /\ AtFile(g) /\ Len(f.disk) <= Len(g.disk)
    /\ f.refused => g.refused
    /\ Len(f.buf) <= ChunkSize => Len(g.buf) <= ChunkSize

LEMMA GrowsOn ==
    ASSUME NEW f, AtFile(f), NEW g, Grows(f, g), NEW h, Grows(g, h)
    PROVE  Grows(f, h)
<1>1. PICK a, b, c \in Nat : a = Len(f.disk) /\ b = Len(g.disk) /\ c = Len(h.disk)
  BY FileFields DEF Grows
<1>2. a <= b /\ b <= c
  BY <1>1 DEF Grows
<1>3. a <= c
  BY <1>2
<1> QED BY <1>1, <1>3 DEF Grows

LEMMA Stays ==
    ASSUME NEW f, AtFile(f), NEW g, AtFile(g), g.disk = f.disk, g.refused = f.refused,
           Len(f.buf) <= ChunkSize => Len(g.buf) <= ChunkSize
    PROVE  Grows(f, g)
<1>1. Len(f.disk) <= Len(f.disk)
  BY FileFields
<1> QED BY <1>1 DEF Grows

LEMMA FlushGrows ==
    ASSUME NEW f, AtFile(f), NEW r \in QFlush(f)
    PROVE  /\ Grows(f, r.file) /\ r.file.open = f.open
           /\ r.file.lastWasWrite = f.lastWasWrite
           /\ r.ok \in BOOLEAN /\ (~r.ok => r.file.refused)
<1>1. PICK a, b, k \in Nat : Moves(f, r, a, b, k)
  BY FlushMoves
<1>2. AtFile(r.file)
  BY FlushMoves
<1>3. PICK s \in Nat : s = f.pos
  BY FileFields
<1>4. PICK g : g = r.file
  OBVIOUS
<1>5. /\ Len(g.disk) = IF s + k > a THEN s + k ELSE a
      /\ Len(g.buf) = b - k /\ k <= b /\ a = Len(f.disk) /\ b = Len(f.buf)
      /\ g.refused <=> (f.refused \/ k < b)
      /\ g.open = f.open /\ g.lastWasWrite = f.lastWasWrite
      /\ r.ok \in BOOLEAN /\ (r.ok <=> k = b)
  BY <1>1, <1>3, <1>4 DEF Moves, IsFlushed
<1>6. a <= (IF s + k > a THEN s + k ELSE a)
  OBVIOUS
<1>7. ChunkSize \in Nat
  BY WriterAssumption
<1>8. b <= ChunkSize => b - k <= ChunkSize
  BY <1>5, <1>7
<1>9. ~r.ok => k < b
  BY <1>5
<1>10. Grows(f, g)
  BY <1>2, <1>4, <1>5, <1>6, <1>8 DEF Grows
<1> QED BY <1>4, <1>5, <1>9, <1>10

LEMMA CloseGrows ==
    ASSUME NEW f, AtFile(f), NEW g \in QClose(f)
    PROVE  Grows(f, g) /\ ~g.open
<1>1. PICK r \in QFlush(f) : g = Shut(r.file)
  BY DEF QClose
<1>2. Grows(f, r.file)
  BY <1>1, FlushGrows
<1>3. PICK h : h = r.file
  OBVIOUS
<1>4. /\ AtFile(h) /\ AtFile(g) /\ g.disk = h.disk /\ g.buf = <<>>
      /\ g.refused = h.refused /\ ~g.open
  BY <1>1, <1>2, <1>3, ShutFacts DEF Grows
<1>5. Len(g.buf) <= ChunkSize
  BY <1>4, WriterAssumption
<1>6. Grows(h, g)
  BY <1>4, <1>5, Stays
<1> QED BY <1>2, <1>3, <1>4, <1>6, GrowsOn

LEMMA MarkGrows ==
    ASSUME NEW f, AtFile(f), NEW b \in BOOLEAN
    PROVE  LET g == [f EXCEPT !.lastWasWrite = b] IN
           /\ AtFile(g) /\ g.disk = f.disk /\ g.buf = f.buf /\ g.pos = f.pos
           /\ g.open = f.open /\ g.refused = f.refused /\ g.lastWasWrite = b
BY DEF AtFile, File

(* seek(0) after a write.                                                  *)
SeekIs(f, g, q, r) ==
    /\ g = [f EXCEPT !.lastWasWrite = FALSE]
    /\ AtFile(g) /\ g.disk = f.disk /\ g.buf = f.buf /\ g.pos = f.pos
    /\ g.open = f.open /\ g.refused = f.refused
    /\ q \in QFlush(g) /\ AtFile(q.file)
    /\ r.ok = q.ok /\ r.ok \in BOOLEAN
    /\ ~r.ok => r = q
    /\ r.ok => /\ AtFile(r.file) /\ r.file.pos = 0
               /\ r.file.disk = q.file.disk /\ r.file.buf = q.file.buf
               /\ r.file.open = q.file.open /\ r.file.refused = q.file.refused

LEMMA SeekFlushes ==
    ASSUME NEW f, AtFile(f), f.lastWasWrite, NEW r \in QSeekStart(f)
    PROVE  \E g, q : SeekIs(f, g, q, r)
<1>1. PICK g : g = [f EXCEPT !.lastWasWrite = FALSE]
  OBVIOUS
<1>2. AtFile(g) /\ g.disk = f.disk /\ g.buf = f.buf /\ g.pos = f.pos
      /\ g.open = f.open /\ g.refused = f.refused
  BY <1>1, MarkGrows
<1>3. PICK q \in QFlush(g) : r = IF q.ok THEN Outcome([q.file EXCEPT !.pos = 0], TRUE) ELSE q
  BY <1>1 DEF QSeekStart
<1>4. AtFile(q.file) /\ q.ok \in BOOLEAN
  BY <1>2, <1>3, FlushGrows DEF Grows
<1>5. CASE q.ok
  <2>1. PICK h : h = [q.file EXCEPT !.pos = 0]
    OBVIOUS
  <2>2. r.file = h /\ r.ok = TRUE
    BY <1>3, <1>5, <2>1 DEF Outcome
  <2>3. AtFile(h) /\ h.pos = 0 /\ h.disk = q.file.disk /\ h.buf = q.file.buf
        /\ h.open = q.file.open /\ h.refused = q.file.refused
    BY <1>4, <2>1, ToStart
  <2>4. r.ok = q.ok
    BY <1>4, <1>5, <2>2
  <2> QED BY <1>1, <1>2, <1>3, <1>4, <2>2, <2>3, <2>4 DEF SeekIs
<1>6. CASE ~q.ok
  BY <1>1, <1>2, <1>3, <1>4, <1>6 DEF SeekIs
<1> QED BY <1>4, <1>5, <1>6

LEMMA SeekGrows ==
    ASSUME NEW f, AtFile(f), NEW r \in QSeekStart(f)
    PROVE  /\ Grows(f, r.file) /\ r.file.open = f.open
           /\ r.ok \in BOOLEAN /\ (~r.ok => r.file.refused)
<1>1. CASE f.lastWasWrite
  <2>1. PICK g, q : SeekIs(f, g, q, r)
    BY <1>1, SeekFlushes
  <2>2. PICK x, y : x = q.file /\ y = r.file
    OBVIOUS
  <2>3. AtFile(g) /\ g.disk = f.disk /\ g.buf = f.buf /\ g.refused = f.refused
        /\ g.open = f.open /\ q \in QFlush(g) /\ r.ok = q.ok /\ r.ok \in BOOLEAN
    BY <2>1 DEF SeekIs
  <2>4. /\ Grows(g, x) /\ x.open = g.open
        /\ ~q.ok => x.refused
    BY <2>2, <2>3, FlushGrows
  <2>5. Grows(f, x)
    BY <2>3, <2>4 DEF Grows
  <2>6. CASE r.ok
    <3>1. /\ AtFile(y) /\ y.disk = x.disk /\ y.buf = x.buf /\ y.open = x.open
          /\ y.refused = x.refused
      BY <2>1, <2>2, <2>6 DEF SeekIs
    <3>2. AtFile(x)
      BY <2>4 DEF Grows
    <3>3. Grows(x, y)
      BY <3>1, <3>2, Stays
    <3> QED BY <2>2, <2>3, <2>4, <2>5, <2>6, <3>1, <3>3, GrowsOn
  <2>7. CASE ~r.ok
    <3>1. y = x
      BY <2>1, <2>2, <2>7 DEF SeekIs
    <3> QED BY <2>2, <2>3, <2>4, <2>5, <2>7, <3>1
  <2> QED BY <2>3, <2>6, <2>7
<1>2. CASE ~f.lastWasWrite
  <2>1. PICK g : g = [f EXCEPT !.lastWasWrite = FALSE]
    OBVIOUS
  <2>2. AtFile(g) /\ g.disk = f.disk /\ g.buf = f.buf /\ g.open = f.open
        /\ g.refused = f.refused
    BY <2>1, MarkGrows
  <2>3. PICK h : h = [g EXCEPT !.pos = 0]
    OBVIOUS
  <2>4. r.file = h /\ r.ok = TRUE
    BY <1>2, <2>1, <2>3 DEF QSeekStart, Outcome
  <2>5. AtFile(h) /\ h.disk = f.disk /\ h.open = f.open /\ h.buf = f.buf
        /\ h.refused = f.refused
    BY <2>2, <2>3, ToStart
  <2>6. Grows(f, h)
    BY <2>5, Stays
  <2> QED BY <2>4, <2>5, <2>6
<1> QED BY <1>1, <1>2

LEMMA Appended ==
    ASSUME NEW u \in Seq(Cell), NEW s \in Seq(Cell)
    PROVE  /\ u \o s \in Seq(Cell)
           /\ Len(u) \in Nat /\ Len(s) \in Nat
           /\ Len(u \o s) = Len(u) + Len(s)
           /\ \A q \in 1..Len(u) : (u \o s)[q] = u[q]
           /\ \A q \in 1..Len(s) : (u \o s)[Len(u) + q] = s[q]
OBVIOUS

(* A write: the buffer h goes first if there is no room behind it, then s  *)
(* is added to what is left of it, g.                                      *)
WriteIs(f, s, h, g, r) ==
    /\ AtFile(h) /\ h.disk = f.disk /\ h.buf = f.buf /\ h.pos = f.pos
    /\ h.open = f.open /\ h.refused = f.refused
    /\ AtFile(g) /\ g.lastWasWrite /\ g.open = f.open
    /\ g = h \/ \E q \in QFlush(h) : g = q.file /\ (g.refused \/ q.ok)
    /\ r.ok \in BOOLEAN
    /\ ~r.ok => r.file = g /\ g.refused
    /\ r.ok => /\ AtFile(r.file) /\ r.file.disk = g.disk /\ r.file.pos = g.pos
               /\ r.file.buf = g.buf \o s /\ Len(r.file.buf) <= ChunkSize
               /\ r.file.lastWasWrite /\ r.file.open = g.open
               /\ r.file.refused = g.refused

LEMMA WriteFlushes ==
    ASSUME NEW f, AtFile(f), NEW s \in Seq(Cell), Len(s) <= ChunkSize,
           NEW r \in QWrite(f, s)
    PROVE  \E h, g : WriteIs(f, s, h, g, r)
<1>1. PICK h : h = [f EXCEPT !.lastWasWrite = TRUE]
  OBVIOUS
<1>2. AtFile(h) /\ h.disk = f.disk /\ h.buf = f.buf /\ h.pos = f.pos
      /\ h.open = f.open /\ h.refused = f.refused /\ h.lastWasWrite = TRUE
  BY <1>1, MarkGrows
<1>3. CASE Len(f.buf) + Len(s) > ChunkSize
  <2>1. PICK q \in QFlush(h) : r = IF q.ok THEN Outcome([q.file EXCEPT !.buf = s], TRUE) ELSE q
    BY <1>1, <1>3 DEF QWrite
  <2>2. PICK g : g = q.file
    OBVIOUS
  <2>3. /\ AtFile(g) /\ g.open = h.open /\ g.lastWasWrite = h.lastWasWrite
        /\ q.ok \in BOOLEAN /\ (~q.ok => g.refused)
    BY <1>2, <2>1, <2>2, FlushGrows DEF Grows
  <2>4. CASE q.ok
    <3>1. g.buf = <<>>
      <4>1. PICK a, b, k \in Nat : Moves(h, q, a, b, k)
        BY <1>2, <2>1, FlushMoves
      <4>2. k = b /\ Len(g.buf) = b - k
        BY <2>2, <2>4, <4>1 DEF Moves, IsFlushed
      <4>3. Len(g.buf) = 0
        BY <4>2
      <4> QED BY <2>3, <4>3, FileFields
    <3>2. <<>> \o s = s
      OBVIOUS
    <3>3. PICK t : t = [g EXCEPT !.buf = s]
      OBVIOUS
    <3>4. r.file = t /\ r.ok = TRUE
      BY <2>1, <2>2, <2>4, <3>3 DEF Outcome
    <3>5. /\ AtFile(t) /\ t.disk = g.disk /\ t.pos = g.pos /\ t.buf = s
          /\ t.lastWasWrite = g.lastWasWrite /\ t.open = g.open /\ t.refused = g.refused
      BY <2>3, <3>3 DEF AtFile, File
    <3>6. t.buf = g.buf \o s
      BY <3>1, <3>2, <3>5
    <3>7. WriteIs(f, s, h, g, r)
      BY <1>2, <2>1, <2>2, <2>3, <2>4, <3>4, <3>5, <3>6 DEF WriteIs
    <3> QED BY <3>7
  <2>5. CASE ~q.ok
    <3>1. r = q
      BY <2>1, <2>5
    <3>2. WriteIs(f, s, h, g, r)
      BY <1>2, <2>1, <2>2, <2>3, <2>5, <3>1 DEF WriteIs
    <3> QED BY <3>2
  <2> QED BY <2>3, <2>4, <2>5
<1>4. CASE ~(Len(f.buf) + Len(s) > ChunkSize)
  <2>1. PICK u \in Seq(Cell) : u = f.buf
    BY FileFields
  <2>2. PICK w \in Seq(Cell) : w = u \o s /\ Len(w) = Len(u) + Len(s)
    BY Appended
  <2>3. PICK t : t = [h EXCEPT !.buf = w]
    OBVIOUS
  <2>4. r.file = t /\ r.ok = TRUE
    <3>1. r = Outcome([h EXCEPT !.buf = h.buf \o s], TRUE)
      BY <1>1, <1>4 DEF QWrite
    <3>2. h.buf \o s = w
      BY <1>2, <2>1, <2>2
    <3> QED BY <2>3, <3>1, <3>2 DEF Outcome
  <2>5. /\ AtFile(t) /\ t.disk = h.disk /\ t.pos = h.pos /\ t.buf = w
        /\ t.lastWasWrite = h.lastWasWrite /\ t.open = h.open /\ t.refused = h.refused
    BY <1>2, <2>3 DEF AtFile, File
  <2>6. Len(w) <= ChunkSize
    <3>1. PICK a, b, c \in Nat : a = Len(u) /\ b = Len(s) /\ c = Len(w)
      OBVIOUS
    <3>2. c = a + b /\ ~(a + b > ChunkSize)
      BY <1>4, <2>1, <2>2, <3>1
    <3>3. c <= ChunkSize
      BY <3>2, WriterAssumption
    <3> QED BY <3>1, <3>3
  <2>7. WriteIs(f, s, h, h, r)
    BY <1>2, <2>1, <2>2, <2>4, <2>5, <2>6 DEF WriteIs
  <2> QED BY <2>7
<1> QED BY <1>3, <1>4

LEMMA WriteGrows ==
    ASSUME NEW f, AtFile(f), NEW s \in Seq(Cell), Len(s) <= ChunkSize,
           NEW r \in QWrite(f, s)
    PROVE  /\ Grows(f, r.file) /\ r.file.open = f.open /\ r.file.lastWasWrite
           /\ r.ok \in BOOLEAN /\ (~r.ok => r.file.refused)
<1>1. PICK h, g : WriteIs(f, s, h, g, r)
  BY WriteFlushes
<1>2. PICK t : t = r.file
  OBVIOUS
<1>3. Grows(f, h) /\ AtFile(h)
  <2>1. /\ AtFile(h) /\ h.disk = f.disk /\ h.buf = f.buf /\ h.refused = f.refused
    BY <1>1 DEF WriteIs
  <2> QED BY <2>1, Stays
<1>4. Grows(h, g)
  <2>1. CASE g = h
    BY <1>3, <2>1, Stays
  <2>2. CASE g # h
    BY <1>1, <1>3, <2>2, FlushGrows DEF WriteIs
  <2> QED BY <2>1, <2>2
<1>5. Grows(f, g) /\ AtFile(g)
  BY <1>3, <1>4, GrowsOn DEF Grows
<1>6. CASE r.ok
  <2>1. /\ AtFile(t) /\ t.disk = g.disk /\ t.refused = g.refused /\ t.lastWasWrite
        /\ t.open = f.open /\ Len(t.buf) <= ChunkSize /\ r.ok \in BOOLEAN
    BY <1>1, <1>2, <1>6 DEF WriteIs
  <2>2. Grows(g, t)
    BY <1>5, <2>1, Stays
  <2> QED BY <1>2, <1>5, <1>6, <2>1, <2>2, GrowsOn
<1>7. CASE ~r.ok
  BY <1>1, <1>5, <1>7 DEF WriteIs
<1> QED BY <1>1, <1>6, <1>7 DEF WriteIs

-------------------------------------------------------------------------------
(* The first two parts of the invariant need only this.                    *)

TypeInv == WriterTypeOK /\ PcInv

LEMMA OneHeader ==
    ASSUME NEW n \in Nat, NEW c \in {1, 2}
    PROVE  /\ <<Header(n, c)>> \in Seq(Cell) /\ Len(<<Header(n, c)>>) = 1
           /\ <<Header(n, c)>>[1] = Header(n, c)
           /\ Len(<<Header(n, c)>>) <= ChunkSize
<1>1. PICK h \in Cell : h = Header(n, c)
  BY HeaderType
<1>2. <<h>> \in Seq(Cell) /\ Len(<<h>>) = 1 /\ <<h>>[1] = h
  OBVIOUS
<1>3. 1 <= ChunkSize
  BY WriterAssumption
<1> QED BY <1>1, <1>2, <1>3

LEMMA TypeFacts ==
    ASSUME TypeInv
    PROVE  /\ AtFile(file) /\ Len(file.buf) <= ChunkSize
           /\ frames \in Nat /\ chans \in {1, 2}
           /\ wpc \in {"make", "loop", "seek", "header", "flush", "destroy", "file", "gone"}
           /\ caller \in {"callback", "destructor"}
           /\ verdict \in {"none", "whole", "error"}
           /\ seekFailed \in BOOLEAN
           /\ file.open \in BOOLEAN
           /\ PcInv
<1>1. AtFile(file)
  BY DEF TypeInv, WriterTypeOK, PcInv, AtFile
<1>2. file.open \in BOOLEAN
  BY <1>1, FileFields
<1> QED BY <1>1, <1>2 DEF TypeInv, WriterTypeOK

(* The same of the next state, for a step's last conclusion.               *)
LEMMA TypeNext ==
    ASSUME Grows(file, file'), Len(file.buf) <= ChunkSize,
           frames' \in Nat, chans' \in {1, 2},
           wpc' \in {"make", "loop", "seek", "header", "flush", "destroy", "file", "gone"},
           caller' \in {"callback", "destructor"}, verdict' \in {"none", "whole", "error"},
           seekFailed' \in BOOLEAN
    PROVE  WriterTypeOK' /\ file'.pos <= Len(file'.disk)
<1>1. file' \in File /\ file'.pos <= Len(file'.disk) /\ Len(file'.buf) <= ChunkSize
  BY DEF Grows, AtFile
<1> QED BY <1>1 DEF WriterTypeOK

LEMMA TypeStarts == WriterInit => TypeInv
<1> SUFFICES ASSUME WriterInit PROVE TypeInv
  OBVIOUS
<1>1. PICK old \in Seq(Cell) :
          file = [disk |-> old, pos |-> 0, buf |-> <<>>, lastWasWrite |-> FALSE,
                  open |-> FALSE, refused |-> FALSE]
  BY OldFileAssumption DEF WriterInit
<1>2. PICK e \in Seq(Cell) : e = <<>> /\ Len(e) = 0
  <2>1. <<>> \in Seq(Cell) /\ Len(<<>>) = 0
    OBVIOUS
  <2> QED BY <2>1
<1>3. /\ file \in File /\ file.buf = e /\ file.disk = old /\ file.pos = 0
      /\ ~file.refused /\ ~file.open
  BY <1>1, <1>2 DEF File
<1>4. Len(file.buf) <= ChunkSize /\ 0 <= Len(old)
  BY <1>2, <1>3, WriterAssumption
<1>5. /\ frames = 0 /\ chans = 1 /\ wpc = "make" /\ caller = "callback"
      /\ verdict = "none" /\ seekFailed = FALSE
  BY DEF WriterInit
<1>6. WriterTypeOK
  BY <1>3, <1>4, <1>5 DEF WriterTypeOK
<1>7. PcInv
  BY <1>3, <1>4, <1>5 DEF PcInv
<1> QED BY <1>6, <1>7 DEF TypeInv

LEMMA MakeTypes ==
    ASSUME TypeInv, Make
    PROVE  TypeInv' /\ file'.disk = <<>> /\ file'.buf = <<Dummy>> /\ file'.pos = 0
<1>1. /\ wpc = "make" /\ file \in File /\ file.pos = 0 /\ ~file.refused /\ ~file.open
      /\ chans = 1 /\ frames = 0 /\ caller = "callback" /\ verdict = "none" /\ ~seekFailed
  BY TypeFacts DEF Make, AtFile, PcInv
<1>2. PICK h \in Seq(Cell) : h = <<Dummy>> /\ Len(h) <= ChunkSize
  BY OneHeader DEF Dummy
<1>3. PICK e \in Seq(Cell) : e = <<>> /\ Len(e) = 0
  <2>1. <<>> \in Seq(Cell) /\ Len(<<>>) = 0
    OBVIOUS
  <2> QED BY <2>1
<1>4. file' = [file EXCEPT !.disk = e, !.buf = h, !.lastWasWrite = TRUE, !.open = TRUE]
  BY <1>1, <1>2, <1>3 DEF Make, Dummy
<1>5. /\ file' \in File /\ file'.disk = e /\ file'.buf = h /\ file'.pos = 0
      /\ file'.open = TRUE /\ file'.lastWasWrite = TRUE /\ ~file'.refused
  BY <1>1, <1>4 DEF File
<1>6. /\ chans' = 2 /\ wpc' = "loop" /\ frames' = 0 /\ caller' = "callback"
      /\ verdict' = "none" /\ seekFailed' = FALSE
  BY <1>1, TypeFacts DEF Make
<1>7. WriterTypeOK'
  BY <1>2, <1>5, <1>6 DEF WriterTypeOK
<1>8. PcInv'
  BY <1>3, <1>5, <1>6 DEF PcInv
<1> QED BY <1>2, <1>3, <1>5, <1>7, <1>8 DEF TypeInv

LEMMA WriteTypes ==
    ASSUME TypeInv, NEW m \in 0..BufferLen, Write(m)
    PROVE  /\ TypeInv' /\ wpc = "loop" /\ chans = 2 /\ m \in Nat
           /\ \E s \in Seq(Cell) : /\ s = Frames(frames + 1, m) /\ Len(s) = m
                                   /\ Len(s) <= ChunkSize
           /\ Len(file.disk) <= Len(file'.disk)
<1>1. /\ AtFile(file) /\ Len(file.buf) <= ChunkSize /\ frames \in Nat /\ chans = 2
      /\ wpc = "loop" /\ caller = "callback" /\ verdict = "none" /\ seekFailed = FALSE
      /\ file.open = TRUE
  BY TypeFacts DEF Write, PcInv
<1>2. m \in Nat /\ m <= ChunkSize
  BY WriterAssumption
<1>3. PICK s \in Seq(Cell) : s = Frames(frames + 1, m) /\ Len(s) = m
  BY <1>1, <1>2, FramesType
<1>4. PICK r \in QWrite(file, s) :
         /\ file' = r.file
         /\ wpc' = IF r.ok THEN "loop" ELSE "destroy"
         /\ verdict' = IF r.ok THEN verdict ELSE "error"
  BY <1>3 DEF Write
<1>5. /\ Grows(file, file') /\ file'.open = TRUE /\ file'.lastWasWrite
      /\ r.ok \in BOOLEAN /\ (~r.ok => file'.refused)
  BY <1>1, <1>2, <1>3, <1>4, WriteGrows
<1>6. /\ frames' \in Nat /\ chans' = 2 /\ caller' = "callback" /\ seekFailed' = FALSE
      /\ \/ r.ok /\ wpc' = "loop" /\ verdict' = "none"
         \/ file'.refused /\ wpc' = "destroy" /\ verdict' = "error"
  BY <1>1, <1>2, <1>4, <1>5 DEF Write
<1>7. WriterTypeOK' /\ file'.pos <= Len(file'.disk)
  BY <1>1, <1>5, <1>6, TypeNext
<1>8. PcInv'
  BY <1>5, <1>6, <1>7 DEF PcInv
<1> QED BY <1>1, <1>2, <1>3, <1>5, <1>7, <1>8 DEF TypeInv, Grows

LEMMA SeekTypes ==
    ASSUME TypeInv, Seek
    PROVE  /\ TypeInv' /\ wpc = "seek" /\ chans = 2 /\ file.lastWasWrite
           /\ Len(file.disk) <= Len(file'.disk)
<1>1. /\ AtFile(file) /\ Len(file.buf) <= ChunkSize /\ frames \in Nat /\ chans = 2
      /\ wpc = "seek" /\ caller \in {"callback", "destructor"}
      /\ verdict \in {"none", "error"} /\ (caller = "callback" => verdict = "none")
      /\ seekFailed \in BOOLEAN /\ file.open = TRUE /\ file.lastWasWrite
      /\ verdict = "error" \/ seekFailed => file.refused
  BY TypeFacts DEF Seek, PcInv
<1>2. PICK r \in QSeekStart(file) : file' = r.file /\ seekFailed' = (seekFailed \/ ~r.ok)
  BY DEF Seek
<1>3. /\ Grows(file, file') /\ file'.open = TRUE
      /\ r.ok \in BOOLEAN /\ (~r.ok => file'.refused)
  BY <1>1, <1>2, SeekGrows
<1>4. /\ wpc' = "header" /\ frames' = frames /\ chans' = 2 /\ caller' = caller
      /\ verdict' = verdict /\ seekFailed' \in BOOLEAN
      /\ verdict = "error" \/ seekFailed' => file'.refused
  BY <1>1, <1>2, <1>3 DEF Seek, Grows
<1>5. WriterTypeOK' /\ file'.pos <= Len(file'.disk)
  BY <1>1, <1>3, <1>4, TypeNext
<1>6. PcInv'
  BY <1>1, <1>3, <1>4, <1>5 DEF PcInv
<1> QED BY <1>1, <1>3, <1>5, <1>6 DEF TypeInv, Grows

(* close() has come to its end, or a header is in the buffer.              *)
LEMMA CloseTypes ==
    ASSUME TypeInv, WriteHeader \/ Flush
    PROVE  /\ TypeInv' /\ wpc \in {"header", "flush"} /\ chans = 2
           /\ Len(file.disk) <= Len(file'.disk)
<1>1. /\ AtFile(file) /\ Len(file.buf) <= ChunkSize /\ frames \in Nat /\ chans = 2
      /\ wpc \in {"header", "flush"} /\ caller \in {"callback", "destructor"}
      /\ verdict \in {"none", "error"} /\ (caller = "callback" => verdict = "none")
      /\ seekFailed \in BOOLEAN /\ file.open = TRUE
      /\ wpc = "flush" => file.lastWasWrite
      /\ verdict = "error" \/ seekFailed => file.refused
  BY TypeFacts DEF WriteHeader, Flush, PcInv
<1>2. /\ Grows(file, file')
      /\ \/ file'.open = TRUE /\ file'.lastWasWrite /\ wpc' = "flush" /\ verdict' = verdict
         \/ ~file'.open /\ file'.refused /\ CloseReturns("error")
         \/ ~file'.open /\ CloseReturns("whole")
         \/ file'.open = TRUE /\ file'.lastWasWrite /\ file'.refused /\ CloseReturns("error")
  <2>1. CASE WriteHeader
    <3>1. PICK s \in Seq(Cell) : s = <<Header(frames, chans)>> /\ Len(s) <= ChunkSize
      BY <1>1, OneHeader
    <3>2. PICK r \in QWrite(file, s) :
             IF r.ok THEN file' = r.file /\ wpc' = "flush" /\ verdict' = verdict
             ELSE file' \in QClose(r.file) /\ CloseReturns("error")
      BY <2>1, <3>1 DEF WriteHeader
    <3>3. PICK g : g = r.file
      OBVIOUS
    <3>4. /\ Grows(file, g) /\ AtFile(g) /\ g.open = TRUE /\ g.lastWasWrite
          /\ r.ok \in BOOLEAN /\ (~r.ok => g.refused)
      BY <1>1, <3>1, <3>2, <3>3, WriteGrows DEF Grows
    <3>5. CASE r.ok
      BY <3>2, <3>3, <3>4, <3>5
    <3>6. CASE ~r.ok
      <4>1. file' \in QClose(g) /\ CloseReturns("error")
        BY <3>2, <3>3, <3>6
      <4>2. Grows(g, file') /\ ~file'.open
        BY <3>4, <4>1, CloseGrows
      <4>3. Grows(file, file') /\ file'.refused
        BY <1>1, <3>4, <3>6, <4>2, GrowsOn DEF Grows
      <4> QED BY <4>1, <4>2, <4>3
    <3> QED BY <3>4, <3>5, <3>6
  <2>2. CASE Flush
    <3>1. PICK r \in QFlush(file) :
             IF r.ok THEN file' \in QClose(r.file) /\ CloseReturns("whole")
             ELSE file' = r.file /\ CloseReturns("error")
      BY <2>2 DEF Flush
    <3>2. PICK g : g = r.file
      OBVIOUS
    <3>3. file.lastWasWrite
      BY <1>1, <2>2 DEF Flush
    <3>4. /\ Grows(file, g) /\ AtFile(g) /\ g.open = TRUE
          /\ g.lastWasWrite = file.lastWasWrite
          /\ r.ok \in BOOLEAN /\ (~r.ok => g.refused)
      BY <1>1, <3>1, <3>2, FlushGrows DEF Grows
    <3>5. CASE r.ok
      <4>1. file' \in QClose(g) /\ CloseReturns("whole")
        BY <3>1, <3>2, <3>5
      <4>2. Grows(g, file') /\ ~file'.open
        BY <3>4, <4>1, CloseGrows
      <4>3. Grows(file, file')
        BY <1>1, <3>4, <4>2, GrowsOn
      <4> QED BY <4>1, <4>2, <4>3
    <3>6. CASE ~r.ok
      <4>1. file' = g /\ CloseReturns("error")
        BY <3>1, <3>2, <3>6
      <4> QED BY <3>3, <3>4, <3>6, <4>1
    <3> QED BY <3>4, <3>5, <3>6
  <2> QED BY <2>1, <2>2
<1>3. /\ frames' = frames /\ chans' = 2 /\ caller' = caller /\ seekFailed' = seekFailed
      /\ verdict = "error" \/ seekFailed => file'.refused
  BY <1>1, <1>2 DEF WriteHeader, Flush, Grows
<1>4. \/ file'.open = TRUE /\ file'.lastWasWrite /\ wpc' = "flush" /\ verdict' = verdict
      \/ /\ caller = "callback" /\ wpc' = "destroy" /\ verdict' = "error" /\ file'.refused
         /\ file'.open => file'.lastWasWrite
      \/ caller = "callback" /\ wpc' = "destroy" /\ verdict' = "whole" /\ ~file'.open
      \/ caller = "destructor" /\ wpc' = "file" /\ verdict' = verdict
  BY <1>1, <1>2 DEF CloseReturns
<1>5. WriterTypeOK' /\ file'.pos <= Len(file'.disk)
  BY <1>1, <1>2, <1>3, <1>4, TypeNext
<1>6. PcInv'
  BY <1>1, <1>3, <1>4, <1>5 DEF PcInv
<1> QED BY <1>1, <1>2, <1>5, <1>6 DEF TypeInv, Grows

LEMMA DestroyFileTypes ==
    ASSUME TypeInv, DestroyFile
    PROVE  /\ TypeInv' /\ wpc = "file" /\ chans = 2
           /\ Len(file.disk) <= Len(file'.disk)
<1>1. /\ AtFile(file) /\ Len(file.buf) <= ChunkSize /\ frames \in Nat /\ chans = 2
      /\ wpc = "file" /\ caller = "destructor" /\ verdict \in {"none", "whole", "error"}
      /\ seekFailed \in BOOLEAN
      /\ verdict = "error" \/ seekFailed => file.refused
  BY TypeFacts DEF DestroyFile, PcInv
<1>2. Grows(file, file') /\ ~file'.open
  <2>1. CASE file.open
    <3>1. file' \in QClose(file)
      BY <2>1 DEF DestroyFile
    <3> QED BY <1>1, <3>1, CloseGrows
  <2>2. CASE ~file.open
    <3>1. file' = file
      BY <2>2 DEF DestroyFile
    <3> QED BY <1>1, <2>2, <3>1, Stays
  <2> QED BY <2>1, <2>2
<1>3. /\ wpc' = "gone" /\ frames' = frames /\ chans' = 2 /\ caller' = caller
      /\ verdict' = verdict /\ seekFailed' = seekFailed
      /\ verdict = "error" \/ seekFailed => file'.refused
  BY <1>1, <1>2 DEF DestroyFile, Grows
<1>4. WriterTypeOK' /\ file'.pos <= Len(file'.disk)
  BY <1>1, <1>2, <1>3, TypeNext
<1>5. PcInv'
  BY <1>1, <1>2, <1>3, <1>4 DEF PcInv
<1> QED BY <1>1, <1>2, <1>4, <1>5 DEF TypeInv, Grows

LEMMA RestTypes ==
    ASSUME TypeInv, MakeFails \/ Close \/ Leave \/ Destroy \/ UNCHANGED wvars
    PROVE  TypeInv' /\ file' = file /\ frames' = frames /\ chans' = chans
<1>1. /\ file' = file /\ frames' = frames /\ chans' = chans /\ seekFailed' = seekFailed
      /\ wpc' \in {"make", "loop", "seek", "header", "flush", "destroy", "file", "gone"}
      /\ caller' \in {"callback", "destructor"} /\ verdict' \in {"none", "whole", "error"}
  BY TypeFacts DEF MakeFails, Close, Leave, Destroy, wvars
<1>2. WriterTypeOK'
  BY <1>1 DEF TypeInv, WriterTypeOK
<1>3. PcInv'
  BY <1>1, TypeFacts DEF PcInv, MakeFails, Close, Leave, Destroy, wvars
<1> QED BY <1>1, <1>2, <1>3 DEF TypeInv

LEMMA TypeSteps ==
    ASSUME TypeInv, [WriterNext]_wvars
    PROVE  TypeInv'
BY MakeTypes, WriteTypes, SeekTypes, CloseTypes, DestroyFileTypes, RestTypes
   DEF WriterNext, WriterStep

(* Nothing makes a file shorter that was made.                             *)
LEMMA StepGrows ==
    ASSUME TypeInv, [WriterNext]_wvars, wpc # "make"
    PROVE  Len(file.disk) <= Len(file'.disk)
<1>1. CASE MakeFails \/ Close \/ Leave \/ Destroy \/ UNCHANGED wvars
  BY <1>1, RestTypes, TypeFacts, FileFields
<1>2. ~Make
  BY DEF Make
<1> QED BY <1>1, <1>2, WriteTypes, SeekTypes, CloseTypes, DestroyFileTypes
        DEF WriterNext, WriterStep

(* WriterTypeOK for every length of buffers, chunks and songs.             *)
THEOREM WriterTypeCorrect == WriterSpec => []WriterTypeOK
<1>1. TypeInv /\ [WriterNext]_wvars => TypeInv'
  BY TypeSteps
<1>2. TypeInv => WriterTypeOK
  BY DEF TypeInv
<1> QED BY <1>1, <1>2, TypeStarts, PTL DEF WriterSpec

-------------------------------------------------------------------------------
(* What each operation makes of the shapes of a file.                      *)

LEMMA AudioFacts ==
    ASSUME NEW n \in Nat, NEW h \in Cell
    PROVE  /\ Audio(n, h) \in Seq(Cell) /\ Len(Audio(n, h)) = n + 1
           /\ Audio(n, h)[1] = h
           /\ \A p \in 2..n + 1 : Audio(n, h)[p] = Frame(p - 1)
<1>1. PICK s \in Seq(Cell) : s = Frames(1, n)
  BY FramesType
<1>2. Len(s) = n /\ \A i \in 1..n : s[i] = Frame(1 + i - 1)
  BY <1>1, FramesType
<1>3. PICK u \in Seq(Cell) : u = <<h>> /\ Len(u) = 1 /\ u[1] = h
  <2>1. <<h>> \in Seq(Cell) /\ Len(<<h>>) = 1 /\ <<h>>[1] = h
    OBVIOUS
  <2> QED BY <2>1
<1>4. PICK w \in Seq(Cell) : w = u \o s
  BY Appended
<1>5. /\ Len(w) = 1 + n /\ w[1] = h
      /\ \A i \in 1..n : w[1 + i] = s[i]
  BY <1>2, <1>3, <1>4
<1>6. ASSUME NEW p \in 2..n + 1 PROVE w[p] = Frame(p - 1)
  <2>1. p - 1 \in 1..n /\ 1 + (p - 1) = p /\ 1 + (p - 1) - 1 = p - 1
    OBVIOUS
  <2> QED BY <2>1, <1>2, <1>5
<1>7. w = Audio(n, h) /\ Len(w) = n + 1
  BY <1>1, <1>3, <1>4, <1>5 DEF Audio
<1> QED BY <1>5, <1>6, <1>7

(* A sequence is determined by its cells.                                  *)
LEMMA SameCells ==
    ASSUME NEW d \in Seq(Cell), NEW e \in Seq(Cell), Len(d) = Len(e),
           \A p \in 1..Len(d) : d[p] = e[p]
    PROVE  d = e
OBVIOUS

LEMMA AudioGrows ==
    ASSUME NEW n \in Nat, NEW m \in Nat, NEW h \in Cell
    PROVE  Audio(n, h) \o Frames(n + 1, m) = Audio(n + m, h)
<1>1. PICK u \in Seq(Cell) : u = Audio(n, h)
  BY AudioFacts
<1>2. Len(u) = n + 1 /\ u[1] = h /\ \A p \in 2..n + 1 : u[p] = Frame(p - 1)
  BY <1>1, AudioFacts
<1>3. PICK from \in Nat : from = n + 1
  OBVIOUS
<1>4. PICK s \in Seq(Cell) : s = Frames(from, m)
  BY FramesType
<1>5. Len(s) = m /\ \A i \in 1..m : s[i] = Frame(from + i - 1)
  BY <1>4, FramesType
<1>6. PICK k \in Nat : k = n + m
  OBVIOUS
<1>7. PICK v \in Seq(Cell) : v = Audio(k, h)
  BY AudioFacts
<1>8. Len(v) = k + 1 /\ v[1] = h /\ \A p \in 2..k + 1 : v[p] = Frame(p - 1)
  BY <1>7, AudioFacts
<1>9. PICK w \in Seq(Cell) : w = u \o s
  BY Appended
<1>10. /\ Len(w) = (n + 1) + m
       /\ \A q \in 1..n + 1 : w[q] = u[q]
       /\ \A q \in 1..m : w[(n + 1) + q] = s[q]
  <2>1. PICK a \in Nat : a = n + 1
    OBVIOUS
  <2>2. Len(u) = a /\ Len(s) = m
    BY <2>1, <1>2, <1>5
  <2>3. /\ Len(w) = Len(u) + Len(s)
        /\ \A q \in 1..Len(u) : w[q] = u[q]
        /\ \A q \in 1..Len(s) : w[Len(u) + q] = s[q]
    BY <1>9, Appended
  <2> QED BY <2>1, <2>2, <2>3
<1>11. Len(w) = k + 1
  BY <1>6, <1>10
<1>12. \A p \in 1..k + 1 : w[p] = v[p]
  <2> TAKE p \in 1..k + 1
  <2>1. CASE p = 1
    BY <2>1, <1>2, <1>8, <1>10
  <2>2. CASE p \in 2..n + 1
    <3>1. p \in 1..n + 1 /\ p \in 2..k + 1
      BY <2>2, <1>6
    <3> QED BY <2>2, <3>1, <1>2, <1>8, <1>10
  <2>3. CASE p > n + 1
    <3>1. PICK q \in 1..m : q = p - (n + 1)
      BY <2>3, <1>6
    <3>2. (n + 1) + q = p /\ from + q - 1 = p - 1 /\ p \in 2..k + 1
      BY <2>3, <3>1, <1>3
    <3>3. w[p] = s[q] /\ s[q] = Frame(from + q - 1)
      BY <3>1, <3>2, <1>5, <1>10
    <3> QED BY <3>2, <3>3, <1>8
  <2> QED BY <2>1, <2>2, <2>3
<1>13. w = v
  BY <1>8, <1>11, <1>12, SameCells
<1> QED BY <1>1, <1>3, <1>4, <1>6, <1>7, <1>9, <1>13

(* Cells that go from the buffer to the end of the disk stay in order.     *)
LEMMA FlushStreams ==
    ASSUME NEW f, AtFile(f), NEW c \in Seq(Cell), Streams(f, c), NEW r \in QFlush(f)
    PROVE  /\ Streams(r.file, c)
           /\ r.ok => r.file.buf = <<>> /\ r.file.disk = c
<1>1. PICK a, b, k \in Nat : Moves(f, r, a, b, k)
  BY FlushMoves
<1>2. PICK g : g = r.file
  OBVIOUS
<1>3. /\ a = Len(f.disk) /\ b = Len(f.buf) /\ k <= b
      /\ r.ok \in BOOLEAN /\ (r.ok <=> k = b)
      /\ IsFlushed(f, k, g) /\ AtFile(g)
  BY <1>1, <1>2, FlushMoves DEF Moves
<1>4. PICK l \in Nat : l = Len(c)
  OBVIOUS
<1>5. /\ f.pos = a /\ a + b = l /\ f.open
      /\ \A p \in 1..a : f.disk[p] = c[p]
      /\ \A q \in 1..b : f.buf[q] = c[a + q]
  BY <1>3, <1>4 DEF Streams
<1>6. Len(g.disk) = a + k /\ g.pos = a + k
  <2>1. a + k >= a
    OBVIOUS
  <2> QED BY <1>3, <1>5, <2>1 DEF IsFlushed
<1>7. Len(g.buf) = b - k /\ g.open
  BY <1>3, <1>5 DEF IsFlushed
<1>8. \A p \in 1..a + k : g.disk[p] = c[p]
  <2> TAKE p \in 1..a + k
  <2>1. g.disk[p] = IF p \in a + 1..a + k THEN f.buf[p - a] ELSE f.disk[p]
    BY <1>3, <1>5, <1>6 DEF IsFlushed
  <2>2. CASE p \in a + 1..a + k
    <3>1. p - a \in 1..b /\ a + (p - a) = p
      BY <2>2, <1>3
    <3> QED BY <2>1, <2>2, <3>1, <1>5
  <2>3. CASE p \notin a + 1..a + k
    BY <2>1, <2>3, <1>5
  <2> QED BY <2>2, <2>3
<1>9. k <= b
  BY <1>3
<1>10. \A q \in 1..b - k : g.buf[q] = c[(a + k) + q]
  <2> TAKE q \in 1..b - k
  <2>1. g.buf[q] = f.buf[k + q]
    BY <1>3, <1>7 DEF IsFlushed
  <2>2. k + q \in 1..b /\ a + (k + q) = (a + k) + q
    BY <1>9
  <2> QED BY <2>1, <2>2, <1>5
<1>11. (a + k) + (b - k) = l
  BY <1>5, <1>9
<1>12. Streams(g, c)
  BY <1>4, <1>6, <1>7, <1>8, <1>10, <1>11 DEF Streams
<1>13. ASSUME r.ok PROVE g.buf = <<>> /\ g.disk = c
  <2>0. k = b /\ a + b = l
    BY <1>3, <1>5, <1>13
  <2>1. b - k = 0 /\ a + k = l
    BY <2>0
  <2>2. g.buf = <<>> /\ g.disk \in Seq(Cell)
    BY <2>1, <1>3, <1>7, FileFields
  <2>3. Len(g.disk) = Len(c) /\ \A p \in 1..Len(g.disk) : g.disk[p] = c[p]
    BY <2>1, <1>4, <1>6, <1>8
  <2> QED BY <2>2, <2>3, SameCells
<1> QED BY <1>2, <1>12, <1>13

(* close() when the QFile has nothing to write any more, ...               *)
LEMMA CloseEmpty ==
    ASSUME NEW f, AtFile(f), f.buf = <<>>, NEW g \in QClose(f)
    PROVE  g.disk = f.disk
<1>1. PICK r \in QFlush(f) : g = Shut(r.file)
  BY DEF QClose
<1>2. PICK a, b, k \in Nat : Moves(f, r, a, b, k)
  BY FlushMoves
<1>3. PICK x : x = r.file
  OBVIOUS
<1>4. IsFlushed(f, 0, x)
  <2>1. b = 0 /\ k <= b /\ IsFlushed(f, k, x)
    BY <1>2, <1>3 DEF Moves
  <2>2. k = 0
    BY <2>1
  <2> QED BY <2>1, <2>2
<1>5. AtFile(x)
  BY <1>3, FlushMoves
<1>6. Len(x.disk) = Len(f.disk) /\ \A p \in 1..Len(f.disk) : x.disk[p] = f.disk[p]
  BY <1>4, NothingMoves
<1>7. PICK d, e \in Seq(Cell) : d = x.disk /\ e = f.disk
  BY <1>5, FileFields
<1>8. d = e
  BY <1>6, <1>7, SameCells
<1> QED BY <1>1, <1>3, <1>5, <1>7, <1>8, ShutFacts

(* ... and when it has.                                                    *)
LEMMA CloseStreams ==
    ASSUME NEW f, AtFile(f), NEW c \in Seq(Cell), Streams(f, c), NEW g \in QClose(f)
    PROVE  Prefix(g.disk, c)
<1>1. PICK r \in QFlush(f) : g = Shut(r.file)
  BY DEF QClose
<1>2. PICK x : x = r.file
  OBVIOUS
<1>3. AtFile(x) /\ Streams(x, c)
  BY <1>1, <1>2, FlushStreams, FlushMoves
<1>4. g.disk = x.disk
  BY <1>1, <1>2, <1>3, ShutFacts
<1>5. PICK a, b, l \in Nat : a = Len(x.disk) /\ b = Len(x.buf) /\ l = Len(c)
  BY <1>3, FileFields
<1>6. a + b = l /\ \A p \in 1..a : x.disk[p] = c[p]
  BY <1>3, <1>5 DEF Streams
<1>7. a <= l
  BY <1>6
<1> QED BY <1>4, <1>5, <1>6, <1>7 DEF Prefix

LEMMA SeekStreams ==
    ASSUME NEW f, AtFile(f), f.lastWasWrite, NEW c \in Seq(Cell), Streams(f, c),
           NEW r \in QSeekStart(f)
    PROVE  /\ r.ok \in BOOLEAN
           /\ r.ok => Rewound(r.file, c)
           /\ ~r.ok => Streams(r.file, c)
<1>1. PICK g, q : SeekIs(f, g, q, r)
  BY SeekFlushes
<1>2. AtFile(g) /\ Streams(g, c)
  BY <1>1 DEF SeekIs, Streams
<1>3. Streams(q.file, c) /\ (q.ok => q.file.buf = <<>> /\ q.file.disk = c)
  BY <1>1, <1>2, FlushStreams DEF SeekIs
<1> QED BY <1>1, <1>3 DEF SeekIs, Streams, Rewound

LEMMA WriteStreams ==
    ASSUME NEW f, AtFile(f), NEW c \in Seq(Cell), Streams(f, c),
           NEW s \in Seq(Cell), Len(s) <= ChunkSize, NEW r \in QWrite(f, s)
    PROVE  /\ r.ok \in BOOLEAN
           /\ r.ok => Streams(r.file, c \o s)
           /\ ~r.ok => Streams(r.file, c)
<1>1. PICK h, g : WriteIs(f, s, h, g, r)
  BY WriteFlushes
<1>2. AtFile(h) /\ Streams(h, c)
  BY <1>1 DEF WriteIs, Streams
<1>3. AtFile(g) /\ Streams(g, c)
  BY <1>1, <1>2, FlushStreams DEF WriteIs
<1>4. CASE r.ok
  <2>1. PICK u \in Seq(Cell) : u = g.buf
    BY <1>3, FileFields
  <2>2. PICK t : t = r.file
    OBVIOUS
  <2>3. /\ t.disk = g.disk /\ t.pos = g.pos /\ t.buf = u \o s /\ t.open = g.open
    BY <1>1, <1>4, <2>1, <2>2 DEF WriteIs
  <2>4. PICK a, b, k, l \in Nat : a = Len(g.disk) /\ b = Len(u) /\ k = Len(s) /\ l = Len(c)
    BY <1>3, FileFields
  <2>5. /\ g.pos = a /\ g.open /\ a + b = l
        /\ \A p \in 1..a : g.disk[p] = c[p]
        /\ \A q \in 1..b : u[q] = c[a + q]
    BY <1>3, <2>1, <2>4 DEF Streams
  <2>6. PICK v \in Seq(Cell) : v = u \o s
    BY Appended
  <2>7. PICK d \in Seq(Cell) : d = c \o s
    BY Appended
  <2>8. /\ Len(v) = b + k
        /\ \A q \in 1..b : v[q] = u[q]
        /\ \A q \in 1..k : v[b + q] = s[q]
    BY <2>4, <2>6, Appended
  <2>9. /\ Len(d) = l + k
        /\ \A q \in 1..l : d[q] = c[q]
        /\ \A q \in 1..k : d[l + q] = s[q]
    BY <2>4, <2>7, Appended
  <2>10. \A p \in 1..a : g.disk[p] = d[p]
    <3> TAKE p \in 1..a
    <3>1. p \in 1..l
      BY <2>5
    <3> QED BY <3>1, <2>5, <2>9
  <2>11. \A q \in 1..b + k : v[q] = d[a + q]
    <3> TAKE q \in 1..b + k
    <3>1. CASE q \in 1..b
      <4>1. a + q \in 1..l
        BY <3>1, <2>5
      <4> QED BY <3>1, <4>1, <2>5, <2>8, <2>9
    <3>2. CASE q \notin 1..b
      <4>1. PICK i \in 1..k : q = b + i
        <5>1. q - b \in 1..k /\ q = b + (q - b)
          BY <3>2
        <5> QED BY <5>1
      <4>2. a + q = l + i
        BY <4>1, <2>5
      <4> QED BY <4>1, <4>2, <2>8, <2>9
    <3> QED BY <3>1, <3>2
  <2>12. a + (b + k) = l + k
    BY <2>5
  <2>13. Streams(t, d)
    <3>1. /\ t.open /\ t.pos = a /\ Len(t.disk) = a /\ Len(t.buf) = b + k
          /\ Len(d) = a + (b + k)
      BY <2>3, <2>4, <2>5, <2>6, <2>8, <2>9, <2>12
    <3>2. \A p \in 1..a : t.disk[p] = d[p]
      BY <2>3, <2>10
    <3>3. \A q \in 1..b + k : t.buf[q] = d[a + q]
      BY <2>3, <2>6, <2>11
    <3> QED BY <3>1, <3>2, <3>3 DEF Streams
  <2> QED BY <1>1, <1>4, <2>2, <2>7, <2>13 DEF WriteIs
<1>5. CASE ~r.ok
  BY <1>1, <1>3, <1>5 DEF WriteIs
<1> QED BY <1>1, <1>4, <1>5 DEF WriteIs

LEMMA WriteRewound ==
    ASSUME NEW f, AtFile(f), NEW d, Rewound(f, d), NEW h \in Cell,
           NEW r \in QWrite(f, <<h>>)
    PROVE  r.ok /\ Rewriting(r.file, d, h)
<1>1. PICK s \in Seq(Cell) : s = <<h>> /\ Len(s) = 1
  <2>1. <<h>> \in Seq(Cell) /\ Len(<<h>>) = 1
    OBVIOUS
  <2> QED BY <2>1
<1>2. PICK e \in Seq(Cell) : e = <<>> /\ Len(e) = 0 /\ e \o s = s
  <2>1. <<>> \in Seq(Cell) /\ Len(<<>>) = 0 /\ <<>> \o s = s
    OBVIOUS
  <2> QED BY <2>1
<1>3. PICK g : g = [f EXCEPT !.lastWasWrite = TRUE]
  OBVIOUS
<1>4. AtFile(g) /\ g.disk = d /\ g.buf = e /\ g.pos = 0 /\ g.open
  BY <1>2, <1>3, MarkGrows DEF Rewound
<1>5. ~(Len(f.buf) + Len(s) > ChunkSize)
  <2>1. Len(f.buf) = 0
    BY <1>2 DEF Rewound
  <2> QED BY <2>1, <1>1, WriterAssumption
<1>6. PICK t : t = [g EXCEPT !.buf = s]
  OBVIOUS
<1>7. r = Outcome(t, TRUE)
  <2>1. r = Outcome([g EXCEPT !.buf = g.buf \o s], TRUE)
    BY <1>1, <1>3, <1>5 DEF QWrite
  <2> QED BY <2>1, <1>2, <1>4, <1>6
<1>8. t.disk = d /\ t.buf = s /\ t.pos = 0 /\ t.open
  BY <1>4, <1>6 DEF AtFile, File
<1>9. r.file = t /\ r.ok = TRUE
  BY <1>7 DEF Outcome
<1> QED BY <1>1, <1>8, <1>9 DEF Rewriting

(* The header goes over the one in front, or stays where it is.            *)
LEMMA FlushRewriting ==
    ASSUME NEW f, AtFile(f), NEW n \in Nat, NEW x \in Cell, NEW h \in Cell,
           Rewriting(f, Audio(n, x), h), NEW r \in QFlush(f)
    PROVE  /\ r.ok => r.file.buf = <<>> /\ r.file.disk = Audio(n, h) /\ r.file.open
           /\ ~r.ok => Rewriting(r.file, Audio(n, x), h)
<1>1. PICK a, b, k \in Nat : Moves(f, r, a, b, k)
  BY FlushMoves
<1>2. PICK g : g = r.file
  OBVIOUS
<1>3. PICK c, d \in Seq(Cell) : c = Audio(n, x) /\ d = Audio(n, h)
  BY AudioFacts
<1>4. /\ Len(c) = n + 1 /\ Len(d) = n + 1 /\ c[1] = x /\ d[1] = h
      /\ \A p \in 2..n + 1 : c[p] = Frame(p - 1) /\ d[p] = Frame(p - 1)
  BY <1>3, AudioFacts
<1>5. PICK u \in Seq(Cell) : u = <<h>> /\ Len(u) = 1 /\ u[1] = h
  <2>1. <<h>> \in Seq(Cell) /\ Len(<<h>>) = 1 /\ <<h>>[1] = h
    OBVIOUS
  <2> QED BY <2>1
<1>6. /\ a = n + 1 /\ b = 1 /\ k <= 1 /\ r.ok \in BOOLEAN /\ (r.ok <=> k = 1)
      /\ IsFlushed(f, k, g) /\ AtFile(g)
      /\ f.pos = 0 /\ f.open /\ f.disk = c /\ f.buf = u
  BY <1>1, <1>2, <1>3, <1>4, <1>5, FlushMoves DEF Moves, Rewriting
<1>7. Len(g.disk) = n + 1
  <2>1. Len(g.disk) = IF 0 + k > n + 1 THEN 0 + k ELSE n + 1
    BY <1>4, <1>6 DEF IsFlushed
  <2> QED BY <2>1, <1>6
<1>8. Len(g.buf) = 1 - k /\ g.pos = 0 + k /\ g.open
  BY <1>5, <1>6 DEF IsFlushed
<1>9. \A p \in 1..n + 1 : g.disk[p] = IF p \in 1..k THEN u[p] ELSE c[p]
  <2> TAKE p \in 1..n + 1
  <2>1. g.disk[p] = IF p \in 0 + 1..0 + k THEN f.buf[p - 0] ELSE f.disk[p]
    BY <1>6, <1>7 DEF IsFlushed
  <2>2. p - 0 = p /\ 0 + 1 = 1 /\ 0 + k = k
    OBVIOUS
  <2> QED BY <2>1, <2>2, <1>6
<1>10. g.disk \in Seq(Cell) /\ g.buf \in Seq(Cell)
  BY <1>6, FileFields
<1>11. CASE k = 1
  <2>1. \A p \in 1..n + 1 : g.disk[p] = d[p]
    <3> TAKE p \in 1..n + 1
    <3>1. CASE p = 1
      BY <3>1, <1>4, <1>5, <1>9, <1>11
    <3>2. CASE p # 1
      <4>1. p \in 2..n + 1 /\ p \notin 1..k
        BY <3>2, <1>11
      <4> QED BY <4>1, <1>4, <1>9
    <3> QED BY <3>1, <3>2
  <2>2. g.disk = d
    BY <2>1, <1>4, <1>7, <1>10, SameCells
  <2>3. Len(g.buf) = 0
    BY <1>8, <1>11
  <2>4. g.buf = <<>>
    BY <2>3, <1>6, FileFields
  <2> QED BY <1>2, <1>3, <1>6, <1>8, <1>11, <2>2, <2>4
<1>12. CASE k = 0
  <2>1. \A p \in 1..n + 1 : g.disk[p] = c[p]
    <3> TAKE p \in 1..n + 1
    <3>1. p \notin 1..k
      BY <1>12
    <3> QED BY <3>1, <1>9
  <2>2. g.disk = c
    BY <2>1, <1>4, <1>7, <1>10, SameCells
  <2>3. Len(g.buf) = 1 /\ g.pos = 0
    BY <1>8, <1>12
  <2>4. g.buf[1] = u[0 + 1]
    BY <2>3, <1>6, <1>12 DEF IsFlushed
  <2>5. g.buf = u
    <3>1. \A q \in 1..1 : g.buf[q] = u[q]
      <4> TAKE q \in 1..1
      <4>1. q = 1 /\ 0 + 1 = 1
        OBVIOUS
      <4> QED BY <4>1, <2>4
    <3> QED BY <3>1, <2>3, <1>5, <1>10, SameCells
  <2> QED BY <1>2, <1>3, <1>5, <1>6, <1>8, <1>12, <2>2, <2>3, <2>5 DEF Rewriting
<1> QED BY <1>6, <1>11, <1>12

LEMMA SeekRewriting ==
    ASSUME NEW f, AtFile(f), f.lastWasWrite, NEW n \in Nat, NEW x \in Cell, NEW h \in Cell,
           Rewriting(f, Audio(n, x), h), NEW r \in QSeekStart(f)
    PROVE  /\ r.ok => Rewound(r.file, Audio(n, h))
           /\ ~r.ok => Rewriting(r.file, Audio(n, x), h)
<1>1. PICK g, q : SeekIs(f, g, q, r)
  BY SeekFlushes
<1>2. AtFile(g) /\ Rewriting(g, Audio(n, x), h)
  BY <1>1 DEF SeekIs, Rewriting
<1>3. /\ q.ok => q.file.buf = <<>> /\ q.file.disk = Audio(n, h) /\ q.file.open
      /\ ~q.ok => Rewriting(q.file, Audio(n, x), h)
  BY <1>1, <1>2, FlushRewriting DEF SeekIs
<1> QED BY <1>1, <1>3 DEF SeekIs, Rewound

LEMMA CloseRewriting ==
    ASSUME NEW f, AtFile(f), NEW n \in Nat, NEW x \in Cell, NEW h \in Cell,
           Rewriting(f, Audio(n, x), h), NEW g \in QClose(f)
    PROVE  g.disk \in {Audio(n, x), Audio(n, h)}
<1>1. PICK r \in QFlush(f) : g = Shut(r.file)
  BY DEF QClose
<1>2. AtFile(r.file)
  BY <1>1, FlushMoves
<1>3. g.disk = r.file.disk
  BY <1>1, <1>2, ShutFacts
<1>4. r.file.disk \in {Audio(n, x), Audio(n, h)}
  BY <1>1, FlushRewriting DEF Rewriting
<1> QED BY <1>3, <1>4

-------------------------------------------------------------------------------
(* No operation puts a frame where it does not belong.                     *)

LEMMA FlushPlaced ==
    ASSUME NEW f, AtFile(f), Placed(f), NEW r \in QFlush(f)
    PROVE  /\ Placed(r.file)
           /\ r.file.pos + Len(r.file.buf) = f.pos + Len(f.buf)
           /\ r.ok => r.file.buf = <<>>
<1>1. PICK a, b, k \in Nat : Moves(f, r, a, b, k)
  BY FlushMoves
<1>2. PICK g : g = r.file
  OBVIOUS
<1>3. PICK s \in Nat : s = f.pos
  BY FileFields
<1>4. /\ a = Len(f.disk) /\ b = Len(f.buf) /\ k <= b
      /\ r.ok \in BOOLEAN /\ (r.ok <=> k = b)
      /\ IsFlushed(f, k, g) /\ AtFile(g)
  BY <1>1, <1>2, FlushMoves DEF Moves
<1>5. PICK l \in Nat : l = Len(g.disk)
  BY <1>4, FileFields
<1>6. /\ l = IF s + k > a THEN s + k ELSE a
      /\ Len(g.buf) = b - k /\ g.pos = s + k
      /\ \A p \in 1..l : g.disk[p] = IF p \in s + 1..s + k THEN f.buf[p - s] ELSE f.disk[p]
      /\ \A q \in 1..b - k : g.buf[q] = f.buf[k + q]
  BY <1>3, <1>4, <1>5 DEF IsFlushed
<1>7. /\ \A p \in 1..a : f.disk[p].kind = "header" \/ f.disk[p] = Frame(p - 1)
      /\ \A q \in 1..b : f.buf[q].kind = "header" \/ f.buf[q] = Frame(s + q - 1)
  BY <1>3, <1>4 DEF Placed
<1>8. k <= b
  BY <1>4
<1>9. ASSUME NEW p \in 1..l PROVE g.disk[p].kind = "header" \/ g.disk[p] = Frame(p - 1)
  <2>1. CASE p \in s + 1..s + k
    <3>1. PICK q \in 1..b : q = p - s
      <4>1. p - s \in 1..b
        BY <2>1, <1>8
      <4> QED BY <4>1
    <3>2. s + q - 1 = p - 1
      BY <3>1, <2>1
    <3>3. g.disk[p] = f.buf[q]
      BY <2>1, <3>1, <1>6
    <3> QED BY <3>2, <3>3, <1>7
  <2>2. CASE p \notin s + 1..s + k
    <3>0. s <= a
      BY <1>3, <1>4 DEF AtFile
    <3>1. p \in 1..a
      <4>1. l = IF s + k > a THEN s + k ELSE a
        BY <1>6
      <4> QED BY <2>2, <3>0, <4>1
    <3>2. g.disk[p] = f.disk[p]
      BY <2>2, <1>6
    <3> QED BY <3>1, <3>2, <1>7
  <2> QED BY <2>1, <2>2
<1>10. ASSUME NEW q \in 1..b - k
       PROVE  g.buf[q].kind = "header" \/ g.buf[q] = Frame((s + k) + q - 1)
  <2>1. PICK i \in 1..b : i = k + q /\ s + i - 1 = (s + k) + q - 1
    <3>1. k + q \in 1..b /\ s + (k + q) - 1 = (s + k) + q - 1
      BY <1>8
    <3> QED BY <3>1
  <2> QED BY <2>1, <1>6, <1>7
<1>11. Placed(g)
  BY <1>5, <1>6, <1>9, <1>10 DEF Placed
<1>12. (s + k) + (b - k) = s + b
  BY <1>8
<1>13. ASSUME r.ok PROVE g.buf = <<>>
  <2>1. k = b
    BY <1>4, <1>13
  <2>2. Len(g.buf) = 0
    BY <1>6, <2>1
  <2> QED BY <2>2, <1>4, FileFields
<1> QED BY <1>2, <1>3, <1>4, <1>6, <1>11, <1>12, <1>13

LEMMA ClosePlaced ==
    ASSUME NEW f, AtFile(f), Placed(f), NEW g \in QClose(f)
    PROVE  Placed(g)
<1>1. PICK r \in QFlush(f) : g = Shut(r.file)
  BY DEF QClose
<1>2. AtFile(r.file) /\ Placed(r.file)
  BY <1>1, FlushPlaced, FlushMoves
<1>3. g.disk = r.file.disk /\ Len(g.buf) = 0
  BY <1>1, <1>2, ShutFacts
<1> QED BY <1>2, <1>3 DEF Placed

LEMMA SeekPlaced ==
    ASSUME NEW f, AtFile(f), f.lastWasWrite, Placed(f), NEW r \in QSeekStart(f)
    PROVE  Placed(r.file)
<1>1. PICK g, q : SeekIs(f, g, q, r)
  BY SeekFlushes
<1>2. AtFile(g) /\ Placed(g)
  BY <1>1 DEF SeekIs, Placed
<1>3. Placed(q.file) /\ (q.ok => Len(q.file.buf) = 0)
  BY <1>1, <1>2, FlushPlaced DEF SeekIs
<1>4. CASE r.ok
  <2>1. r.file.disk = q.file.disk /\ Len(r.file.buf) = 0
    BY <1>1, <1>3, <1>4 DEF SeekIs
  <2> QED BY <2>1, <1>3 DEF Placed
<1>5. CASE ~r.ok
  BY <1>1, <1>3, <1>5 DEF SeekIs
<1> QED BY <1>4, <1>5

LEMMA WritePlaced ==
    ASSUME NEW f, AtFile(f), Placed(f), NEW s \in Seq(Cell), Len(s) <= ChunkSize,
           NEW e \in Nat, e = f.pos + Len(f.buf),
           \A i \in 1..Len(s) : s[i].kind = "header" \/ s[i] = Frame(e + i - 1),
           NEW r \in QWrite(f, s)
    PROVE  Placed(r.file)
<1>1. PICK h, g : WriteIs(f, s, h, g, r)
  BY WriteFlushes
<1>2. AtFile(h) /\ Placed(h) /\ e = h.pos + Len(h.buf)
  BY <1>1 DEF WriteIs, Placed
<1>3. AtFile(g) /\ Placed(g) /\ e = g.pos + Len(g.buf)
  BY <1>1, <1>2, FlushPlaced DEF WriteIs
<1>4. CASE r.ok
  <2>1. PICK u \in Seq(Cell) : u = g.buf
    BY <1>3, FileFields
  <2>2. PICK t : t = r.file
    OBVIOUS
  <2>3. /\ t.disk = g.disk /\ t.pos = g.pos /\ t.buf = u \o s
    BY <1>1, <1>4, <2>1, <2>2 DEF WriteIs
  <2>4. PICK a, b, k \in Nat : a = g.pos /\ b = Len(u) /\ k = Len(s)
    BY <1>3, FileFields
  <2>5. PICK v \in Seq(Cell) : v = u \o s
    BY Appended
  <2>6. /\ Len(v) = b + k
        /\ \A q \in 1..b : v[q] = u[q]
        /\ \A q \in 1..k : v[b + q] = s[q]
    BY <2>4, <2>5, Appended
  <2>7. e = a + b
    BY <1>3, <2>1, <2>4
  <2>8. ASSUME NEW q \in 1..b + k PROVE v[q].kind = "header" \/ v[q] = Frame(a + q - 1)
    <3>1. CASE q \in 1..b
      <4>1. u[q].kind = "header" \/ u[q] = Frame(a + q - 1)
        BY <3>1, <1>3, <2>1, <2>4 DEF Placed
      <4> QED BY <3>1, <4>1, <2>6
    <3>2. CASE q \notin 1..b
      <4>1. PICK i \in 1..k : q = b + i
        <5>1. q - b \in 1..k /\ q = b + (q - b)
          BY <3>2
        <5> QED BY <5>1
      <4>2. e + i - 1 = a + q - 1
        BY <4>1, <2>7
      <4>3. s[i].kind = "header" \/ s[i] = Frame(e + i - 1)
        BY <2>4
      <4> QED BY <4>1, <4>2, <4>3, <2>6
    <3> QED BY <3>1, <3>2
  <2>9. Placed(t)
    <3>1. t.buf = v /\ Len(t.buf) = b + k /\ t.pos = a /\ t.disk = g.disk
      BY <2>3, <2>4, <2>5, <2>6
    <3>2. \A p \in 1..Len(t.disk) : t.disk[p].kind = "header" \/ t.disk[p] = Frame(p - 1)
      BY <3>1, <1>3 DEF Placed
    <3> QED BY <3>1, <3>2, <2>8 DEF Placed
  <2> QED BY <2>2, <2>9
<1>5. CASE ~r.ok
  BY <1>1, <1>3, <1>5 DEF WriteIs
<1> QED BY <1>1, <1>4, <1>5 DEF WriteIs

LEMMA DummyType ==
    /\ Dummy \in Cell /\ Dummy.kind = "header"
    /\ frames \in Nat => Final \in Cell /\ Final.kind = "header"
<1>1. Dummy \in Cell
  BY HeaderType DEF Dummy
<1>2. ASSUME frames \in Nat PROVE Final \in Cell
  BY <1>2, HeaderType DEF Final
<1> QED BY <1>1, <1>2 DEF Dummy, Final, Header

LEMMA InvFacts ==
    ASSUME WriterInv
    PROVE  TypeInv /\ PlaceInv /\ (chans = 2 => Placed(file))
BY DEF WriterInv, TypeInv

(* Of the loop only the end of the file must be known.                     *)
LEMMA LoopStreams ==
    ASSUME WriterInv, wpc = "loop"
    PROVE  /\ Streams(file, Audio(frames, Dummy))
           /\ ~seekFailed /\ verdict = "none" /\ chans = 2
           /\ frames + 1 = file.pos + Len(file.buf)
<1>1. /\ AtFile(file) /\ frames \in Nat /\ ~seekFailed /\ verdict = "none"
      /\ chans = 2
  BY InvFacts, TypeFacts DEF PcInv
<1>2. PICK n \in 0..frames, h \in {Dummy, Final} : Kept(n, h) /\ SoughtInv(n, h)
  BY <1>1, InvFacts DEF PlaceInv, Second
<1>3. n = frames /\ h = Dummy /\ Streams(file, Audio(n, h))
  BY <1>1, <1>2 DEF Kept, SoughtInv
<1>4. Len(Audio(frames, Dummy)) = frames + 1
  BY <1>1, AudioFacts, DummyType
<1> QED BY <1>1, <1>3, <1>4 DEF Streams

LEMMA PlacedSteps ==
    ASSUME WriterInv, [WriterNext]_wvars, chans' = 2
    PROVE  Placed(file')
<1>1. /\ TypeInv /\ AtFile(file) /\ frames \in Nat /\ chans \in {1, 2}
      /\ chans = 2 => Placed(file)
  BY InvFacts, TypeFacts
<1>2. PICK e \in Nat : e = file.pos + Len(file.buf)
  <2>1. PICK a, b \in Nat : a = file.pos /\ b = Len(file.buf)
    BY <1>1, FileFields
  <2> QED BY <2>1
<1>3. CASE Make
  <2>1. file'.disk = <<>> /\ file'.buf = <<Dummy>>
    BY <1>1, <1>3, MakeTypes
  <2>2. Len(file'.disk) = 0 /\ Len(file'.buf) = 1 /\ file'.buf[1] = Dummy
    BY <2>1
  <2> QED BY <2>2, DummyType DEF Placed
<1>4. CASE \E m \in 0..BufferLen : Write(m)
  <2>1. PICK m \in 0..BufferLen : Write(m)
    BY <1>4
  <2>2. PICK s \in Seq(Cell) : s = Frames(frames + 1, m) /\ Len(s) = m /\ Len(s) <= ChunkSize
    BY <1>1, <2>1, WriteTypes
  <2>3. wpc = "loop" /\ chans = 2 /\ m \in Nat
    BY <1>1, <2>1, WriteTypes
  <2>4. e = frames + 1
    BY <1>2, <2>3, LoopStreams
  <2>5. \A i \in 1..Len(s) : s[i].kind = "header" \/ s[i] = Frame(e + i - 1)
    BY <2>2, <2>3, <2>4, FramesType
  <2>6. PICK r \in QWrite(file, s) : file' = r.file
    BY <2>1, <2>2 DEF Write
  <2> QED BY <1>1, <1>2, <2>2, <2>3, <2>5, <2>6, WritePlaced
<1>5. CASE Seek
  <2>1. PICK r \in QSeekStart(file) : file' = r.file
    BY <1>5 DEF Seek
  <2> QED BY <1>1, <1>5, <2>1, SeekTypes, SeekPlaced
<1>6. CASE WriteHeader
  <2>1. PICK s \in Seq(Cell) : /\ s = <<Header(frames, chans)>> /\ Len(s) = 1
                               /\ s[1] = Header(frames, chans) /\ Len(s) <= ChunkSize
    BY <1>1, OneHeader
  <2>2. PICK r \in QWrite(file, s) : file' = r.file \/ file' \in QClose(r.file)
    BY <1>6, <2>1 DEF WriteHeader
  <2>3. \A i \in 1..Len(s) : s[i].kind = "header"
    BY <2>1 DEF Header
  <2>4. Placed(r.file) /\ AtFile(r.file)
    BY <1>1, <1>2, <1>6, <2>1, <2>2, <2>3, CloseTypes, WritePlaced, WriteGrows DEF Grows
  <2> QED BY <2>2, <2>4, ClosePlaced
<1>7. CASE Flush
  <2>1. PICK r \in QFlush(file) : file' = r.file \/ file' \in QClose(r.file)
    BY <1>7 DEF Flush
  <2>2. Placed(r.file) /\ AtFile(r.file)
    BY <1>1, <1>7, <2>1, CloseTypes, FlushPlaced, FlushMoves
  <2> QED BY <2>1, <2>2, ClosePlaced
<1>8. CASE DestroyFile
  BY <1>1, <1>8, DestroyFileTypes, ClosePlaced DEF DestroyFile
<1>9. CASE MakeFails \/ Close \/ Leave \/ Destroy \/ UNCHANGED wvars
  BY <1>1, <1>9, RestTypes
<1> QED BY <1>3, <1>4, <1>5, <1>6, <1>7, <1>8, <1>9 DEF WriterNext, WriterStep

-------------------------------------------------------------------------------
(* No step loses track of what is on the disk.                             *)

LEMMA MakePlace ==
    ASSUME WriterInv, Make
    PROVE  PlaceInv'
<1>1. /\ TypeInv' /\ file'.disk = <<>> /\ file'.buf = <<Dummy>> /\ file'.pos = 0
  BY InvFacts, MakeTypes
<1>2. /\ wpc' = "loop" /\ frames' = 0 /\ verdict' = "none" /\ ~seekFailed'
  BY InvFacts, TypeFacts DEF Make, PcInv
<1>3. file'.open
  BY <1>1, <1>2 DEF TypeInv, PcInv
<1>4. PICK h \in Cell : h = Dummy
  BY DummyType
<1>5. /\ Len(Audio(0, h)) = 0 + 1 /\ Audio(0, h)[1] = h
  BY AudioFacts
<1>6. /\ Len(file'.disk) = 0 /\ Len(file'.buf) = 1 /\ file'.buf[1] = h
  BY <1>1, <1>4
<1>7. Streams(file', Audio(0, h))
  BY <1>1, <1>3, <1>5, <1>6 DEF Streams
<1>8. Kept(0, h)' /\ SoughtInv(0, h)'
  BY <1>2, <1>3, <1>4, <1>7 DEF Kept, SoughtInv, Dummy
<1>9. 0 \in 0..frames' /\ h \in {Dummy, Final}'
  BY <1>2, <1>4 DEF Dummy
<1> QED BY <1>2, <1>8, <1>9 DEF PlaceInv, Dummy

LEMMA WritePlace ==
    ASSUME WriterInv, NEW m \in 0..BufferLen, Write(m)
    PROVE  PlaceInv'
<1>1. PICK n \in Nat : n = frames
  BY InvFacts, TypeFacts
<1>2. /\ wpc = "loop" /\ chans = 2 /\ m \in Nat /\ AtFile(file) /\ file.open = TRUE
      /\ verdict = "none" /\ seekFailed' = FALSE /\ frames' = n + m
  BY <1>1, InvFacts, WriteTypes, TypeFacts, LoopStreams DEF Write, PcInv
<1>3. PICK s \in Seq(Cell) : s = Frames(n + 1, m) /\ Len(s) <= ChunkSize
  BY <1>1, InvFacts, WriteTypes
<1>4. PICK h \in Cell : h = Dummy
  BY DummyType
<1>5. PICK c \in Seq(Cell) : c = Audio(n, h)
  BY AudioFacts
<1>6. Streams(file, c)
  BY <1>1, <1>2, <1>4, <1>5, LoopStreams
<1>7. PICK r \in QWrite(file, s) :
         /\ file' = r.file
         /\ wpc' = IF r.ok THEN "loop" ELSE "destroy"
         /\ verdict' = IF r.ok THEN verdict ELSE "error"
  BY <1>1, <1>3 DEF Write
<1>8. r.ok \in BOOLEAN /\ (r.ok => Streams(file', c \o s)) /\ (~r.ok => Streams(file', c))
  BY <1>2, <1>3, <1>6, <1>7, WriteStreams
<1>9. c \o s = Audio(n + m, h)
  BY <1>2, <1>3, <1>5, AudioGrows
<1>10. h \in {Dummy, Final}'
  BY <1>4 DEF Dummy
<1>11. file'.open
  BY <1>8 DEF Streams
<1>12. CASE r.ok
  <2>1. n + m \in 0..frames'
    BY <1>2
  <2>2. Kept(n + m, h)' /\ SoughtInv(n + m, h)'
    BY <1>2, <1>4, <1>7, <1>8, <1>9, <1>10, <1>11, <1>12, <2>1 DEF Kept, SoughtInv, Dummy
  <2> QED BY <1>2, <1>10, <2>1, <2>2 DEF PlaceInv
<1>13. CASE ~r.ok
  <2>1. n \in 0..frames'
    BY <1>2
  <2>2. Kept(n, h)' /\ SoughtInv(n, h)'
    BY <1>5, <1>7, <1>8, <1>10, <1>11, <1>13, <2>1 DEF Kept, SoughtInv
  <2> QED BY <1>2, <1>10, <2>1, <2>2 DEF PlaceInv
<1> QED BY <1>8, <1>12, <1>13

(* Once close() failed a second time, only Placed is known.                *)
LEMMA SecondStays ==
    ASSUME WriterInv, Second, Seek \/ WriteHeader \/ Flush \/ DestroyFile \/ Destroy
    PROVE  Second'
BY InvFacts, TypeFacts DEF Second, Seek, WriteHeader, Flush, DestroyFile, Destroy, CloseReturns

(* What the invariant says when it is known to say something.              *)
LEMMA Soughts ==
    ASSUME WriterInv, chans = 2, ~Second, ~seekFailed
    PROVE  \E n \in Nat, h \in Cell : /\ n \in 0..frames /\ h \in {Dummy, Final}
                                      /\ Kept(n, h) /\ SoughtInv(n, h)
<1>1. frames \in Nat
  BY InvFacts, TypeFacts
<1>2. PICK n \in 0..frames, h \in {Dummy, Final} : Kept(n, h) /\ SoughtInv(n, h)
  BY InvFacts DEF PlaceInv
<1>3. n \in Nat /\ h \in Cell
  BY <1>1, DummyType
<1> QED BY <1>2, <1>3

LEMMA Unsoughts ==
    ASSUME WriterInv, chans = 2, ~Second, seekFailed
    PROVE  \E c \in Seq(Cell), d \in Seq(Cell) :
              /\ c = Audio(frames, Dummy) /\ d = c \o <<Final>>
              /\ UnsoughtInv(c)
<1>1. frames \in Nat
  BY InvFacts, TypeFacts
<1>2. PICK c \in Seq(Cell) : c = Audio(frames, Dummy)
  BY <1>1, AudioFacts, DummyType
<1>3. PICK s \in Seq(Cell) : s = <<Final>>
  BY <1>1, OneHeader DEF Final
<1>4. PICK d \in Seq(Cell) : d = c \o s
  BY Appended
<1>5. UnsoughtInv(c)
  BY <1>2, InvFacts DEF PlaceInv
<1> QED BY <1>2, <1>3, <1>4, <1>5

LEMMA SeekPlace ==
    ASSUME WriterInv, Seek, ~Second
    PROVE  PlaceInv'
<1>1. /\ AtFile(file) /\ frames \in Nat /\ file.lastWasWrite /\ chans = 2 /\ wpc = "seek"
      /\ caller \in {"callback", "destructor"}
      /\ verdict \in {"none", "error"} /\ (caller = "callback" => verdict = "none")
      /\ file.open = TRUE /\ seekFailed \in BOOLEAN
  BY InvFacts, SeekTypes, TypeFacts DEF PcInv
<1>2. ~seekFailed
  BY <1>1, Unsoughts DEF UnsoughtInv
<1>3. PICK n \in Nat, h \in Cell : /\ n \in 0..frames /\ h \in {Dummy, Final}
                                   /\ Kept(n, h) /\ SoughtInv(n, h)
  BY <1>1, <1>2, Soughts
<1>4. PICK r \in QSeekStart(file) : file' = r.file /\ seekFailed' = (seekFailed \/ ~r.ok)
  BY DEF Seek
<1>5. r.ok \in BOOLEAN /\ file'.open
  BY <1>1, <1>4, SeekGrows
<1>6. /\ wpc' = "header" /\ frames' = frames /\ caller' = caller /\ verdict' = verdict
      /\ chans' = 2
  BY <1>1 DEF Seek
<1>7. PICK F \in Cell : F = Final /\ Final' = F /\ Dummy' = Dummy
  BY <1>1, <1>6, DummyType DEF Final, Dummy
<1>8. ASSUME NEW x \in {Dummy, Final}, Kept(n, x), Rewound(file', Audio(n, x)), r.ok
      PROVE  PlaceInv'
  <2>1. Kept(n, x)' /\ SoughtInv(n, x)'
    BY <1>5, <1>6, <1>7, <1>8 DEF Kept, SoughtInv
  <2>2. ~seekFailed' /\ x \in {Dummy', Final'} /\ n \in 0..frames'
    BY <1>2, <1>3, <1>4, <1>6, <1>7, <1>8
  <2> QED BY <2>1, <2>2 DEF PlaceInv
<1>9. CASE ~r.ok /\ verdict = "error"
  <2>1. Second'
    BY <1>1, <1>4, <1>6, <1>9 DEF Second
  <2> QED BY <2>1 DEF PlaceInv
<1>10. CASE Streams(file, Audio(n, h)) /\ ~(~r.ok /\ verdict = "error")
  <2>1. PICK c \in Seq(Cell) : c = Audio(n, h)
    BY AudioFacts
  <2>2. (r.ok => Rewound(file', c)) /\ (~r.ok => Streams(file', c))
    BY <1>1, <1>4, <1>10, <2>1, SeekStreams
  <2>3. CASE r.ok
    BY <1>3, <1>8, <2>1, <2>2, <2>3
  <2>4. CASE ~r.ok
    <3>1. c = Audio(frames', Dummy') /\ seekFailed' = TRUE
      BY <1>3, <1>4, <1>6, <1>7, <1>10, <2>1, <2>4 DEF Kept
    <3>2. UnsoughtInv(c)'
      BY <1>5, <1>6, <2>2, <2>4 DEF UnsoughtInv
    <3> QED BY <3>1, <3>2 DEF PlaceInv
  <2> QED BY <1>5, <2>3, <2>4
<1>11. CASE verdict = "error" /\ Rewriting(file, Audio(n, h), Final) /\ r.ok
  <2>1. Rewound(file', Audio(n, F))
    BY <1>1, <1>4, <1>7, <1>11, SeekRewriting
  <2>2. Kept(n, F)
    BY <1>3, <1>7, <1>11 DEF Kept
  <2> QED BY <1>7, <1>8, <1>11, <2>1, <2>2
<1> QED BY <1>1, <1>3, <1>9, <1>10, <1>11 DEF SoughtInv

LEMMA WriteHeaderPlace ==
    ASSUME WriterInv, WriteHeader, ~Second
    PROVE  PlaceInv'
<1>1. /\ AtFile(file) /\ frames \in Nat /\ chans = 2 /\ wpc = "header"
      /\ verdict \in {"none", "error"} /\ file.open = TRUE /\ seekFailed \in BOOLEAN
  BY InvFacts, TypeFacts DEF PcInv, WriteHeader
<1>2. PICK F \in Cell : F = Final /\ F = Header(frames, chans)
  BY <1>1, DummyType DEF Final
<1>3. PICK s \in Seq(Cell) : s = <<F>> /\ Len(s) <= ChunkSize
  BY <1>1, <1>2, OneHeader
<1>4. PICK r \in QWrite(file, s) :
         IF r.ok THEN file' = r.file /\ wpc' = "flush" /\ verdict' = verdict
         ELSE file' \in QClose(r.file) /\ CloseReturns("error")
  BY <1>2, <1>3 DEF WriteHeader
<1>5. /\ frames' = frames /\ chans' = 2 /\ caller' = caller /\ seekFailed' = seekFailed
      /\ Final' = F /\ Dummy' = Dummy
  BY <1>1, <1>2 DEF WriteHeader, Final, Dummy
<1>6. CASE ~seekFailed
  <2>1. PICK n \in Nat, h \in Cell : /\ n \in 0..frames /\ h \in {Dummy, Final}
                                     /\ Kept(n, h) /\ SoughtInv(n, h)
    BY <1>1, <1>6, Soughts
  <2>2. Rewound(file, Audio(n, h))
    BY <1>1, <2>1 DEF SoughtInv
  <2>3. r.ok /\ Rewriting(file', Audio(n, h), F)
    BY <1>1, <1>3, <1>4, <2>2, WriteRewound
  <2>4. wpc' = "flush" /\ verdict' = verdict /\ file'.open
    BY <1>4, <2>3 DEF Rewriting
  <2>5. Kept(n, h)' /\ SoughtInv(n, h)'
    BY <1>2, <1>5, <2>1, <2>3, <2>4 DEF Kept, SoughtInv
  <2>6. n \in 0..frames' /\ h \in {Dummy', Final'}
    BY <1>2, <1>5, <2>1
  <2> QED BY <1>5, <1>6, <2>5, <2>6 DEF PlaceInv
<1>7. CASE seekFailed
  <2>1. PICK c \in Seq(Cell), d \in Seq(Cell) :
           c = Audio(frames, Dummy) /\ d = c \o <<Final>> /\ UnsoughtInv(c)
    BY <1>1, <1>7, Unsoughts
  <2>2. Streams(file, c)
    BY <1>1, <2>1 DEF UnsoughtInv
  <2>3. d = c \o s /\ d = c \o <<Final'>> /\ c = Audio(frames', Dummy')
    BY <1>2, <1>3, <1>5, <2>1
  <2>4. r.ok \in BOOLEAN /\ (r.ok => Streams(r.file, d)) /\ (~r.ok => Streams(r.file, c))
    BY <1>1, <1>3, <2>2, <2>3, WriteStreams
  <2>5. UnsoughtInv(c)'
    <3>1. CASE r.ok
      <4>1. Streams(file', d) /\ wpc' = "flush" /\ file'.open
        BY <1>4, <2>4, <3>1 DEF Streams
      <4> QED BY <2>3, <4>1 DEF UnsoughtInv
    <3>2. CASE ~r.ok
      <4>1. file' \in QClose(r.file) /\ CloseReturns("error") /\ AtFile(r.file)
        BY <1>1, <1>3, <1>4, <3>2, WriteGrows DEF Grows
      <4>2. Prefix(file'.disk, c) /\ ~file'.open
        BY <2>4, <3>2, <4>1, CloseStreams, CloseGrows
      <4>3. Prefix(file'.disk, d)
        <5>1. PICK a, b \in Nat : a = Len(c) /\ b = Len(s)
          OBVIOUS
        <5>2. Len(d) = a + b /\ \A q \in 1..a : d[q] = c[q]
          <6>1. d = c \o s
            BY <2>3
          <6>2. Len(d) = Len(c) + Len(s) /\ \A q \in 1..Len(c) : d[q] = c[q]
            BY <6>1, Appended
          <6> QED BY <5>1, <6>2
        <5>3. PICK x \in Nat : x = Len(file'.disk)
          <6>1. AtFile(file')
            BY <4>1, CloseGrows DEF Grows
          <6> QED BY <6>1, FileFields
        <5>4. x <= a /\ \A p \in 1..x : file'.disk[p] = c[p]
          BY <4>2, <5>1, <5>3 DEF Prefix
        <5>5. x <= a + b /\ \A p \in 1..x : file'.disk[p] = d[p]
          BY <5>2, <5>4
        <5> QED BY <5>2, <5>3, <5>5 DEF Prefix
      <4>4. wpc' \in {"destroy", "file"} /\ verdict' # "whole"
        BY <1>1, <4>1 DEF CloseReturns
      <4> QED BY <2>3, <4>2, <4>3, <4>4 DEF UnsoughtInv
    <3> QED BY <2>4, <3>1, <3>2
  <2> QED BY <1>5, <1>7, <2>3, <2>5 DEF PlaceInv
<1> QED BY <1>6, <1>7

LEMMA FlushPlace ==
    ASSUME WriterInv, Flush, ~Second
    PROVE  PlaceInv'
<1>1. /\ AtFile(file) /\ frames \in Nat /\ chans = 2 /\ wpc = "flush"
      /\ caller \in {"callback", "destructor"}
      /\ verdict \in {"none", "error"} /\ (caller = "callback" => verdict = "none")
      /\ file.open = TRUE /\ seekFailed \in BOOLEAN
  BY InvFacts, TypeFacts DEF PcInv, Flush
<1>2. PICK F \in Cell : F = Final
  BY <1>1, DummyType
<1>3. PICK r \in QFlush(file) :
         IF r.ok THEN file' \in QClose(r.file) /\ CloseReturns("whole")
         ELSE file' = r.file /\ CloseReturns("error")
  BY DEF Flush
<1>4. /\ frames' = frames /\ chans' = 2 /\ caller' = caller /\ seekFailed' = seekFailed
      /\ Final' = F /\ Dummy' = Dummy
  BY <1>1, <1>2 DEF Flush, Final, Dummy
<1>5. /\ r.ok \in BOOLEAN /\ AtFile(r.file) /\ r.file.open = TRUE
      /\ ~r.ok => r.file.refused
      /\ file.refused => r.file.refused
  BY <1>1, FlushGrows DEF Grows
<1>6. CASE r.ok
  <2>1. file' \in QClose(r.file) /\ Grows(r.file, file') /\ ~file'.open /\ CloseReturns("whole")
    BY <1>3, <1>5, <1>6, CloseGrows
  <2>2. \/ caller = "callback" /\ wpc' = "destroy" /\ verdict' = "whole" /\ verdict = "none"
        \/ caller = "destructor" /\ wpc' = "file" /\ verdict' = verdict
    BY <1>1, <2>1 DEF CloseReturns
  <2>3. CASE ~seekFailed
    <3>1. PICK n \in Nat, h \in Cell : /\ n \in 0..frames /\ h \in {Dummy, Final}
                                       /\ Kept(n, h) /\ SoughtInv(n, h)
      BY <1>1, <2>3, Soughts
    <3>2. Rewriting(file, Audio(n, h), F)
      BY <1>1, <1>2, <3>1 DEF SoughtInv
    <3>3. r.file.buf = <<>> /\ r.file.disk = Audio(n, F)
      BY <1>1, <1>6, <3>2, FlushRewriting
    <3>4. file'.disk = Audio(n, F)
      BY <1>5, <2>1, <3>3, CloseEmpty
    <3>5. CASE verdict # "error"
      <4>1. n = frames /\ file'.disk = Audio(frames', Final')
        BY <1>4, <3>1, <3>4, <3>5 DEF Kept
      <4>2. Kept(frames, Dummy)' /\ SoughtInv(frames, Dummy)'
        BY <1>1, <1>4, <2>1, <2>2, <4>1 DEF Kept, SoughtInv
      <4>3. frames' \in 0..frames' /\ Dummy' \in {Dummy', Final'}
        BY <1>1, <1>4
      <4> QED BY <1>4, <2>3, <4>2, <4>3 DEF PlaceInv
    <3>6. CASE verdict = "error"
      <4>1. wpc' = "file" /\ verdict' = "error"
        BY <2>2, <3>6
      <4>2. file'.refused
        BY <1>1, <1>5, <2>1, <3>6, InvFacts, TypeFacts DEF PcInv, Grows
      <4>3. Kept(n, F)' /\ SoughtInv(n, F)'
        BY <1>2, <1>4, <2>1, <3>1, <3>4, <4>1, <4>2 DEF Kept, SoughtInv
      <4>4. n \in 0..frames' /\ F \in {Dummy', Final'}
        BY <1>4, <3>1
      <4> QED BY <1>4, <2>3, <4>3, <4>4 DEF PlaceInv
    <3> QED BY <3>5, <3>6
  <2>4. CASE seekFailed
    <3>1. PICK c \in Seq(Cell), d \in Seq(Cell) :
             c = Audio(frames, Dummy) /\ d = c \o <<Final>> /\ UnsoughtInv(c)
      BY <1>1, <2>4, Unsoughts
    <3>2. Streams(file, d)
      BY <1>1, <3>1 DEF UnsoughtInv
    <3>3. r.file.buf = <<>> /\ r.file.disk = d
      BY <1>1, <1>6, <3>2, FlushStreams
    <3>4. file'.disk = d
      BY <1>5, <2>1, <3>3, CloseEmpty
    <3>5. Prefix(d, d)
      <4>1. Len(d) <= Len(d)
        OBVIOUS
      <4> QED BY <4>1 DEF Prefix
    <3>6. d = c \o <<Final'>> /\ c = Audio(frames', Dummy')
      BY <1>2, <1>4, <3>1
    <3>7. UnsoughtInv(c)'
      BY <2>1, <2>2, <3>4, <3>5, <3>6 DEF UnsoughtInv
    <3> QED BY <1>4, <2>4, <3>6, <3>7 DEF PlaceInv
  <2> QED BY <1>1, <2>3, <2>4
<1>7. CASE ~r.ok
  <2>1. file' = r.file /\ file'.open /\ file'.refused /\ CloseReturns("error")
    BY <1>3, <1>5, <1>7
  <2>2. \/ caller = "callback" /\ wpc' = "destroy" /\ verdict' = "error"
        \/ caller = "destructor" /\ wpc' = "file" /\ verdict' = verdict
    BY <1>1, <2>1 DEF CloseReturns
  <2>3. CASE ~seekFailed
    <3>1. PICK n \in Nat, h \in Cell : /\ n \in 0..frames /\ h \in {Dummy, Final}
                                       /\ Kept(n, h) /\ SoughtInv(n, h)
      BY <1>1, <2>3, Soughts
    <3>2. Rewriting(file, Audio(n, h), F)
      BY <1>1, <1>2, <3>1 DEF SoughtInv
    <3>3. Rewriting(file', Audio(n, h), F)
      BY <1>1, <1>7, <2>1, <3>2, FlushRewriting
    <3>4. Kept(n, h)'
      BY <1>2, <1>4, <2>2, <3>1 DEF Kept
    <3>5. SoughtInv(n, h)'
      BY <1>4, <2>1, <2>2, <3>3 DEF SoughtInv
    <3>6. n \in 0..frames' /\ h \in {Dummy', Final'}
      BY <1>2, <1>4, <3>1
    <3> QED BY <1>4, <2>3, <3>4, <3>5, <3>6 DEF PlaceInv
  <2>4. CASE seekFailed
    <3>1. PICK c \in Seq(Cell), d \in Seq(Cell) :
             c = Audio(frames, Dummy) /\ d = c \o <<Final>> /\ UnsoughtInv(c)
      BY <1>1, <2>4, Unsoughts
    <3>2. Streams(file, d)
      BY <1>1, <3>1 DEF UnsoughtInv
    <3>3. Streams(file', d)
      BY <1>1, <2>1, <3>2, FlushStreams
    <3>4. d = c \o <<Final'>> /\ c = Audio(frames', Dummy')
      BY <1>2, <1>4, <3>1
    <3>5. UnsoughtInv(c)'
      BY <2>1, <2>2, <3>3, <3>4 DEF UnsoughtInv
    <3> QED BY <1>4, <2>4, <3>4, <3>5 DEF PlaceInv
  <2> QED BY <1>1, <2>3, <2>4
<1> QED BY <1>5, <1>6, <1>7

LEMMA DestroyFilePlace ==
    ASSUME WriterInv, DestroyFile, ~Second
    PROVE  PlaceInv'
<1>1. /\ AtFile(file) /\ frames \in Nat /\ chans = 2 /\ wpc = "file"
      /\ file.open \in BOOLEAN /\ (file.open => verdict # "whole") /\ seekFailed \in BOOLEAN
  BY InvFacts, TypeFacts DEF PcInv, DestroyFile
<1>2. PICK F \in Cell : F = Final
  BY <1>1, DummyType
<1>3. /\ frames' = frames /\ chans' = 2 /\ caller' = caller /\ seekFailed' = seekFailed
      /\ verdict' = verdict /\ wpc' = "gone" /\ Final' = F /\ Dummy' = Dummy
  BY <1>1, <1>2 DEF DestroyFile, Final, Dummy
<1>4. CASE ~file.open
  <2>1. file' = file
    BY <1>4 DEF DestroyFile
  <2>2. CASE ~seekFailed
    <3>1. PICK n \in Nat, h \in Cell : /\ n \in 0..frames /\ h \in {Dummy, Final}
                                       /\ Kept(n, h) /\ SoughtInv(n, h)
      BY <1>1, <2>2, Soughts
    <3>2. Kept(n, h)' /\ SoughtInv(n, h)'
      BY <1>2, <1>3, <1>4, <2>1, <3>1 DEF Kept, SoughtInv
    <3>3. n \in 0..frames' /\ h \in {Dummy', Final'}
      BY <1>2, <1>3, <3>1
    <3> QED BY <1>3, <2>2, <3>2, <3>3 DEF PlaceInv
  <2>3. CASE seekFailed
    <3>1. UnsoughtInv(Audio(frames, Dummy))
      BY <1>1, <2>3, InvFacts DEF PlaceInv
    <3>2. PICK c : c = Audio(frames, Dummy) /\ c = Audio(frames', Dummy')
      BY <1>3
    <3>3. UnsoughtInv(c)'
      BY <1>2, <1>3, <1>4, <2>1, <3>1, <3>2 DEF UnsoughtInv
    <3> QED BY <1>3, <2>3, <3>2, <3>3 DEF PlaceInv
  <2> QED BY <1>1, <2>2, <2>3
<1>5. CASE file.open
  <2>1. file' \in QClose(file)
    BY <1>5 DEF DestroyFile
  <2>2. Grows(file, file') /\ ~file'.open
    BY <1>1, <2>1, CloseGrows
  <2>3. CASE ~seekFailed
    <3>1. PICK n \in Nat, h \in Cell : /\ n \in 0..frames /\ h \in {Dummy, Final}
                                       /\ Kept(n, h) /\ SoughtInv(n, h)
      BY <1>1, <2>3, Soughts
    <3>2. Rewriting(file, Audio(n, h), F) /\ file.refused
      BY <1>1, <1>2, <1>5, <3>1 DEF SoughtInv
    <3>3. file'.disk \in {Audio(n, h), Audio(n, F)} /\ file'.refused
      BY <1>1, <2>1, <2>2, <3>2, CloseRewriting DEF Grows
    <3>4. CASE file'.disk = Audio(n, F) /\ verdict = "error"
      <4>1. Kept(n, F)' /\ SoughtInv(n, F)'
        BY <1>2, <1>3, <2>2, <3>1, <3>3, <3>4 DEF Kept, SoughtInv
      <4>2. n \in 0..frames' /\ F \in {Dummy', Final'}
        BY <1>3, <3>1
      <4> QED BY <1>3, <2>3, <4>1, <4>2 DEF PlaceInv
    <3>5. CASE ~(file'.disk = Audio(n, F) /\ verdict = "error")
      <4>1. file'.disk = Audio(n, h) \/ file'.disk = Audio(frames', Final')
        BY <1>3, <3>1, <3>3, <3>5 DEF Kept
      <4>2. Kept(n, h)' /\ SoughtInv(n, h)'
        BY <1>1, <1>2, <1>3, <1>5, <2>2, <3>1, <3>3, <4>1 DEF Kept, SoughtInv
      <4>3. n \in 0..frames' /\ h \in {Dummy', Final'}
        BY <1>2, <1>3, <3>1
      <4> QED BY <1>3, <2>3, <4>2, <4>3 DEF PlaceInv
    <3> QED BY <3>4, <3>5
  <2>4. CASE seekFailed
    <3>1. PICK c \in Seq(Cell), d \in Seq(Cell) :
             c = Audio(frames, Dummy) /\ d = c \o <<Final>> /\ UnsoughtInv(c)
      BY <1>1, <2>4, Unsoughts
    <3>2. Streams(file, d)
      BY <1>1, <1>5, <3>1 DEF UnsoughtInv
    <3>3. Prefix(file'.disk, d)
      BY <1>1, <2>1, <3>2, CloseStreams
    <3>4. d = c \o <<Final'>> /\ c = Audio(frames', Dummy')
      BY <1>2, <1>3, <3>1
    <3>5. UnsoughtInv(c)'
      BY <1>1, <1>3, <1>5, <2>2, <3>3, <3>4 DEF UnsoughtInv
    <3> QED BY <1>3, <2>4, <3>4, <3>5 DEF PlaceInv
  <2> QED BY <1>1, <2>3, <2>4
<1> QED BY <1>1, <1>4, <1>5

LEMMA RestPlace ==
    ASSUME WriterInv, MakeFails \/ Close \/ Leave \/ Destroy \/ UNCHANGED wvars
    PROVE  PlaceInv'
<1>1. /\ file' = file /\ frames' = frames /\ chans' = chans /\ seekFailed' = seekFailed
      /\ Final' = Final /\ Dummy' = Dummy
  BY InvFacts, RestTypes DEF Final, Dummy, MakeFails, Close, Leave, Destroy, wvars
<1>2. CASE MakeFails
  <2>1. chans' = 1
    BY <1>1, <1>2, InvFacts, TypeFacts DEF MakeFails, PcInv
  <2> QED BY <2>1 DEF PlaceInv
<1>3. CASE UNCHANGED wvars
  <2>1. PlaceInv
    BY InvFacts
  <2> QED BY <1>3, <2>1 DEF wvars, PlaceInv, UnsoughtInv, Kept, SoughtInv, Second, Final, Dummy
<1>4. CASE Close \/ Leave
  <2>1. /\ wpc = "loop" /\ wpc' \in {"seek", "destroy"} /\ verdict' = verdict
        /\ file.open /\ frames \in Nat
    BY <1>4, InvFacts, TypeFacts DEF Close, Leave, PcInv
  <2>2. Streams(file, Audio(frames, Dummy)) /\ ~seekFailed /\ verdict = "none"
    BY <2>1, LoopStreams
  <2>3. Kept(frames, Dummy)' /\ SoughtInv(frames, Dummy)'
    BY <1>1, <2>1, <2>2 DEF Kept, SoughtInv
  <2>4. frames' \in 0..frames' /\ Dummy' \in {Dummy', Final'}
    BY <1>1, <2>1
  <2> QED BY <1>1, <2>2, <2>3, <2>4 DEF PlaceInv
<1>5. CASE Destroy /\ ~Second /\ ~seekFailed
  <2>1. /\ wpc = "destroy" /\ chans = 2 /\ verdict' = verdict
        /\ wpc' = IF file.open THEN "seek" ELSE "file"
    BY <1>5, InvFacts, TypeFacts DEF Destroy, PcInv
  <2>2. PICK n \in Nat, h \in Cell : /\ n \in 0..frames /\ h \in {Dummy, Final}
                                     /\ Kept(n, h) /\ SoughtInv(n, h)
    BY <1>5, <2>1, Soughts
  <2>3. Kept(n, h)' /\ SoughtInv(n, h)'
    BY <1>1, <2>1, <2>2 DEF Kept, SoughtInv
  <2>4. n \in 0..frames' /\ h \in {Dummy', Final'}
    BY <1>1, <2>2
  <2> QED BY <1>1, <1>5, <2>3, <2>4 DEF PlaceInv
<1>6. CASE Destroy /\ ~Second /\ seekFailed
  <2>1. /\ wpc = "destroy" /\ chans = 2 /\ verdict' = verdict /\ caller' = "destructor"
        /\ wpc' = IF file.open THEN "seek" ELSE "file"
    BY <1>6, InvFacts, TypeFacts DEF Destroy, PcInv
  <2>2. UnsoughtInv(Audio(frames, Dummy))
    BY <1>6, <2>1, InvFacts DEF PlaceInv
  <2>3. CASE file.open
    <3>1. Second'
      BY <1>1, <1>6, <2>1, <2>2, <2>3 DEF UnsoughtInv, Second
    <3> QED BY <3>1 DEF PlaceInv
  <2>4. CASE ~file.open
    <3>1. PICK c : c = Audio(frames, Dummy) /\ c = Audio(frames', Dummy')
      BY <1>1
    <3>2. UnsoughtInv(c)'
      BY <1>1, <2>1, <2>2, <2>4, <3>1 DEF UnsoughtInv
    <3> QED BY <1>1, <1>6, <3>1, <3>2 DEF PlaceInv
  <2> QED BY <2>3, <2>4
<1>7. CASE Destroy /\ Second
  <2>1. Second'
    BY <1>7, SecondStays
  <2> QED BY <2>1 DEF PlaceInv
<1> QED BY <1>2, <1>3, <1>4, <1>5, <1>6, <1>7

LEMMA PlaceSteps ==
    ASSUME WriterInv, [WriterNext]_wvars
    PROVE  PlaceInv'
<1>1. CASE Second /\ (Seek \/ WriteHeader \/ Flush \/ DestroyFile)
  <2>1. Second'
    BY <1>1, SecondStays
  <2> QED BY <2>1 DEF PlaceInv
<1>2. CASE ~(Second /\ (Seek \/ WriteHeader \/ Flush \/ DestroyFile))
  BY <1>2, MakePlace, WritePlace, SeekPlace, WriteHeaderPlace, FlushPlace,
     DestroyFilePlace, RestPlace DEF WriterNext, WriterStep
<1> QED BY <1>1, <1>2

LEMMA WriterStarts == WriterInit => WriterInv
<1> SUFFICES ASSUME WriterInit PROVE WriterInv
  OBVIOUS
<1>1. TypeInv
  BY TypeStarts
<1>2. chans = 1
  BY DEF WriterInit
<1>3. PlaceInv
  BY <1>2 DEF PlaceInv
<1> QED BY <1>1, <1>2, <1>3 DEF WriterInv, TypeInv

LEMMA WriterSteps ==
    ASSUME WriterInv, [WriterNext]_wvars
    PROVE  WriterInv'
<1>1. TypeInv'
  BY InvFacts, TypeSteps
<1>2. PlaceInv'
  BY PlaceSteps
<1>3. chans' = 2 => Placed(file')
  BY PlacedSteps
<1> QED BY <1>1, <1>2, <1>3 DEF WriterInv, TypeInv

(* The writer's invariant holds for buffers, chunks and songs of any       *)
(* length, whatever the disk refuses and takes again.                      *)
THEOREM WriterInvariance == WriterSpec => []WriterInv
<1>1. WriterInv /\ [WriterNext]_wvars => WriterInv'
  BY WriterSteps
<1> QED BY <1>1, WriterStarts, PTL DEF WriterSpec

-------------------------------------------------------------------------------
(* What it says of the file.                                               *)

LEMMA StreamPrefix ==
    ASSUME NEW f, AtFile(f), NEW c \in Seq(Cell), Streams(f, c)
    PROVE  Prefix(f.disk, c)
<1>1. PICK a, b, l \in Nat : a = Len(f.disk) /\ b = Len(f.buf) /\ l = Len(c)
  BY FileFields
<1>2. a + b = l /\ \A p \in 1..a : f.disk[p] = c[p]
  BY <1>1 DEF Streams
<1>3. a <= l
  BY <1>2
<1> QED BY <1>1, <1>2, <1>3 DEF Prefix

LEMMA SelfPrefix ==
    ASSUME NEW c \in Seq(Cell)
    PROVE  Prefix(c, c)
<1>1. Len(c) <= Len(c)
  OBVIOUS
<1> QED BY <1>1 DEF Prefix

(* A first part of a song behind a header is a shorter song, or nothing.   *)
LEMMA PrefixHolds ==
    ASSUME NEW d \in Seq(Cell), NEW n \in Nat, NEW h \in Cell, Prefix(d, Audio(n, h))
    PROVE  /\ Len(d) <= n + 1
           /\ \A p \in 2..Len(d) : d[p] = Frame(p - 1)
           /\ d # <<>> => \E k \in 0..n : d = Audio(k, h)
<1>1. PICK c \in Seq(Cell) : c = Audio(n, h)
  BY AudioFacts
<1>2. /\ Len(c) = n + 1 /\ c[1] = h
      /\ \A p \in 2..n + 1 : c[p] = Frame(p - 1)
  BY <1>1, AudioFacts
<1>3. PICK a \in Nat : a = Len(d)
  OBVIOUS
<1>4. a <= n + 1 /\ \A p \in 1..a : d[p] = c[p]
  BY <1>1, <1>2, <1>3 DEF Prefix
<1>5. ASSUME NEW p \in 2..a PROVE d[p] = Frame(p - 1)
  <2>1. p \in 1..a /\ p \in 2..n + 1
    BY <1>4
  <2> QED BY <2>1, <1>2, <1>4
<1>6. ASSUME d # <<>> PROVE \E k \in 0..n : d = Audio(k, h)
  <2>1. a # 0
    BY <1>3, <1>6
  <2>2. PICK k \in Nat : a = k + 1
    <3>1. a - 1 \in Nat /\ a = (a - 1) + 1
      BY <2>1
    <3> QED BY <3>1
  <2>3. k \in 0..n
    BY <2>2, <1>4
  <2>4. PICK e \in Seq(Cell) : e = Audio(k, h)
    BY AudioFacts
  <2>5. /\ Len(e) = k + 1 /\ e[1] = h
        /\ \A p \in 2..k + 1 : e[p] = Frame(p - 1)
    BY <2>4, AudioFacts
  <2>6. \A p \in 1..a : d[p] = e[p]
    <3> TAKE p \in 1..a
    <3>1. CASE p = 1
      BY <3>1, <1>2, <1>4, <2>5
    <3>2. CASE p # 1
      <4>1. p \in 2..a /\ p \in 2..k + 1
        BY <3>2, <2>2
      <4> QED BY <4>1, <1>5, <2>5
    <3> QED BY <3>1, <3>2
  <2>7. d = e
    BY <1>3, <2>2, <2>5, <2>6, SameCells
  <2> QED BY <2>3, <2>4, <2>7
<1> QED BY <1>3, <1>4, <1>5, <1>6

(* The disk has a first part of a song, as long as every seek(0) went      *)
(* through, ...                                                            *)
LEMMA SoughtDisk ==
    ASSUME WriterInv, chans = 2, ~seekFailed
    PROVE  \E n \in Nat, h \in Cell : /\ n \in 0..frames /\ h \in {Dummy, Final}
                                      /\ Prefix(file.disk, Audio(n, h))
<1>1. /\ AtFile(file) /\ frames \in Nat /\ file.open \in BOOLEAN /\ ~Second
      /\ wpc \in {"make", "loop", "seek", "header", "flush", "destroy", "file", "gone"}
      /\ wpc # "make" /\ (wpc = "gone" => ~file.open)
  BY InvFacts, TypeFacts DEF PcInv, Second
<1>2. PICK n \in Nat, h \in Cell : /\ n \in 0..frames /\ h \in {Dummy, Final}
                                   /\ Kept(n, h) /\ SoughtInv(n, h)
  BY <1>1, Soughts
<1>3. PICK c \in Seq(Cell) : c = Audio(n, h)
  BY AudioFacts
<1>4. PICK F \in Cell : F = Final
  BY <1>1, DummyType
<1>5. PICK e \in Seq(Cell) : e = Audio(frames, F)
  BY <1>1, AudioFacts
<1>6. Streams(file, c) \/ file.disk = c \/ file.disk = e
  BY <1>1, <1>2, <1>3, <1>4, <1>5 DEF SoughtInv, Rewound, Rewriting
<1>7. CASE Streams(file, c) \/ file.disk = c
  <2>1. Prefix(file.disk, c)
    BY <1>1, <1>7, StreamPrefix, SelfPrefix
  <2> QED BY <1>2, <1>3, <2>1
<1>8. CASE file.disk = e
  <2>1. Prefix(file.disk, e) /\ frames \in 0..frames
    BY <1>1, <1>8, SelfPrefix
  <2> QED BY <1>1, <1>4, <1>5, <2>1
<1> QED BY <1>6, <1>7, <1>8

(* ... and one of the song with the final header at its end after one that *)
(* failed.                                                                 *)
LEMMA UnsoughtDisk ==
    ASSUME WriterInv, chans = 2, ~Second, seekFailed
    PROVE  \E c \in Seq(Cell), d \in Seq(Cell) :
              /\ c = Audio(frames, Dummy) /\ d = c \o <<Final>>
              /\ Prefix(file.disk, d)
              /\ Len(c) = frames + 1 /\ Len(d) = frames + 2
              /\ \A p \in 1..frames + 1 : d[p] = c[p]
<1>1. /\ AtFile(file) /\ frames \in Nat /\ file.open \in BOOLEAN
      /\ wpc \in {"make", "loop", "seek", "header", "flush", "destroy", "file", "gone"}
      /\ wpc # "make"
  BY InvFacts, TypeFacts DEF PcInv
<1>2. PICK c \in Seq(Cell), d \in Seq(Cell) :
         c = Audio(frames, Dummy) /\ d = c \o <<Final>> /\ UnsoughtInv(c)
  BY Unsoughts
<1>3. PICK s \in Seq(Cell) : s = <<Final>> /\ Len(s) = 1
  BY <1>1, OneHeader DEF Final
<1>4. PICK n \in Nat : n = frames
  BY <1>1
<1>5. PICK a \in Nat : a = Len(c) /\ a = n + 1
  BY <1>2, <1>4, AudioFacts, DummyType
<1>6. Len(d) = a + 1 /\ \A p \in 1..a : d[p] = c[p]
  <2>1. d = c \o s
    BY <1>2, <1>3
  <2>2. Len(d) = Len(c) + Len(s) /\ \A p \in 1..Len(c) : d[p] = c[p]
    BY <2>1, Appended
  <2> QED BY <1>3, <1>5, <2>2
<1>7. a + 1 = n + 2
  BY <1>5
<1>8. Prefix(file.disk, d)
  <2>1. CASE wpc = "header"
    <3>1. Prefix(file.disk, c)
      BY <1>1, <1>2, <2>1, StreamPrefix DEF UnsoughtInv
    <3>2. PICK x \in Nat : x = Len(file.disk)
      BY <1>1, FileFields
    <3>3. x <= a /\ \A p \in 1..x : file.disk[p] = c[p]
      BY <1>5, <3>1, <3>2 DEF Prefix
    <3>4. x <= a + 1 /\ \A p \in 1..x : file.disk[p] = d[p]
      BY <1>6, <3>3
    <3> QED BY <1>6, <3>2, <3>4 DEF Prefix
  <2>2. CASE wpc # "header" /\ file.open
    BY <1>1, <1>2, <2>2, StreamPrefix DEF UnsoughtInv
  <2>3. CASE ~file.open
    BY <1>2, <2>3 DEF UnsoughtInv
  <2> QED BY <2>1, <2>2, <2>3
<1> QED BY <1>2, <1>4, <1>5, <1>6, <1>7, <1>8

(* When the song is over and a whole file closed.                          *)
LEMMA ClosedWhole ==
    ASSUME WriterInv, chans = 2, ~file.open, ~seekFailed,
           verdict = "whole" \/ ~file.refused
    PROVE  file.disk = Audio(frames, Final)
BY Soughts DEF SoughtInv, Second

(* No write, seek or close puts a cell where it does not belong, whatever  *)
(* the disk refuses and takes again.                                       *)
THEOREM AudioStaysInOrder == WriterSpec => []AudioInOrder
<1>1. WriterInv => AudioInOrder
  <2> SUFFICES ASSUME WriterInv, chans = 2
               PROVE  /\ \A p \in 1..Len(file.disk) :
                            file.disk[p].kind = "header" \/ file.disk[p] = Frame(p - 1)
                      /\ \/ file.disk = <<>>
                         \/ \E n, m \in 0..frames, c \in {1, 2} : Holds(file.disk, m, c, n)
                         \/ seekFailed /\ (verdict = "error" \/ Misplaced(file.disk))
    BY DEF AudioInOrder
  <2>1. Placed(file) /\ AtFile(file) /\ frames \in Nat /\ seekFailed \in BOOLEAN
    BY InvFacts, TypeFacts
  <2>2. PICK disk \in Seq(Cell) : disk = file.disk
    BY <2>1, FileFields
  <2>3. ASSUME NEW k \in 0..frames, NEW h \in {Dummy, Final}, disk = Audio(k, h)
        PROVE  \E n, m \in 0..frames, c \in {1, 2} : Holds(file.disk, m, c, n)
    <3>1. PICK m \in 0..frames, c \in {1, 2} : h = Header(m, c)
      <4>1. 0 \in 0..frames /\ frames \in 0..frames
        BY <2>1
      <4> QED BY <4>1, <2>3 DEF Dummy, Final
    <3>2. Holds(file.disk, m, c, k)
      BY <2>2, <2>3, <3>1 DEF Holds, Audio
    <3> QED BY <3>2
  <2>4. CASE ~seekFailed
    <3>1. PICK n \in Nat, h \in Cell : /\ n \in 0..frames /\ h \in {Dummy, Final}
                                       /\ Prefix(file.disk, Audio(n, h))
      BY <2>4, SoughtDisk
    <3>2. disk # <<>> => \E k \in 0..n : disk = Audio(k, h)
      BY <2>2, <3>1, PrefixHolds
    <3>3. \A k \in 0..n : k \in 0..frames
      BY <2>1, <3>1
    <3> QED BY <2>1, <2>2, <2>3, <3>1, <3>2, <3>3 DEF Placed
  <2>5. CASE seekFailed /\ ~Second
    <3>1. PICK c \in Seq(Cell), d \in Seq(Cell) :
              /\ c = Audio(frames, Dummy) /\ d = c \o <<Final>>
              /\ Prefix(file.disk, d)
              /\ Len(c) = frames + 1 /\ Len(d) = frames + 2
              /\ \A p \in 1..frames + 1 : d[p] = c[p]
      BY <2>5, UnsoughtDisk
    <3>2. PICK x, n \in Nat : x = Len(disk) /\ n = frames
      BY <2>1
    <3>3. x <= n + 2 /\ \A p \in 1..x : disk[p] = d[p]
      BY <2>2, <3>1, <3>2 DEF Prefix
    <3>4. CASE x = n + 2
      <4>1. disk = d
        BY <3>1, <3>2, <3>3, <3>4, SameCells
      <4>2. Misplaced(file.disk)
        BY <2>2, <3>1, <4>1 DEF Misplaced, Audio, Dummy, Final
      <4> QED BY <2>1, <2>5, <4>2 DEF Placed
    <3>5. CASE x # n + 2
      <4>1. x <= n + 1
        BY <3>3, <3>5
      <4>2. \A p \in 1..x : disk[p] = c[p]
        <5> TAKE p \in 1..x
        <5>1. p \in 1..n + 1
          BY <4>1
        <5> QED BY <5>1, <3>1, <3>2, <3>3
      <4>3. Prefix(disk, Audio(n, Dummy))
        BY <3>1, <3>2, <4>1, <4>2 DEF Prefix
      <4>4. disk # <<>> => \E k \in 0..n : disk = Audio(k, Dummy)
        BY <4>3, PrefixHolds, DummyType
      <4> QED BY <2>1, <2>2, <2>3, <3>2, <4>4 DEF Placed
    <3> QED BY <3>4, <3>5
  <2>6. CASE Second
    BY <2>1, <2>6 DEF Placed, Second
  <2> QED BY <2>1, <2>4, <2>5, <2>6
<1> QED BY <1>1, WriterInvariance, PTL

(* close() reports success only for a closed file with every frame that it *)
(* was given, in order, and with the header where SuccessIsWhole says.     *)
THEOREM SuccessHolds == WriterSpec => []SuccessIsWhole
<1>1. WriterInv => SuccessIsWhole
  <2> SUFFICES ASSUME WriterInv, verdict = "whole"
               PROVE  /\ ~file.open
                      /\ IF seekFailed THEN Misplaced(file.disk)
                         ELSE Holds(file.disk, frames, 2, frames)
                      /\ ~seekFailed /\ RiffExtra + frames < SizeLimit =>
                            /\ file.disk[1].data = frames
                            /\ file.disk[1].riff = RiffExtra + frames
    BY DEF SuccessIsWhole
  <2>1. PICK n \in Nat : n = frames
    BY InvFacts, TypeFacts
  <2>2. ~file.open /\ chans = 2 /\ ~Second /\ seekFailed \in BOOLEAN
    BY InvFacts, TypeFacts DEF PcInv, Second
  <2>3. CASE seekFailed
    <3>1. PICK c, d \in Seq(Cell) :
             c = Audio(frames, Dummy) /\ d = c \o <<Final>> /\ UnsoughtInv(c)
      BY <2>2, <2>3, Unsoughts
    <3>2. file.disk = c \o <<Final>>
      BY <2>2, <3>1 DEF UnsoughtInv
    <3>3. Misplaced(file.disk)
      BY <3>1, <3>2 DEF Misplaced, Audio, Dummy, Final
    <3> QED BY <2>2, <2>3, <3>3
  <2>4. CASE ~seekFailed
    <3>1. file.disk = Audio(n, Header(n, 2))
      BY <2>1, <2>2, <2>4, ClosedWhole DEF Final
    <3>2. Holds(file.disk, n, 2, n)
      BY <3>1 DEF Holds, Audio
    <3>3. file.disk[1] = Header(n, 2)
      BY <3>1, AudioFacts, HeaderType
    <3>4. ASSUME RiffExtra + n < SizeLimit
          PROVE  Header(n, 2).data = n /\ Header(n, 2).riff = RiffExtra + n
      <4>1. n % SizeLimit = n /\ (RiffExtra + n) % SizeLimit = RiffExtra + n
        BY <3>4, WriterAssumption
      <4> QED BY <4>1 DEF Header
    <3> QED BY <2>1, <2>2, <2>4, <3>2, <3>3, <3>4
  <2> QED BY <2>2, <2>3, <2>4
<1> QED BY <1>1, WriterInvariance, PTL

(* A file that is let go after a cancellation or an error is well-formed,  *)
(* unless the disk refused a write.                                        *)
THEOREM EarlyEndHolds == WriterSpec => []EarlyEndIsWhole
<1>1. WriterInv => EarlyEndIsWhole
  <2> SUFFICES ASSUME WriterInv, wpc = "gone", chans = 2, ~file.refused
               PROVE  Holds(file.disk, frames, 2, frames)
    BY DEF EarlyEndIsWhole
  <2>1. ~file.open /\ ~seekFailed
    BY InvFacts, TypeFacts DEF PcInv
  <2>2. file.disk = Audio(frames, Final)
    BY <2>1, ClosedWhole
  <2> QED BY <2>2 DEF Holds, Audio, Final
<1> QED BY <1>1, WriterInvariance, PTL

-------------------------------------------------------------------------------
(* What has reached the disk.                                              *)

LEMMA SamePlaces ==
    ASSUME NEW c, NEW d \in Seq(Cell), NEW e \in Seq(Cell),
           Prefix(d, c), Prefix(e, c), Len(d) <= Len(e)
    PROVE  \A p \in 1..Len(d) : e[p] = d[p]
<1>1. PICK a, b \in Nat : a = Len(d) /\ b = Len(e)
  OBVIOUS
<1>2. /\ a <= b
      /\ \A p \in 1..a : d[p] = c[p]
      /\ \A p \in 1..b : e[p] = c[p]
  BY <1>1 DEF Prefix
<1>3. \A p \in 1..a : p \in 1..b
  BY <1>2
<1> QED BY <1>1, <1>2, <1>3

(* A seek(0) that fails loses nothing, whoever runs close().               *)
LEMMA FailedSeekKeeps ==
    ASSUME WriterInv, Seek, ~seekFailed, seekFailed'
    PROVE  \A p \in 1..Len(file.disk) : file'.disk[p] = file.disk[p]
<1>1. /\ AtFile(file) /\ frames \in Nat /\ file.lastWasWrite /\ chans = 2 /\ wpc = "seek"
      /\ Len(file.disk) <= Len(file'.disk) /\ TypeInv'
  BY InvFacts, SeekTypes, TypeFacts
<1>2. PICK r \in QSeekStart(file) : file' = r.file /\ ~r.ok
  BY DEF Seek
<1>3. AtFile(file')
  BY <1>1, <1>2, SeekGrows DEF Grows
<1>4. PICK n \in Nat, h \in Cell : /\ n \in 0..frames /\ h \in {Dummy, Final}
                                   /\ Kept(n, h) /\ SoughtInv(n, h)
  BY <1>1, Soughts DEF Second
<1>5. PICK c \in Seq(Cell) : c = Audio(n, h)
  BY AudioFacts
<1>6. PICK F \in Cell : F = Final
  BY <1>1, DummyType
<1>7. PICK d, e \in Seq(Cell) : d = file.disk /\ e = file'.disk
  BY <1>1, <1>3, FileFields
<1>8. CASE Streams(file, c)
  <2>1. Streams(file', c)
    BY <1>1, <1>2, <1>8, SeekStreams
  <2>2. Prefix(d, c) /\ Prefix(e, c)
    BY <1>1, <1>3, <1>7, <1>8, <2>1, StreamPrefix
  <2> QED BY <1>1, <1>7, <2>2, SamePlaces
<1>9. CASE Rewriting(file, Audio(n, h), F)
  <2>1. Rewriting(file', Audio(n, h), F)
    BY <1>1, <1>2, <1>9, SeekRewriting
  <2> QED BY <1>9, <2>1 DEF Rewriting
<1> QED BY <1>1, <1>4, <1>5, <1>6, <1>8, <1>9 DEF SoughtInv

(* What the disk has, before and after a step.                             *)
DiskInv ==
    chans = 2 /\ ~Second =>
        IF seekFailed THEN Prefix(file.disk, Audio(frames, Dummy) \o <<Final>>)
        ELSE \E n \in 0..frames, h \in {Dummy, Final} : Prefix(file.disk, Audio(n, h))

LEMMA DiskIs == WriterInv => DiskInv
<1> SUFFICES ASSUME WriterInv, chans = 2, ~Second
             PROVE  IF seekFailed THEN Prefix(file.disk, Audio(frames, Dummy) \o <<Final>>)
                    ELSE \E n \in 0..frames, h \in {Dummy, Final} :
                            Prefix(file.disk, Audio(n, h))
  BY DEF DiskInv
<1>1. seekFailed \in BOOLEAN
  BY InvFacts, TypeFacts
<1>2. CASE seekFailed
  <2>1. Prefix(file.disk, Audio(frames, Dummy) \o <<Final>>)
    BY <1>2, UnsoughtDisk
  <2> QED BY <1>2, <2>1
<1>3. CASE ~seekFailed
  <2>1. \E n \in 0..frames, h \in {Dummy, Final} : Prefix(file.disk, Audio(n, h))
    BY <1>3, SoughtDisk
  <2> QED BY <1>3, <2>1
<1> QED BY <1>1, <1>2, <1>3

LEMMA StepKeeps ==
    ASSUME WriterInv, DiskInv, DiskInv', [WriterNext]_wvars, chans = 2,
           ~(verdict = "error" /\ seekFailed)
    PROVE  \A p \in 2..Len(file.disk) : file'.disk[p] = file.disk[p]
<1>1. /\ AtFile(file) /\ frames \in Nat /\ wpc # "make" /\ seekFailed \in BOOLEAN
      /\ ~Second
  BY InvFacts, TypeFacts DEF PcInv, Second
<1>2. /\ file' \in File /\ frames' \in Nat /\ seekFailed' \in BOOLEAN
      /\ file'.pos <= Len(file'.disk)
  BY InvFacts, TypeSteps DEF TypeInv, WriterTypeOK, PcInv
<1>3. PICK d, e \in Seq(Cell) : d = file.disk /\ e = file'.disk
  BY <1>1, <1>2, FileFields DEF File
<1>4. PICK a, b \in Nat : a = Len(d) /\ b = Len(e)
  OBVIOUS
<1>5. a <= b
  BY <1>1, <1>3, <1>4, InvFacts, StepGrows
<1>6. chans' = 2
  BY DEF WriterNext, WriterStep, wvars, Make, MakeFails, Seek, WriteHeader,
         Flush, Destroy, DestroyFile, Close, Leave, Write
<1>7. seekFailed => seekFailed' /\ frames' = frames /\ ~Second'
  <2> SUFFICES ASSUME seekFailed PROVE seekFailed' /\ frames' = frames /\ ~Second'
    OBVIOUS
  <2>1. wpc # "loop" /\ wpc # "make"
    BY <1>1, LoopStreams
  <2> QED BY <2>1 DEF WriterNext, WriterStep, wvars, Make, MakeFails, Seek, WriteHeader,
              Flush, Destroy, DestroyFile, Close, Leave, Write, Second, CloseReturns
<1>8. ~seekFailed /\ seekFailed' => Seek
  BY DEF WriterNext, WriterStep, wvars, Make, MakeFails, Seek, WriteHeader,
         Flush, Destroy, DestroyFile, Close, Leave, Write
<1>9. CASE ~seekFailed'
  <2>1. ~seekFailed /\ ~Second'
    BY <1>7, <1>9 DEF Second
  <2>2. PICK n \in 0..frames, h \in {Dummy, Final} : Prefix(d, Audio(n, h))
    BY <1>1, <1>3, <2>1 DEF DiskInv
  <2>3. PICK m \in 0..frames', x \in {Dummy', Final'} : Prefix(e, Audio(m, x))
    BY <1>3, <1>6, <1>9, <2>1 DEF DiskInv
  <2>4. n \in Nat /\ m \in Nat /\ h \in Cell
    BY <1>1, <1>2, DummyType
  <2>5. x \in Cell
    BY <1>2, HeaderType DEF Dummy, Final
  <2>6. /\ \A p \in 2..a : d[p] = Frame(p - 1)
        /\ \A p \in 2..b : e[p] = Frame(p - 1)
    BY <1>4, <2>2, <2>3, <2>4, <2>5, PrefixHolds
  <2>7. \A p \in 2..a : p \in 2..b
    BY <1>5
  <2> QED BY <1>3, <1>4, <2>6, <2>7
<1>10. CASE seekFailed
  <2>1. PICK c : c = Audio(frames, Dummy) \o <<Final>>
    OBVIOUS
  <2>2. c = Audio(frames', Dummy') \o <<Final'>> /\ seekFailed' /\ ~Second'
    BY <1>7, <1>10, <2>1 DEF Dummy, Final
  <2>3. Prefix(d, c) /\ Prefix(e, c)
    BY <1>1, <1>3, <1>6, <1>10, <2>1, <2>2 DEF DiskInv
  <2>4. \A p \in 1..a : e[p] = d[p]
    BY <1>4, <1>5, <2>3, SamePlaces
  <2>5. \A p \in 2..a : p \in 1..a
    OBVIOUS
  <2> QED BY <1>3, <1>4, <2>4, <2>5
<1>11. CASE ~seekFailed /\ seekFailed'
  <2>1. \A p \in 1..a : e[p] = d[p]
    BY <1>3, <1>4, <1>8, <1>11, FailedSeekKeeps
  <2>2. \A p \in 2..a : p \in 1..a
    OBVIOUS
  <2> QED BY <1>3, <1>4, <2>1, <2>2
<1> QED BY <1>1, <1>2, <1>9, <1>10, <1>11

(* Once on the disk, always on the disk, unless an error was reported and  *)
(* a seek(0) failed; and what was reported as whole stays as it is.        *)
THEOREM DiskKeepsHolds == WriterSpec => DiskKeeps
<1>1. WriterInv /\ DiskInv /\ DiskInv' /\ [WriterNext]_wvars => DiskKeepsStep
  <2> SUFFICES ASSUME WriterInv, DiskInv, DiskInv', [WriterNext]_wvars, wpc # "make"
               PROVE  /\ Len(file.disk) <= Len(file'.disk)
                      /\ \/ verdict = "error" /\ seekFailed
                         \/ \A p \in 2..Len(file.disk) : file'.disk[p] = file.disk[p]
                      /\ verdict = "whole" => file' = file
    BY DEF DiskKeepsStep
  <2>1. chans \in {1, 2}
    BY InvFacts, TypeFacts
  <2>2. Len(file.disk) <= Len(file'.disk)
    BY InvFacts, StepGrows
  <2>3. CASE chans = 2
    <3>1. \/ verdict = "error" /\ seekFailed
          \/ \A p \in 2..Len(file.disk) : file'.disk[p] = file.disk[p]
      BY <2>3, StepKeeps
    <3>2. ASSUME verdict = "whole" PROVE file' = file
      <4>1. /\ wpc \in {"destroy", "file", "gone"} /\ ~file.open
        BY <2>3, <3>2, InvFacts, TypeFacts DEF PcInv
      <4> QED BY <4>1 DEF WriterNext, WriterStep, wvars, Make, MakeFails, Seek,
                   WriteHeader, Flush, Destroy, DestroyFile, Close, Leave, Write
    <3> QED BY <2>2, <3>1, <3>2
  <2>4. CASE chans = 1
    <3>1. wpc = "gone"
      BY <2>4, InvFacts, TypeFacts DEF PcInv
    <3>2. file' = file
      BY <3>1 DEF WriterNext, WriterStep, wvars, Make, MakeFails, Seek,
                  WriteHeader, Flush, Destroy, DestroyFile, Close, Leave, Write
    <3> QED BY <2>2, <3>2
  <2> QED BY <2>1, <2>3, <2>4
<1> QED BY <1>1, DiskIs, WriterInvariance, PTL DEF WriterSpec, DiskKeeps
===============================================================================
