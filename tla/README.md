# TLA+ models of qvgmsplit

qvgmsplit opens a video game music file (VGM, S98, DRO, GYM), lists the sound
chips and channels in it, lets the user reorder the chips and tick channels, and
renders the full mix and every ticked channel to a `.wav` file of its own, in
parallel. This directory models the program's own logic in TLA+, checks it with
TLC on small instances and proves the most important properties with TLAPS for
every value of the constants.

Contents: [the system](#1-the-system), [the modules](#2-the-modules),
[the runs](#3-the-runs), [bounds](#4-bounds-and-why-they-are-enough),
[fairness](#5-fairness), [proofs](#6-proofs), [findings](#7-findings),
[what is left out](#8-what-is-left-out), [what is left to do](#9-what-is-left-to-do).

## 1. The system

One GUI thread runs the Qt event loop and owns almost everything. The threads of
a `QThreadPool` run render jobs. The two sides share only the
`QFutureInterface` of each job (a locked set of state bits, a progress value and
a slot for an error message) and the pool's queue.

```
 main.cpp ── MainWindowImpl ── StateTransaction ── Backend ── Metadata (libvgm)
                 │  chips / channels views            │
                 │  on_render                         ├─ _render_jobs : futures
                 └── RenderDialogImpl ── polls ───────┘        ▲
                          ▲ resultReadyAt (posted)             │ report*
                          └────────────────────── RenderJob::run on pool threads
                                                        └─ PlayerA, Wave_Writer
```

| Component | State it keeps | Operations | What is hard | What makes it correct |
|---|---|---|---|---|
| **Backend render jobs** (`backend.cpp`, `RenderJobState` to the end of the file) | `_render_jobs`, a job's player, writer and future | `start_render`, `cancel_render`, `is_rendering`, `load_path`'s guard, `RenderJob::run`/`callback` | jobs run while others are still being started; cancellation in the queue, in a buffer, after an error; failed open, write, close; exceptions; more jobs than threads | one writer per file, no running job out of reach, a clean finish is a complete file, every job finishes |
| **Render dialog** (`render_dialog.cpp`) | `JobModel::_progress`, `_is_done`, `_close_on_end`, a timer, message boxes | polling (`update_status`, `get_progress`), Cancel and Close, the cancel prompt, the popup at the end, error events | a poll reads four fields of each job under four separate locks while the job goes on; prompts are open while jobs finish; errors come by another route than the polls | a failed job is never seen as a clean one, success is real, the main window is blocked while anything renders, the dialog gets done and closes |
| **Main window, chip order and channel list** (`mainwindow.cpp`) | `_file_path`, title, status bar, the chips view's current row | open, move up/down, drag and drop, tick, toggle, options, render | index arithmetic of a drop; persistent indexes; several models over one backend | channels follow chips, nothing is lost or doubled, ticks survive, the window shows what will be rendered |
| **State transactions** (`StateTransaction`, `mainwindow.cpp`) | queued update flags, open resets of two models | `file_replaced`, `chips_changed`, `settings_changed`, the destructor | an edit sets flags and begins resets, the destructor must end exactly those | rows change only inside a reset, every reset ends |
| **Song metadata** (`Metadata`, `backend.cpp`) | player, chips, flat channels, sample rate | `make`, `load_settings`, `sort_channels` | two chip orders (libvgm's and the user's), a rate that depends on file and settings | the rate is that of the file and the settings in force |
| **Settings and options dialog** (`settings.cpp`, `options_dialog.cpp`) | `AppSettings`, a `QSettings`, the dialog's copy | load, save, OK, Cancel | several instances share the ini file; values in it that no widget would give | the last change wins; what is shown is what is used |
| **Channel tables and solo masks** (`vgm.cpp`, `backend.cpp:487-513`) | none | `get_chip_metadata`, mute options of a job | one irregular table per chip type, bits of two sub-chips | a job mutes every channel but its own |
| **WAV writer** (`wave_writer.cpp`) | `QFile` with its buffer, `_sample_count`, `_chan_count` | `make`, `write`, `close`, destructor | buffered writes that fail at the flush, a header rewritten in place, a size that wraps | an error is reported, or the file is whole |
| **Player** (`3rdparty/libvgm/player/playera.cpp`) | END/FADE/FIN flags, position | `Render`, computed length | end of song inside a buffer or at its end | the frames rendered are the frames promised |
| Command line, GUI application | none of interest | parse, DPI hooks | nothing | – |
| libvgm emulators, GSL, STX, fmt, utility headers | third party or stateless | – | – | – |

How they interact:

* The GUI thread calls `Backend`; `Backend::load_path` and the edits call back
  through the `StateTransaction` they were given (`file_replaced`,
  `chips_changed`), and the transaction's destructor updates the views.
* `start_render` creates all jobs, then pushes each future and starts its job; from
  then on the job's thread and the GUI share the future.
* `on_render` opens the dialog if `is_rendering()`; the dialog's timer polls the
  futures; a `QFutureWatcher` per job posts `resultReadyAt` to the GUI thread.
* The dialog is modal: this alone keeps `load_path`, `start_render` and the edits
  away from running jobs' list.

`PROJECT.json` lists, under `hazards`, every place where this code is hard to
test, with the properties that watch it.

## 2. The modules

| Module | Models | Lines it stands for |
|---|---|---|
| `RenderJobs` | the backend's render jobs and the thread pool | `backend.cpp` from `RenderJobState`, `wave_writer.cpp` by its outcomes, `playera.cpp`'s end of song |
| `RenderBatch` | the abstract promise: batches of writers that do not overlap | (specification) |
| `RenderCallback` | the abstract promise of one job: a file opened once, buffers up to the end of the song, success only when all is written and closed | (specification) |
| `RenderJobs_proofs` | theorems about `RenderJobs`, and its two refinements | |
| `RenderDialog` | the dialog, modality and `on_render`, composed with `RenderJobs` (it EXTENDS it; each dialog step takes a step of the jobs or leaves them) | `render_dialog.cpp`, `mainwindow.cpp` `on_render` |
| `RenderDialog_proofs` | theorems about the composition | |
| `MainWindow` | song, chip order, channels, rate, transactions | `mainwindow.cpp`, `Metadata` and the edits of `backend.cpp`, `settings.h` |
| `Orders`, `Orders_proofs` | lists of a finite set in a given order, `std::stable_sort`, and what is true of them | the sorts in `backend.cpp`, drops in `mainwindow.cpp` |
| `MCMainWindow` | two songs for `MainWindow` | |
| `MainWindow_proofs` | theorems about `MainWindow` | |
| `WaveWriter` | one `Wave_Writer` over a `QFile` and a disk that may refuse | `wave_writer.cpp` |
| `Player` | how long a song is: computed, and rendered | `playera.cpp`, `vgmplayer.cpp`'s clock, the parameters in `RenderJob::make` |
| `RenderFile` | one `RenderJob::callback` in full: `Player` drives `WaveWriter` (it EXTENDS both; each step is a step of the writer, of both, or of neither) | `backend.cpp` `callback` |
| `MCRenderFile` | songs for `RenderFile` | |
| `WaveWriter_proofs`, `RenderFile_proofs` | theorems about the writer, and about it under the player | |
| `ChannelTable` | the table of channels of every type of chip, as operators | `vgm.cpp` |
| `SoloMute` | the mute options of one job, chip by chip | `backend.cpp:486-513`, libvgm's use of them |
| `MCSoloMute` | the table of `ChannelTable` against the voices of libvgm's cores | |
| `SoloMute_proofs` | theorems about `SoloMute`, for any table | |
| `Settings` | several instances of the program on one ini file | `settings.cpp`, `options_dialog.cpp` |
| `Settings_proofs` | theorems about `Settings` | |

Conventions. Definitions keep the names of the code in CamelCase. A
definition `X_Variant` just before a definition `X` is a form of `X` that a
plausible bug could give it; no specification uses it. Each property is
accompanied, in `PROJECT.json`, by one such variant that breaks it, which shows
that the property can fail in the very instance that is checked. A variable
marked *history* records what happened and is read by properties only.

### RenderJobs

A job is a pair of a render and a row. `pc[j]` says where it is: made by
`start_render`, queued in the pool, or at one of the points of `RenderJob::run`
and `callback`. One step is what happens between two points where another
thread can look: a locked future call, a pool call, or a file operation.

| Code | Model |
|---|---|
| `start_render` up to its loop; a `RenderJob::make` that fails | `StartRender`, `StartRenderFails` |
| its loop (push future, `reportStarted`, `QThreadPool::start`) | `StartJob`, one row at a time, in order; `PoolStart` (external) |
| `cancel_render` | `CancelRender`, then `CancelJob` per job |
| `is_rendering`, the guard of `load_path` and `start_render` | `IsRendering`, `MayReplaceJobs`, `ClearJobs`, `LoadPath` |
| `run()`: `isCanceled()` before `callback()` | `RunJob` |
| `callback()`: make, loop (check, render and write, progress), close | `OpenFile`, `CheckCanceled`, `RenderBuffer`, `ReportProgress`, `CloseFile` |
| `reportResult` of an error, `~Wave_Writer` | `ReportError`, `Unwind` |
| exceptions under `callback()` and the `catch` | `Throw`, `ReportException` |
| `reportFinished`; the pool deletes the job and takes the next | `ReportFinished`, `ThreadReturns` |

Abstractions: audio is a count of frames; a `.wav` path is the row of its job
(`start_render` numbers the files of one render, so different rows have different
paths; two renders of a song use the same paths, which is the case that can go
wrong); an error message is its presence. A thread that has reported
`finished` still holds its place in the pool for a moment: this is a state of
its own (`"return"`), in which a new render may already start.

### RenderDialog

`dlg` is where the dialog is between not existing and being shown; a poll reads
`curr`, `finished`, `error` and `canceled` of each job, one read a step, while
threads go on (`ReadField`); `UpdateRunning` and `UpdateDone` are the rest of
`update_status`. `posted` is the GUI's queue of `resultReadyAt` events.
Cancel, Close, Esc, the cancel prompt and the popup at the end are the actions
of `User`. Modality is in the guards: the main window acts only when no dialog
exists (`HasControl`), the dialog only when none of its boxes is open
(`InDialog`). The prompt and the popup come through the event loop, so polling and events go on
under them. The weights of the master job's progress
(`time_multiplier`) scale both sums alike and are left out.

### MainWindow

A handler edits, then `~StateTransaction` runs `update_file_status` or
`reload_settings`, the chip list, and the channel list, in that order; `step` names what
comes next, and `flags` holds the queued updates. `LoadPath`/`ReplaceFile`, `LoadPathFails`,
`MoveUp`, `MoveDown`, `DropMimeData`, `SelectChip`, `Toggle`, `ToggleSelected`
and `SetAppSettings` are the handlers; `UpdateWindow`, `UpdateChips` and
`UpdateChannels` the destructor. The two chip orders are both there:
`SortedDevices` (the YM2612 followed by its PSG, then by number), which
`load_settings` also uses for the rate, and the user's, in `chips`. Every list that the code
sorts, or builds by loops that append one group behind another, is `Listed` or
`StableSort` of `Orders`: the elements of a set in a given order, each at the place that
the number of elements before it says. The channel list is its slots (chip, channel) in their
order, and a drop sorts rows by before, dragged or behind. None of this is
recursive, so it can be proved about. Rendering is not
in this module: `RenderHasDialog` of `RenderDialog` is what justifies that.

### WaveWriter, Player and RenderFile

`RenderJobs` has many jobs and sees of each what other threads can see;
`RenderFile` has one job and sees all of it. `RenderCallback` is what they share: `Callback`
in either module reads their states as its own, and both are proved to implement it. So the
guards that `RenderJobs` has about frames and ends are those of a real player and a real file. One
difference is inside the abstraction: `RenderJobs` fills each buffer but the last, while the
engine may return a short buffer in the middle, so `RenderCallback` allows any up to `BufferLen`.

A file is a sequence of cells (the header is one, a frame is one). `file` is the
`QFile`: what is on the disk, the engine's position, the write buffer. Each
operation on a `QFile` (`QWrite`, `QFlush`, `QSeekStart`, `QClose`, external) gives the
set of its outcomes: the disk may take any number of the buffer's cells and then refuse. A disk
that refused a flush may take the next one: the other jobs of a render empty the files they open,
and nothing in the code waits or looks (`Taken`).
One step is one such operation, so that what a program that is killed leaves behind is a
state: crashes need no action of their own, `AudioInOrder` speaks of every state.

| Code | Model |
|---|---|
| `Wave_Writer::make`, `enable_stereo` | `Make`, `MakeFails` |
| `write` | `Write(n)`: the count goes up before the write is tried |
| `close`: `seek(0)`, `write_header`, `flush`, each with its early return | `Seek`, `WriteHeader`, `Flush`, `CloseReturns` |
| `~Wave_Writer`, which calls `close` again if the file is still open; `~QFile` | `Destroy`, `DestroyFile` |
| `RenderJob::callback`'s loop and its end; a cancellation or an exception | `RenderBuffer`, `Close`; `Leave` |

`Player` computes, for a song of `total` ticks with a loop or without, the length
that `make()` announces (`RenderSamples`, `Duration`) and what one call of
`PlayerA::Render` returns (`Rendered`). Its three markers (start of the fade, end of
the song, end of the silence) are positions in samples. The engine's rounding is kept:
both conversions round down, and a step advances by at least one sample, so that the
engine meets the end of a song at the first sample whose tick has reached it
(`ReachedAt`), renders one more, and stops there. This is the VGM engine without DAC
streams' single steps (they only make its buffers shorter); S98, DRO and GYM are left out.

### ChannelTable and SoloMute

`ChipRows(type)` is the list of rows that `get_chip_metadata` returns, as pairs of a
sub-chip and a mute bit; the counters of `process_group` become sums over the groups
before. `SoloMute` runs the loop of `RenderJob::make` over the chips of a song:
`ChipMute` is what it tells libvgm about one chip. What is heard (`Heard`) is how
libvgm applies it: a disabled device is not rendered, a masked voice is silent.
The voices themselves come from `MCSoloMute`, counted in the `SetMuteMask` functions of
libvgm's cores. It is this comparison of two tables in two code bases that no test in
either makes.

### Settings

Each instance of the program reads the ini file once (`Start`), keeps what it has set
in its `QSettings` until its event loop comes round (`Sync`) or it ends (`Quit`), and may
have its options dialog open, with a copy of the settings and a spin box. A `QSettings`
sends only the keys that were set; the others in the file stay. A rate is a `uint32`
that the dialog casts to `int` (`AsInt`) and the spin box clamps (`Clamped`).

One user looks at one window at a time: the dialog's actions wait until no
instance has anything unsaved (`UserActs`). Two instances that have both set a value
and not yet sent it would race in `QSettings`, which the program does not control.

## 3. The runs

| Run | Question | Distinct states |
|---|---|---|
| `jobs_safety` | Two renders of up to two rows on two threads: can any interleaving give a file two writers, or lose a running job? No. Do the jobs implement `RenderBatch`: does a batch begin only when the last one let go of its files? Yes. | 2.8 million |
| `jobs_live` | Does every job finish, is a clean finish a complete file, does one canceled in the queue open nothing, does a running one stop within one buffer? Yes, the first under fairness. | 6 thousand |
| `dialog` | Do unlocked polls, prompts and modality hold together: is the view consistent, is claimed success real, is the window blocked, does the dialog get done, close when told to, and log every error? Yes, the last three under fairness. | 115 thousand |
| `window_safety` | Do channels follow chips through every order of edits, without losing a row or a tick, inside balanced resets, with the window showing the truth? Yes. | 98 thousand |
| `file_safety` | One job over a disk that may refuse any write and take the next, for nine songs at four rates: does a success have the promised length and every frame at its place, is what is on the disk a prefix of the song at every moment, does it stay there, does a canceled render leave a well-formed file, does the job end, is it the callback that `RenderJobs` takes it for? Yes; where the final header is after a seek that failed is finding 5. | 9 thousand |
| `solo_safety` | For every channel of 38 types of chips, two of a type in a song: does its job play that voice alone, and are the rows together all voices? Yes. | 2.7 thousand |
| `settings_safety` | Two instances and any ini file: does the last change win, is every rate in use one that the dialog can show, or the one the file had? Yes. | 80 thousand |
| `dialog_spurious` | Can the dialog warn of a time mismatch that is not there? **Yes** (finding 1). | violation |
| `dialog_lost` | Can a render fail without the user being told? **Yes** (finding 2). | violation |
| `solo_opl4` | Does a channel of the OPL4 play as itself? **No** (finding 3). | violation |
| `file_misplaced` | Does a file that `close()` reports as finished have its final header in front? **No** (finding 5). | violation |
| `window_fallback` | Is the fallback rate used when no chip of the song has a rate? **No** (finding 4). | violation |

Deadlock is checked in every run.

The properties, by what they are about:

* *Files.* `OneWriterPerFile`, `CleanFinishIsComplete`,
  `CanceledInQueueWritesNothing`, `CancelStopsWithinOneBuffer`, `RefinesBatch`.
* *Jobs.* `NoOrphan`, `JobsMatchRows`, `EveryJobFinishes`.
* *Dialog.* `RenderHasDialog`, `JobModelFits`, `SnapshotIsConsistent`,
  `SuccessIsReal`, `DialogGetsDone`, `CancelCloses`, `ErrorGetsLogged`.
* *Window.* `ChannelsFollowChips`, `NothingIsLost`, `EnabledSurvives`,
  `CurrentChipStays`, `RowsChangeInReset`, `ResetsEnd`, `WindowShowsFile`,
  `RateFollowsSettings`.
* *The file.* `SuccessIsWhole`, `AudioInOrder`, `EarlyEndIsWhole`,
  `DiskKeeps`, `LengthIsPromised`, `DurationIsPositive`, `RenderEnds`, `RefinesCallback`;
  `HeaderIsFilledIn`.
* *Stems.* `SoloIsAlone`, `StemsAreTheMix`.
* *Settings.* `LastChangeWins`, `RateIsShown`; `FallbackIsUsed` of `MainWindow`.
* One type invariant per module: `TypeOK`, `DialogTypeOK`, `WindowTypeOK`,
  `FileTypeOK` (with `WriterTypeOK` in it), `SettingsTypeOK`. That of `SoloMute`
  (`MuteTypeOK`) is proved and in no run.

## 4. Bounds and why they are enough

* `NumRows = 2`: jobs interact only through the pool, `_render_jobs` and the GUI's
  loops, each of which distinguishes "this job" from "another". With
  two rows a job may run while the next is not yet started, canceled, or read.
* `MaxThreads = 1` lets a job wait in the queue; `2` lets two run. Both occur.
* `MaxRenders = 2` is the fewest at which one render meets another's jobs.
  `1` in the runs about one dialog, whose life lies within one render. There
  are no more than `MaxRenders` renders in a behaviour; this is the only counter that is
  capped, in the guard of `StartRender`.
* `NumSamples`, `BufferLen`, `SampleRate`: `1, 2, 2` (`jobs_safety`) is a song that ends inside its
  first buffer and its first second: the run is about many jobs, not about what one shows; `1, 2, 1`
  (`dialog`) shows progress of one second; `3, 2, 2` (`jobs_live`)
  has a full buffer, a partial one and a last second that is cut off.
* `MainWindow`'s songs: one of a PSG, a YM2612 with two channels and a PWM, in
  an order that has to be sorted; one of two YM2151 whose native rates are above
  100 kHz, so that the settings' rate is used. Three chips are the
  fewest at which a drop can have rows before, at and behind it. Two rates.
* The dialog's run has one thread and two rows: while one job runs, the other waits,
  and each of the four reads of a poll meets each state of each job. Its five
  invariants are proved for any number of threads and rows.
* `RenderFile`: 3 ticks a second and 1 to 4 samples, so that rates below,
  at and above that of the ticks occur; songs of 0 to 5 ticks, so that the end lies
  inside a buffer of 3 frames, at its end and in a later one; loops that are played twice, once
  (loop base) and halved (modifier). The buffer of the `QFile` holds two writes, so
  that a write may or may not flush. `SizeLimit` 12 and `CountLimit` 20 let both
  counters wrap: a looped song with its fade has up to 23 frames. The path holds nothing, or a longer file.
* `SoloMute`: every type of the table, each in a song of two instances, and one song of three
  types. The types are all there are, so this run is exhaustive in the table; only
  `QSOUND`, `ES5506` and `YMF278B` are not in it (section 7).
* `Settings`: two instances; a spin box of 1 to 3 and rates below 10, of which an `int` holds those
  below 5: an ini file may hold 0, a rate in the range, one above it, one that is negative as an
  `int`, no number, or nothing.

The theorems of section 6 have no such bounds.

## 5. Fairness

* `RenderJobs`: weak fairness of the GUI's two loops (a handler that was entered
  returns) and of each job's thread (the operating system schedules it; nothing it does
  blocks for ever). The pool runs the jobs in its queue because a thread that
  returns takes one, which is an action of that thread.
* `RenderDialog`: the same for handlers and threads; strong fairness for the
  timer and for each posted event, because other handlers may run in between
  (their guards go off and on again), while Qt's event queue and its repeating
  timer come back to them.
* `RenderFile`: weak fairness of the job's thread (`Work`). That something throws or
  the user cancels (`EndEarly`) is not fair: `RenderEnds` does not count on it.
* `SoloMute`, `Settings`, `MainWindow`: none; only safety is stated.
* Nothing is assumed of the user: no click is fair, and `DialogGetsDone`, `CancelCloses` and
  `ErrorGetsLogged` hold without any (a prompt may stay open for ever).

## 6. Proofs

TLAPS proves, for every number of rows, threads, renders, frames and every
buffer length (`RenderAssumption`: naturals, with at least one thread and
non-zero buffer length and rate), the following. The other modules' assumptions are as
weak: sets of songs, chips and rates of any size, any table of rows.

**RenderJobs_proofs.** `TypeCorrect`, `OneWriterPerFileHolds`, `NoOrphanHolds`,
`JobsMatchRowsHolds`, `CleanFinish`, `CanceledInQueueHolds`,
`CancelStopsHolds`, `Refinement` and `JobsAreCallbacks`, and what liveness rests on, `JobsAdvance`. None of the properties is
inductive. The inductive invariant is
`Inv == TypeOK /\ LoopInv /\ JobInv /\ FileInv`:

* `LoopInv` ties the list of jobs to the loop over the rows: what has been
  pushed is exactly what the loop has visited;
* `JobInv` says that jobs of earlier renders are over, that a job not yet pushed
  is one the loop still has to visit, and that *finished* is the same as *over*:
  the last is what makes `is_rendering()` a sound guard, since it is all that
  `start_render` looks at;
* `FileInv` says that a writer is open only inside `callback()`, so a job that is
  over holds no file.

`OneWriterPerFile` follows: two writers of one row would be jobs of two renders,
and the earlier one is over. `CleanFinish` needs a second layer, `WorkInv`, which
follows one job through `callback()` (frames written, progress shown, result or
cancellation pending at each point). `Refinement` proves that initial states
map to initial states and every step to a step of `RenderBatch` or a stutter.
The two promises about cancellation speak of what stays true from some state on. Each is an invariant that
begins to hold at that state: `Dropped(j)`, the job was canceled before `run()` looked and can only
go from there to its end; `Stopping(j, n)`, it is canceled and has written no more than the `n` frames it had then,
or at most one buffer more and is not about to write another.
`JobsAreCallbacks` follows one job in the same way, with `CallInv` beside `Inv`.
`JobsAdvance` is the half of `EveryJobFinishes` that is not fairness: `Rank(j)` counts what
a job has left (buffers, then places on the way out); every step of its thread lowers it, and no other step, of the
GUI or of other jobs, raises it. That a pool with a queue has a thread at work is Qt's part, and only modelled.

**RenderDialog_proofs.** `DialogUsesJobs` shows that the composition only
takes steps of `RenderJobs`, so all of the above carries over (`DialogOneWriter`).
On top of `Inv` and `WorkInv` the inductive invariant is
`Own == DialogTypes /\ ControlInv /\ SnapInv /\ SuccessIsReal`. `ControlInv` says who has control
(which loops and polls exclude each other; a done dialog has no running jobs); `SnapInv`
says what a poll in progress knows, row by row and field by field: once
`finished` was read as true, the job's error or cancellation is already there to be read.
It gives `SnapshotHolds`, `SuccessHolds`, `RenderHasDialogHolds`,
`JobModelFitsHolds` and `DialogTypeCorrect`. On top of that, `PromisesHold` is the safety behind the three
liveness properties of the dialog: its timer runs until it has seen the end (`TimerRuns`, for
`DialogGetsDone`), an accepted prompt spares no job (`CancelReachesAll`, for `CancelCloses`), and an error is
shown, posted, or dropped by a cancellation, also one that was reported before the watchers existed
(`ErrorsArrive`, for `ErrorGetsLogged`). `ClosesInformedHolds` follows: when the dialog goes away, no job is at work, all jobs of its render are
finished (`ClosesFinished`), and each error is in its log or its job was canceled. It rests on the order of Qt's event queue: a click that closes the
dialog comes after the events that were posted before it (the guard `posted = {}`).

**Orders_proofs.** `ListedLists`: in any total order of a finite set, `Listed` has every
element once, in that order. The place of an element grows with the element
(`PlaceGrows`), so places are a one-to-one function between finite sets of one size, hence onto
(`PlaceIsOnto`): no induction is needed. From it follow `SortOrderSorts` (a stable sort is a
permutation by keys, then by positions), `RearrangedList` and `FirstIsFirst`.

**MainWindow_proofs.** All properties of `window_safety`, for every set of songs,
chips and rates and any number of channels. `ResetsEndHolds` comes from `ResetInv` (at each step,
the open resets are those the flags stand for), `RateHolds` from `RateInv` (the
rate is right, or the transaction that will make it so is pending, or the last reload
failed). The others come from `SongInv`: the chips are the song's devices rearranged
(`SameChips`), and the channels list all channels of these chips once, those of a chip in
their own order at every moment (`ListsChannels`), and those of all chips in the order of
the chip list unless an edit of it is pending (`InChipOrder`). The lemmas below it say what
each operation makes of such lists: `Sorted`, `Moved`, `Dropped`, `ChannelsListed`,
`ChannelsSorted`, `BoxesTicked`. `WhatChanges` says which steps touch the lists; it gives
the action properties `RowsHold`, `EnabledHold` and `CurrentHolds`. `ShownInv` follows title,
Render action and status bar for `WindowShows`, and `TypeInv` the rest for `WindowTypeHolds`.

**WaveWriter_proofs.** `AudioStaysInOrder`, `SuccessHolds`, `EarlyEndHolds`, `DiskKeepsHolds` and
`WriterTypeCorrect`, for any sizes of buffers, any number of frames, and any disk: nothing is assumed of
when it refuses or takes what. The inductive invariant, `WriterInv`, has the types, where the writer
can be (`PcInv`), and, in `PlaceInv`, what the file is there. All of that turns on one question, so the history variable
`seekFailed` is in it:

* as long as every `seek(0)` went through (`SoughtInv`), the disk followed by the buffer is the song so
  far (`Streams`), then the song is on the disk as a whole and the position at its start (`Rewound`), then the final header waits in
  the buffer (`Rewriting`) or is over the dummy one;
* once one failed under `callback()` (`UnsoughtInv`), the header goes behind the audio, and either all of that
  gets to the disk in one piece or an error is reported;
* when a `seek(0)` fails and an error has been reported, the destructor closes again (`Second`). Then it is only known that
  frames are at their own places (`Placed`): a second header may have come down on one.

The lemmas say what one flush, write or seek makes of each shape (`FlushMoves`, `FlushGrows`, and those
named after the shapes). `DiskKeepsHolds` is about steps: a disk never gets shorter, and no flush overwrites a frame, except
in the last of the three cases. It needs the invariant on both sides of a step: a flush after a seek
may overwrite, and only the invariant says with what.

**RenderFile_proofs.** `RenderDrivesWriter` shows that a job is a refinement of the writer: the
player only chooses how many frames to write and when to close. So `FileHolds` carries the four theorems over.
`LengthHolds` is the arithmetic: the frames that were written follow
the player's position (`LengthInv`), it stops at one sample (`Stop`), and that is the
promised length or one more, in the same second when there are no fewer samples than
ticks. `RenderAdvancesHolds` is the safety half of `RenderEnds`: the samples up to `Stop`, then the places of the
writer, are a rank (`ToDo`) that every step lowers. It is here that an engine that does not move, or a
mark that is not set at a buffer's end, would show. `RenderIsCallback` needs of the player that a
render does not pass `Stop` and sets FIN exactly there (`LengthInv`, `InTime`), of the writer where it is and whether its file is open
(`OpenInv`), and nothing of what is on the disk. `DurationHolds`: a tail of one second or a fade of four makes every duration positive.

**SoloMute_proofs.** `SoloHolds`, for any songs and any table, from one assumption, `RowsHaveVoices`:
every row names a voice of its chip. This splits the question: the loop over the chips and the masks
are right for every table; whether the table is right is what `solo_safety` checks over all of it.
`StemsByTable` does the same for the stems: they are the mix of a song exactly if, for each of its types,
the rows are the voices, one to one (`RowsAreVoices`), so no two chips of a song can go wrong
together, and a run in which each type occurs is a run about all songs. `StemsHold` draws the conclusion for a table that
has this property, and `StemsAreAlone` that where the stems are the mix each stem is one voice alone, without any assumption.

**Settings_proofs.** `LastChangeHolds`, `RateIsShownHolds` and `SettingsTypeCorrect`, for any
number of instances. The invariant (`FileInv`, `WinInv`, `RateInv`) says that what an
instance has not sent is either what was last accepted or a default for a key that the
file lacks, and that a file which has both keys is never overwritten by defaults.

Only model-checked:

* liveness (`EveryJobFinishes`, `RenderEnds`, `DialogGetsDone`, `CancelCloses`, `ErrorGetsLogged`):
  fairness and ENABLED are out of the prover's reach. What each rests on is proved, as said above:
  ranks that steps lower, and obligations that are never forgotten;
* that the concrete table of `ChannelTable` has `RowsHaveVoices` and `RowsAreVoices`: 38 types, checked
  one by one in `solo_safety`.

The other way round, some theorems are about no run: `JobsAreCallbacks` (TLC takes no property that
quantifies over specifications; `file_safety` checks `RefinesCallback` of the one job), and those that the
last paragraphs call ranks, promises or steps.

## 7. Findings

1. **A spurious error at the end** (`dialog_spurious`, `render_dialog.cpp:162`).
   `get_progress` reads a job's progress before its `finished` bit. If the job reports its
   last second and finishes in between, the poll sees a finished job with
   an old progress, and `update_status` warns "total rendered time != calculated
   duration" and shows that errors were encountered, though the file is complete. The comment
   at `render_dialog.cpp:363-365` means the warning for jobs that have a mismatch.
   Reading `finished` first, as is done for `error` and `canceled`, would repair it.
2. **Errors nobody sees** (`dialog_lost`, `mainwindow.cpp:721`). `on_render`
   opens the dialog only if something still is rendering. If all jobs fail before
   that (a read-only directory), there is no dialog, and the messages in
   the jobs' futures are never shown, against the comments at
   `mainwindow.cpp:710-712` and `render_dialog.cpp:343-349`. It is the only way: once there is a
   dialog it cannot go away before it has logged every error of a job that was not canceled (`ClosesInformedHolds`).

3. **The OPL4's channels** (`solo_opl4`, `vgm.cpp:250`). Its 24 rows name mute mask 1.
   In libvgm mask 0 is the base device, the 24 PCM voices, and mask 1 the linked OPL3
   with 23. So each row's job disables the PCM and plays an OPL3 voice, the last
   row is silent, and the PCM is in no stem; `backend.cpp:486` says "Mute all but one channel."
   The comment at `vgm.cpp:249` shows that the author doubts the index.
4. **A sample rate of zero** (`window_fallback`, `backend.cpp:296`). `load_settings` takes the
   rate of the first chip that has one of at most 100 kHz, and that of a chip whose core did not
   start (the ES5506 has none) is 0. The fallback rate of `settings.h:15` is not used, and
   `RenderJob::make` divides by zero at `backend.cpp:524`.

5. **A header at the wrong end** (`file_misplaced`, `wave_writer.cpp:99`). `close()` ignores the result of
   `seek(0)`, which has to flush the last write first. If the disk refuses that and then has room again
   (another job of the render empties the old file it opens), the final header is appended behind the
   audio, the flush succeeds and `close()` returns `{}`. The user is told nothing, and the file begins with the dummy header:
   no audio, one channel. `wave_writer.cpp:87-88` says: "The real length/channel fields will be written when close()
   calls write_header() again." `SuccessIsWhole` says exactly what such a success leaves; every frame is there.

Smaller ones, met while modelling, that no run is about:

* `close()` after a flush that failed is not the no-op that `wave_writer.h:53-54` and `wave_writer.cpp:97`
  ("Must be idempotent.") promise: the file is still open, and the destructor writes again. If it cannot seek either,
  it may put a second header over the first frame. An error has been reported by then.
* `data_size` wraps at 4 GiB; `SuccessIsWhole` says that sizes are true below.
* At rates below 44100 a song may be one frame longer than announced just where a second begins; the
  dialog would then warn of a mismatch (`LengthIsPromised` claims the seconds only for higher rates).
* The rows of YM2608 and YM2610 list sub-chips 0, 1, 0, against `vgm.h:17-18`
  ("ChannelMetadata with the same subchip_idx are grouped together"). Bits still agree.
* QSound's core has three ADPCM voices without rows, so its stems are not the whole mix; the
  ES5506 has 32 rows and no core, so they are silent.
* A rate in the ini file outside 1 to 10,000,000 is used as it is, while the dialog
  shows a clamped one and OK saves the one that is not shown.

## 8. What is left out

* Sound: emulation, sample values, mixing, volume. A buffer is a number of frames.
* Bytes of a file: the 44-byte header and each frame are one cell, so a disk that stops inside one of them
  is not modelled. A header written late therefore stands in a frame's place, not across eleven of them.
* Parsing of files: `load_path` succeeds with a song, or fails. Songs whose headers lie
  about their length are not modelled; `LengthIsPromised` would not hold of them.
* The S98, DRO and GYM engines: the program uses them as it uses the VGM engine.
* Text: names, paths, formatting, translations, layout, painting.
* Qt itself, which is modelled from how the code uses it and marked external:
  `QFutureInterface` (a canceled future drops results and progress, progress
  never goes back, an exception counts as a cancellation), `QThreadPool` (first in, first out, at
  most `idealThreadCount()` threads), `QFutureWatcher`, modality, persistent
  indexes, `QFile`'s buffer, `QSettings`, `QSpinBox`. That a `QSettings` may fail to write its
  file is left out: the program never asks.
* Exceptions in handlers of the GUI thread: nothing catches them, the program
  ends. Hence `~StateTransaction`'s early return during unwinding is left out too,
  and so is `update_all()`, which nothing calls.
* `main.cpp` and `gui_app.cpp` (command line, DPI hooks), `layout_macros.h`, `box_array.h`,
  `release_assert.h` and the other utility headers: straight-line code, templates and macros without
  state or protocol. `RenderJobs`' `Frames` and `RenderFile`'s buffers are where
  `BoxArray` is used, as a length.

## 9. What is left to do

All components with a protocol of their own are modelled, and of the properties of the
passing runs only those that need fairness have no proof.

Two extensions would add something: `MainWindow` and `RenderDialog` composed into one module, so
that a job provably renders what the window showed when Render was clicked (modality makes their
steps exclude each other already); and the OPL4's table corrected and moved to `solo_safety`.
