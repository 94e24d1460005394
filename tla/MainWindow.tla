------------------------------ MODULE MainWindow ------------------------------
(***************************************************************************)
(* The main window (src/src/mainwindow.cpp) and the part of Backend that   *)
(* keeps the song (src/src/backend.cpp, Metadata and Backend): the order   *)
(* of the chips, which the user rearranges, the list of channels, which    *)
(* must follow it, the sample rate, which must follow the settings, and    *)
(* the StateTransaction through which every such edit updates the views.   *)
(*                                                                         *)
(* A handler is a sequence of steps on the GUI thread: those that edit,    *)
(* then those of ~StateTransaction.  step names the next one; a            *)
(* transaction is open (_during_update) unless it is "idle".  Rendering is *)
(* not modelled here: the window gets no input meanwhile (RenderDialog).   *)
(***************************************************************************)
EXTENDS Integers, SequencesExt, Orders

CONSTANTS
    Song, NoSong,
    Chip,          \* ChipId: records of a type (a DEVID_ number) and an instance
    Devices,       \* the chips of each song, as GetSongDeviceInfo lists them
    NumChannels,   \* channels of each chip, as get_chip_metadata lists them
    SmplRate,      \* native sample rate of each chip
    Rates          \* sample rates the user or the ini file may set

ASSUME WindowAssumption ==
    /\ NoSong \notin Song
    /\ \A c \in Chip : c.type \in Nat /\ c.instance \in Nat
    /\ Devices \in [Song -> Seq(Chip)]
    /\ \A s \in Song : \A i, k \in DOMAIN Devices[s] :
          Devices[s][i] = Devices[s][k] => i = k
    /\ NumChannels \in [Chip -> Nat]
    /\ SmplRate \in [Chip -> Nat]
    /\ Rates \subseteq Nat

VARIABLES
    song, chips, channels, rate,   \* Metadata: player_type (or none), chips,
                                   \* flat_channels, sample_rate
    app,                           \* AppSettings
    stale,                         \* history: the last reload_settings failed
    filePath,                      \* MainWindowImpl::_file_path
    shown,                         \* the window's title, Render action, status
    current,                       \* currentIndex() of the chips view, or 0
    chipsReset, channelsReset,     \* between beginResetModel and endResetModel
    flags,                         \* StateTransaction::_queued_updates
    step, loading                  \* the next step of the handler, its file

songVars == <<song, chips, channels, rate>>
settingVars == <<app, stale>>
viewVars == <<filePath, shown, current, chipsReset, channelsReset>>
wvars == <<songVars, settingVars, viewVars, flags, step, loading>>

Flag == {"ChipsEdited", "FileReplaced", "SettingsChanged"}
AppSettings == [useChipRate : BOOLEAN, sampleRate : Rates]

NoChip == [type |-> -1, instance |-> -1]
Master == [chip |-> NoChip, chan |-> 1]
Channel == [chip : Chip \cup {NoChip}, chan : Nat]
FlatChannel == [ch : Channel, on : BOOLEAN]

WindowTypeOK ==
    /\ song \in Song \cup {NoSong}
    /\ chips \in Seq(Chip)
    /\ channels \in Seq(FlatChannel)
    /\ rate \in Nat
    /\ app \in AppSettings
    /\ stale \in BOOLEAN
    /\ filePath \in Song \cup {NoSong}
    /\ shown \in [title : Song \cup {NoSong}, canRender : BOOLEAN, status : Nat]
    /\ current \in Nat
    /\ current \in 0..Len(chips) \/ chipsReset
    /\ chipsReset \in BOOLEAN /\ channelsReset \in BOOLEAN
    /\ flags \in SUBSET Flag
    /\ step \in {"idle", "replace", "window", "chips", "channels"}
    /\ loading \in Song \cup {NoSong}

-------------------------------------------------------------------------------
(* Orders.                                                                 *)

SN76496 == 0
YM2612 == 2

(* compare_chips: the PSG goes right behind the YM2612.                    *)
ChipKey(c) == IF c.type = SN76496 THEN YM2612 * 256 + 1 ELSE c.type * 256
SortedDevices(s) ==
    StableSort(Devices[s], [i \in DOMAIN Devices[s] |-> ChipKey(Devices[s][i])])

(* The rows of the channel list: Master Audio, then chip by chip.  A slot  *)
(* is the position of a chip, 0 for none, and a channel of it.             *)
Slots(cs) ==
    {<<0, 1>>} \cup UNION {{i} \X (1..NumChannels[cs[i]]) : i \in DOMAIN cs}
SlotOrder(slots) ==
    {e \in slots \X slots :
        e[1][1] < e[2][1] \/ (e[1][1] = e[2][1] /\ e[1][2] <= e[2][2])}
ChannelOf(cs, slot) ==
    [chip |-> IF slot[1] = 0 THEN NoChip ELSE cs[slot[1]], chan |-> slot[2]]
ChannelsOfChips(cs) ==
    LET order == Listed(Slots(cs), SlotOrder(Slots(cs)))
    IN [p \in DOMAIN order |-> [ch |-> ChannelOf(cs, order[p]), on |-> TRUE]]

ChipOrder_MasterLast(ch) ==
    IF ch.chip = NoChip THEN Len(chips) + 1
    ELSE CHOOSE i \in DOMAIN chips : chips[i] = ch.chip
ChipOrder(ch) ==
    IF ch.chip = NoChip THEN 0 ELSE CHOOSE i \in DOMAIN chips : chips[i] = ch.chip
SortedChannels_Rebuilt == ChannelsOfChips(chips)
SortedChannels ==
    StableSort(channels, [i \in DOMAIN channels |-> ChipOrder(channels[i].ch)])

(* load_settings: the first chip, in the order of sort_chips and not of    *)
(* the user, with a rate of at most 100 kHz.                               *)
MaxChipRate == 100000
ChosenRate(s, a) ==
    LET devices == SortedDevices(s)
        slow == {i \in DOMAIN devices : SmplRate[devices[i]] <= MaxChipRate}
    IN IF s = NoSong THEN 0
       ELSE IF a.useChipRate /\ slow # {} THEN SmplRate[devices[First(slow)]]
       ELSE a.sampleRate

-------------------------------------------------------------------------------

(* Backend() and MainWindowImpl(), whose update_file_status() shows that   *)
(* there is no file; the settings come from the ini file.                  *)
WindowInit ==
    /\ song = NoSong
    /\ chips = <<>>
    /\ channels = <<>>
    /\ rate = 0
    /\ app \in AppSettings
    /\ stale = FALSE
    /\ filePath = NoSong
    /\ shown = [title |-> NoSong, canRender |-> FALSE, status |-> 0]
    /\ current = 0
    /\ chipsReset = FALSE
    /\ channelsReset = FALSE
    /\ flags = {}
    /\ step = "idle"
    /\ loading = NoSong

(* edit_unwrap() aborts if a transaction is open; no handler starts then.  *)
EditUnwrap == step = "idle"

(* StateTransaction::chips_changed.                                        *)
ChipsChanged_NoReset == flags' = flags \cup {"ChipsEdited"} /\ UNCHANGED channelsReset
ChipsChanged == flags' = flags \cup {"ChipsEdited"} /\ channelsReset' = TRUE

(* StateTransaction::file_replaced.                                        *)
FileReplaced_OwnFlag ==
    chipsReset' = TRUE /\ channelsReset' = TRUE /\ flags' = flags \cup {"FileReplaced"}
FileReplaced == chipsReset' = TRUE /\ channelsReset' = TRUE /\ flags' = Flag

(* Backend::load_path up to tx.file_replaced(): the file was read and      *)
(* parsed, and the models begin their resets.                              *)
LoadPath(s) ==
    /\ EditUnwrap
    /\ FileReplaced
    /\ loading' = s
    /\ step' = "replace"
    /\ UNCHANGED <<songVars, settingVars, filePath, shown, current>>

(* The rest of it, and of MainWindowImpl::load_path.                       *)
ReplaceFile ==
    /\ step = "replace"
    /\ song' = loading
    /\ chips' = SortedDevices(loading)
    /\ channels' = ChannelsOfChips(chips')
    /\ rate' = ChosenRate(loading, app)
    /\ stale' = FALSE
    /\ filePath' = loading
    /\ loading' = NoSong
    /\ step' = "window"
    /\ UNCHANGED <<app, shown, current, chipsReset, channelsReset, flags>>

(* The file cannot be read, extracted or parsed, or its rate not found:    *)
(* the transaction ends with nothing to update.                            *)
LoadPathFails_PathKept(s) ==
    /\ EditUnwrap
    /\ filePath' = s
    /\ UNCHANGED <<songVars, settingVars, shown, current, chipsReset, channelsReset,
                   flags, step, loading>>
LoadPathFails(s) == EditUnwrap /\ UNCHANGED wvars

(* ChipsModel::move_up of a row: the rows are swapped, and the view's      *)
(* current index moves with its row (beginMoveRows, endMoveRows).          *)
MoveRowUp(r) ==
    /\ r \in 2..Len(chips)
    /\ EditUnwrap
    /\ ChipsChanged
    /\ chips' = [chips EXCEPT ![r] = chips[r - 1], ![r - 1] = chips[r]]
    /\ current' = CASE current = r -> r - 1
                    [] current = r - 1 -> r
                    [] OTHER -> current
    /\ step' = "window"
    /\ UNCHANGED <<song, channels, rate, settingVars, filePath, shown, chipsReset, loading>>

MoveUp == current # 0 /\ MoveRowUp(current)
MoveDown == current # 0 /\ MoveRowUp(current + 1)

(* ChipsModel::dropMimeData: the old rows in their new order when the rows *)
(* D are dropped behind the row at.  Rows that are not dragged keep their  *)
(* order, before and behind those that are.                                *)
DropOrder_Copies(D, at) ==
    LET Rows(S) == SetToSortSeq(S, <)
    IN Rows(1..at) \o Rows(D) \o Rows({i \in (DOMAIN chips) \ D : i > at})
DropOrder(D, at) ==
    SortOrder([i \in DOMAIN chips |->
                  IF i \in D THEN 1 ELSE IF i <= at THEN 0 ELSE 2])

(* changePersistentIndexList takes the current index along.                *)
CurrentAfter_Stays(order) == current
CurrentAfter(order) == CHOOSE p \in DOMAIN order : order[p] = current

(* The view selects a single row, which is the one that is dragged.  A     *)
(* drop on the background has insert_row -1, which stands for the end.     *)
DropMimeData(at) ==
    /\ current # 0
    /\ EditUnwrap
    /\ ChipsChanged
    /\ LET order == DropOrder({current}, at)
       IN /\ chips' = Rearranged(chips, order)
          /\ current' = CurrentAfter(order)
    /\ step' = "window"
    /\ UNCHANGED <<song, channels, rate, settingVars, filePath, shown, chipsReset, loading>>

(* The user clicks a chip.                                                 *)
SelectChip(r) ==
    /\ step = "idle"
    /\ r \in DOMAIN chips
    /\ current' = r
    /\ UNCHANGED <<songVars, settingVars, filePath, shown, chipsReset, channelsReset,
                   flags, step, loading>>

(* ChannelsModel::setData needs no transaction: it emits dataChanged.      *)
SetData(rows, on) ==
    /\ step = "idle"
    /\ channels' = [r \in DOMAIN channels |->
                      IF r \in rows THEN [channels[r] EXCEPT !.on = on] ELSE channels[r]]
    /\ UNCHANGED <<song, chips, rate, settingVars, viewVars, flags, step, loading>>

Toggle(r) == r \in DOMAIN channels /\ SetData({r}, ~channels[r].on)

(* Space in the channels view: all off if all were on, else all on.        *)
ToggleSelected(rows) ==
    /\ rows \subseteq DOMAIN channels
    /\ SetData(rows, \E r \in rows : ~channels[r].on)

(* OptionsDialogImpl::ok.                                                  *)
SetAppSettings(a) ==
    /\ EditUnwrap
    /\ flags' = flags \cup {"SettingsChanged"}
    /\ app' = a
    /\ step' = "window"
    /\ UNCHANGED <<songVars, stale, viewVars, loading>>

-------------------------------------------------------------------------------
(* ~StateTransaction.                                                      *)

(* Backend::reload_settings opens the song again only if it needs the      *)
(* chips' rates; if that fails, the old rate stays.                        *)
ReloadSettings_NotNeeded == UNCHANGED <<rate, stale>>
ReloadSettings ==
    \/ rate' = ChosenRate(song, app) /\ stale' = FALSE
    \/ song # NoSong /\ app.useChipRate /\ UNCHANGED rate /\ stale' = TRUE

(* MainWindowImpl::update_file_status and reload_settings.                 *)
UpdateWindow ==
    /\ step = "window"
    /\ CASE "FileReplaced" \in flags ->
              /\ shown' = [title |-> filePath, canRender |-> channels # <<>>,
                           status |-> rate]
              /\ UNCHANGED <<rate, stale>>
         [] "FileReplaced" \notin flags /\ "SettingsChanged" \in flags ->
              /\ ReloadSettings
              /\ shown' = [shown EXCEPT !.status = rate']
         [] OTHER -> UNCHANGED <<rate, stale, shown>>
    /\ step' = "chips"
    /\ UNCHANGED <<song, chips, channels, app, filePath, current, chipsReset,
                   channelsReset, flags, loading>>

UpdateChips_NoSelect ==
    /\ step = "chips"
    /\ chipsReset' = IF "FileReplaced" \in flags THEN FALSE ELSE chipsReset
    /\ step' = "channels"
    /\ UNCHANGED <<songVars, settingVars, filePath, shown, current, channelsReset, flags,
                   loading>>

(* A new file's chips: the first one becomes the current one.              *)
UpdateChips ==
    /\ step = "chips"
    /\ IF "FileReplaced" \in flags
       THEN chipsReset' = FALSE /\ current' = IF chips = <<>> THEN 0 ELSE 1
       ELSE UNCHANGED <<chipsReset, current>>
    /\ step' = "channels"
    /\ UNCHANGED <<songVars, settingVars, filePath, shown, channelsReset, flags, loading>>

(* A new file's channels are in order already.                             *)
UpdateChannels ==
    /\ step = "channels"
    /\ channels' = IF "ChipsEdited" \in flags /\ "FileReplaced" \notin flags
                   THEN SortedChannels ELSE channels
    /\ channelsReset' = IF "ChipsEdited" \in flags THEN FALSE ELSE channelsReset
    /\ flags' = {}
    /\ step' = "idle"
    /\ UNCHANGED <<song, chips, rate, settingVars, filePath, shown, current, chipsReset,
                   loading>>

WindowNext ==
    \/ \E s \in Song : LoadPath(s) \/ LoadPathFails(s)
    \/ ReplaceFile
    \/ MoveUp
    \/ MoveDown
    \/ \E at \in 0..Len(chips) : DropMimeData(at)
    \/ \E r \in DOMAIN chips : SelectChip(r)
    \/ \E r \in DOMAIN channels : Toggle(r)
    \/ \E rows \in SUBSET DOMAIN channels : ToggleSelected(rows)
    \/ \E a \in AppSettings : SetAppSettings(a)
    \/ UpdateWindow
    \/ UpdateChips
    \/ UpdateChannels

WindowSpec == WindowInit /\ [][WindowNext]_wvars

-------------------------------------------------------------------------------
(* Properties.                                                             *)

(* Whenever the user may act, the channels are listed in the order of the  *)
(* chips: Master Audio first (the row whose .wav gets the name the user    *)
(* chose), then chip by chip, those of a chip in its own order.            *)
ChannelsFollowChips ==
    step = "idle" /\ song # NoSong =>
        /\ channels[1].ch = Master
        /\ \A i, k \in 2..Len(channels) : i < k =>
              \E p, q \in DOMAIN chips :
                  /\ channels[i].ch.chip = chips[p]
                  /\ channels[k].ch.chip = chips[q]
                  /\ p < q \/ (p = q /\ channels[i].ch.chan < channels[k].ch.chan)

(* No sequence of moves and drops loses or doubles a chip or a channel.    *)
NothingIsLost ==
    song # NoSong =>
        LET all == ChannelsOfChips(Devices[song])
        IN /\ Len(chips) = Len(Devices[song])
           /\ ToSet(chips) = ToSet(Devices[song])
           /\ Len(channels) = Len(all)
           /\ {channels[i].ch : i \in DOMAIN channels} = {all[i].ch : i \in DOMAIN all}

(* When the user may act, the window shows the file that is loaded, lets   *)
(* it be rendered, and shows the rate it will be rendered at.              *)
WindowShowsFile ==
    step = "idle" =>
        /\ filePath = song
        /\ shown = [title |-> song, canRender |-> song # NoSong, status |-> rate]

(* The rate follows the settings and the file, whatever the order in which *)
(* they change and the order the chips are in.                             *)
RateFollowsSettings == step = "idle" /\ ~stale => rate = ChosenRate(song, app)

(* The fallback rate is the one to use when no chip of the song has a rate *)
(* of its own (settings.h:15-16), as when its only chip has no core that   *)
(* libvgm could start.                                                     *)
FallbackIsUsed ==
    step = "idle" /\ ~stale /\ song # NoSong
        /\ (\A i \in DOMAIN chips : SmplRate[chips[i]] = 0)
            => rate = app.sampleRate

(* A transaction that is over has ended every reset it began.              *)
ResetsEnd == step = "idle" => ~chipsReset /\ ~channelsReset

(* Rows come and go, and channels change places, only while the view       *)
(* concerned has been told to forget them (backend.cpp:695-696).           *)
RowsChangeInReset ==
    [][ /\ ToSet(chips') # ToSet(chips) => chipsReset
        /\ (\/ Len(channels') # Len(channels)
            \/ \E i \in DOMAIN channels : channels'[i].ch # channels[i].ch)
              => channelsReset ]_wvars

(* Which channels are enabled changes only where the user toggles them:    *)
(* rearranging the chips leaves each channel's box as it was.              *)
EnabledSurvives ==
    [][ step # "replace" /\ (step # "idle" \/ step' # "idle") =>
          {channels'[i] : i \in DOMAIN channels'} = {channels[i] : i \in DOMAIN channels} ]_wvars

(* However a chip is moved, the chip that was current stays current, so    *)
(* that Up and Down go on moving the same chip.                            *)
CurrentChipStays ==
    [][ step = "idle" /\ step' = "window" /\ current # 0 =>
          current' # 0 /\ chips'[current'] = chips[current] ]_wvars

==============================================================================
