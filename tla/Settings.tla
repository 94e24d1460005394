------------------------------- MODULE Settings --------------------------------
(***************************************************************************)
(* The settings (src/src/settings.cpp) and the dialog that edits them      *)
(* (src/src/options_dialog.cpp), in several instances of the program that  *)
(* share one .ini file.  Each instance reads the file once, when it        *)
(* starts, and writes through a QSettings, which sends what was set to the *)
(* file when the instance gets back to its event loop.                     *)
(***************************************************************************)
EXTENDS Integers

CONSTANTS
    Instance,          \* processes
    MaxRate,           \* end of the spin box's range (10,000,000)
    DefaultRate,       \* 44100
    IntLimit,          \* a rate counts to twice this, an int to this (2^31)
    IniRate,           \* rates the .ini file may have at first
    Missing, Invalid   \* no value of a key, one that is no number

ASSUME SettingsAssumption ==
    /\ MaxRate \in Nat /\ IntLimit \in Nat /\ MaxRate < IntLimit
    /\ DefaultRate \in 1..MaxRate
    /\ IniRate \subseteq (0..2 * IntLimit - 1) \cup {Missing, Invalid}
    /\ Missing \notin Int /\ Invalid \notin Int
    /\ Missing \notin BOOLEAN /\ Missing # Invalid

VARIABLES
    ini,       \* the .ini file
    oldRate,   \* history: the rate it had at first
    running,   \* the instances that run
    app,       \* SettingsData::app of each
    unsaved,   \* what its QSettings has yet to send to the file
    dialog,    \* its OptionsDialogImpl: _app, what the spin box shows, open
    accepted   \* history: the settings last accepted in any, or none

svars == <<ini, oldRate, running, app, unsaved, dialog, accepted>>

RateRange == 1..MaxRate
Uint == 0..2 * IntLimit - 1
Default == [useChipRate |-> TRUE, sampleRate |-> DefaultRate]
NothingYet == [useChipRate |-> Missing, sampleRate |-> Missing]

AppSettings == [useChipRate : BOOLEAN, sampleRate : Uint]
IniFile == [useChipRate : BOOLEAN \cup {Missing}, sampleRate : Uint \cup {Missing, Invalid}]
Dialog == [app : AppSettings, spin : RateRange, open : BOOLEAN]

Closed == [app |-> Default, spin |-> DefaultRate, open |-> FALSE]

SettingsInit ==
    /\ ini \in [useChipRate : BOOLEAN \cup {Missing}, sampleRate : IniRate]
    /\ oldRate = ini.sampleRate
    /\ running = {}
    /\ app = [i \in Instance |-> Default]
    /\ unsaved = [i \in Instance |-> NothingYet]
    /\ dialog = [i \in Instance |-> Closed]
    /\ accepted = NothingYet

(* sync_u32 and sync_bool: the value to use, and the default to set.  A    *)
(* string that is no boolean reads as TRUE, and is not told from it here.  *)
HasChoice == ini.useChipRate # Missing
HasRate == ini.sampleRate \notin {Missing, Invalid}
SyncedValue_Unchecked ==
    LET toUInt == IF HasRate THEN ini.sampleRate ELSE 0   \* its ok forgotten
    IN [useChipRate |-> IF HasChoice THEN ini.useChipRate ELSE Default.useChipRate,
        sampleRate |-> toUInt]
SyncedValue ==
    [useChipRate |-> IF HasChoice THEN ini.useChipRate ELSE Default.useChipRate,
     sampleRate |-> IF HasRate THEN ini.sampleRate ELSE Default.sampleRate]
SyncedDefault ==
    [useChipRate |-> IF HasChoice THEN Missing ELSE Default.useChipRate,
     sampleRate |-> IF HasRate THEN Missing ELSE Default.sampleRate]

(* Settings::make.                                                         *)
Start(i) ==
    /\ i \notin running
    /\ running' = running \cup {i}
    /\ app' = [app EXCEPT ![i] = SyncedValue]
    /\ unsaved' = [unsaved EXCEPT ![i] = SyncedDefault]
    /\ UNCHANGED <<ini, oldRate, dialog, accepted>>

(* QSettings sends the keys that were set; the others in the file stay.    *)
Over(old, set) == IF set = Missing THEN old ELSE set
Merged(i) == [useChipRate |-> Over(ini.useChipRate, unsaved[i].useChipRate),
              sampleRate |-> Over(ini.sampleRate, unsaved[i].sampleRate)]

Sync(i) ==
    /\ i \in running
    /\ unsaved[i] # NothingYet
    /\ ini' = Merged(i)
    /\ unsaved' = [unsaved EXCEPT ![i] = NothingYet]
    /\ UNCHANGED <<oldRate, running, app, dialog, accepted>>

(* ~QSettings syncs too.                                                   *)
Quit(i) ==
    /\ i \in running
    /\ ~dialog[i].open
    /\ running' = running \ {i}
    /\ ini' = Merged(i)
    /\ unsaved' = [unsaved EXCEPT ![i] = NothingYet]
    /\ UNCHANGED <<oldRate, app, dialog, accepted>>

(* One user looks at a window once all have come to rest.                  *)
UserActs == \A i \in Instance : unsaved[i] = NothingYet

(* OptionsDialogImpl().  The spin box gets its range, then the rate as an  *)
(* int, and only then is valueChanged connected.                           *)
AsInt(n) == IF n >= IntLimit THEN n - 2 * IntLimit ELSE n
Clamped(n) == IF n < 1 THEN 1 ELSE IF n > MaxRate THEN MaxRate ELSE n

Shown_FromZero(n) ==   \* a QSpinBox begins at 0
    IF AsInt(n) < 1 THEN 0 ELSE Clamped(AsInt(n))
Shown(n) == Clamped(AsInt(n))

OpenOptions(i) ==
    /\ UserActs
    /\ i \in running
    /\ ~dialog[i].open
    /\ dialog' = [dialog EXCEPT ![i] = [app |-> app[i],
                                        spin |-> Shown(app[i].sampleRate),
                                        open |-> TRUE]]
    /\ UNCHANGED <<ini, oldRate, running, app, unsaved, accepted>>

(* valueChanged comes only when the value changes.                         *)
ChangeRate(i, n) ==
    /\ UserActs
    /\ dialog[i].open
    /\ dialog[i].spin # n
    /\ dialog' = [dialog EXCEPT ![i].spin = n, ![i].app.sampleRate = n]
    /\ UNCHANGED <<ini, oldRate, running, app, unsaved, accepted>>

Toggle(i) ==
    /\ UserActs
    /\ dialog[i].open
    /\ dialog' = [dialog EXCEPT ![i].app.useChipRate = ~@]
    /\ UNCHANGED <<ini, oldRate, running, app, unsaved, accepted>>

(* ok() and set_app_settings(): even what is unchanged is set.             *)
IfChanged(new, old) == IF new = old THEN Missing ELSE new
ToSave_IfChanged(i) ==
    [useChipRate |-> IfChanged(dialog[i].app.useChipRate, app[i].useChipRate),
     sampleRate |-> IfChanged(dialog[i].app.sampleRate, app[i].sampleRate)]
ToSave(i) == dialog[i].app

Ok(i) ==
    /\ UserActs
    /\ dialog[i].open
    /\ app' = [app EXCEPT ![i] = dialog[i].app]
    /\ unsaved' = [unsaved EXCEPT ![i] = ToSave(i)]
    /\ accepted' = dialog[i].app
    /\ dialog' = [dialog EXCEPT ![i] = Closed]
    /\ UNCHANGED <<ini, oldRate, running>>

Cancel(i) ==
    /\ UserActs
    /\ dialog[i].open
    /\ dialog' = [dialog EXCEPT ![i] = Closed]
    /\ UNCHANGED <<ini, oldRate, running, app, unsaved, accepted>>

SettingsNext ==
    \E i \in Instance :
        \/ Start(i) \/ Sync(i) \/ Quit(i)
        \/ OpenOptions(i) \/ Toggle(i) \/ Ok(i) \/ Cancel(i)
        \/ \E n \in RateRange : ChangeRate(i, n)

SettingsSpec == SettingsInit /\ [][SettingsNext]_svars

-------------------------------------------------------------------------------
(* Properties.                                                             *)

SettingsTypeOK ==
    /\ ini \in IniFile
    /\ oldRate \in IniRate
    /\ running \subseteq Instance
    /\ app \in [Instance -> AppSettings]
    /\ unsaved \in [Instance -> IniFile]
    /\ dialog \in [Instance -> Dialog]
    /\ \A i \in Instance : dialog[i].open => i \in running
    /\ accepted \in AppSettings \cup {NothingYet}

(* Of the changes made in several instances the last one wins: the file    *)
(* has, in both its keys, what was accepted last, and no older settings    *)
(* nor defaults of another instance (settings.cpp:81-83), so that this is  *)
(* what the next instance starts with.                                     *)
LastChangeWins == accepted # NothingYet /\ UserActs => ini = accepted

(* The dialog saves the rate that it shows, and every rate that is used is *)
(* one that it can show; but a number that the file had at first, outside  *)
(* that range, is used as it is and is saved again by a dialog that shows  *)
(* another.                                                                *)
Usable(n) == n \in RateRange \/ n = oldRate
RateIsShown ==
    \A i \in running :
        /\ Usable(app[i].sampleRate)
        /\ dialog[i].open =>
              /\ Usable(dialog[i].app.sampleRate)
              /\ dialog[i].app.sampleRate \in RateRange =>
                    dialog[i].app.sampleRate = dialog[i].spin
===============================================================================
