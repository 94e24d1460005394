---------------------------- MODULE Settings_proofs ----------------------------
(***************************************************************************)
(* Settings shared by any number of instances, for any range of rates.     *)
(***************************************************************************)
EXTENDS Settings, TLAPS

(* Every key of the file can be read, or will be once what an instance has *)
(* set gets there; a rate in either is one that the dialog can show or the *)
(* one that the file had.                                                  *)
FileInv ==
    /\ \A i \in Instance : i \notin running => unsaved[i] = NothingYet
    /\ \A i \in running :
          /\ HasChoice \/ unsaved[i].useChipRate # Missing
          /\ HasRate \/ unsaved[i].sampleRate # Missing
    /\ \A i \in Instance : unsaved[i].sampleRate # Invalid

(* What was accepted is in the file, or on its way there and nothing else  *)
(* is.                                                                     *)
OnItsWay(i) ==
    /\ i \in running
    /\ unsaved[i] = accepted
    /\ \A j \in Instance : j # i => unsaved[j] = NothingYet
WinInv ==
    accepted # NothingYet =>
        /\ HasChoice /\ HasRate
        /\ \/ UserActs /\ ini = accepted
           \/ \E i \in Instance : OnItsWay(i)

RateInv ==
    /\ ini.sampleRate \in Uint => Usable(ini.sampleRate)
    /\ \A i \in Instance :
          /\ unsaved[i].sampleRate \in Uint => Usable(unsaved[i].sampleRate)
          /\ Usable(app[i].sampleRate)
          /\ Usable(dialog[i].app.sampleRate)
          /\ dialog[i].app.sampleRate \in RateRange =>
                dialog[i].app.sampleRate = dialog[i].spin

SettingsInv == SettingsTypeOK /\ FileInv /\ WinInv /\ RateInv

-------------------------------------------------------------------------------

LEMMA Rates ==
    /\ RateRange \subseteq Uint
    /\ DefaultRate \in RateRange
    /\ Missing \notin Uint /\ Invalid \notin Uint /\ Missing \notin BOOLEAN
    /\ Default \in AppSettings
    /\ NothingYet \in IniFile
    /\ NothingYet \notin AppSettings
    /\ Closed \in Dialog
    /\ \A a \in AppSettings : a \in IniFile
BY SettingsAssumption DEF RateRange, Uint, Default, AppSettings, NothingYet, IniFile, Closed, Dialog

LEMMA ShownInRange ==
    ASSUME NEW n \in Uint
    PROVE  Shown(n) \in RateRange /\ (n \in RateRange => Shown(n) = n)
BY SettingsAssumption DEF Shown, Clamped, AsInt, RateRange, Uint

LEMMA InitEstablishes == SettingsInit => SettingsInv
<1> SUFFICES ASSUME SettingsInit PROVE SettingsInv
  OBVIOUS
<1>1. ini \in IniFile /\ oldRate \in IniRate
  BY SettingsAssumption DEF SettingsInit, IniFile, Uint
<1>2. SettingsTypeOK
  BY <1>1, Rates DEF SettingsInit, SettingsTypeOK, Closed
<1>3. FileInv /\ WinInv
  BY Rates, SettingsAssumption DEF SettingsInit, FileInv, WinInv, NothingYet, Uint
<1>4. RateInv
  BY Rates DEF SettingsInit, RateInv, Usable, Default, Closed, NothingYet
<1> QED BY <1>2, <1>3, <1>4 DEF SettingsInv

(* What an instance reads when it starts.                                  *)
LEMMA Synced ==
    ASSUME SettingsInv
    PROVE  /\ SyncedValue \in AppSettings
           /\ SyncedDefault \in IniFile
           /\ Usable(SyncedValue.sampleRate)
           /\ SyncedDefault.sampleRate \in {Missing, DefaultRate}
           /\ HasChoice \/ SyncedDefault.useChipRate # Missing
           /\ HasRate \/ SyncedDefault.sampleRate # Missing
           /\ HasChoice /\ HasRate => SyncedDefault = NothingYet
BY Rates DEF SettingsInv, SettingsTypeOK, RateInv, SyncedValue, SyncedDefault, HasChoice, HasRate,
             IniFile, AppSettings, Default, Usable, NothingYet

LEMMA StartPreserves ==
    ASSUME SettingsInv, NEW i \in Instance, Start(i)
    PROVE  SettingsInv'
<1>1. SettingsTypeOK'
  BY Synced DEF Start, SettingsInv, SettingsTypeOK
<1>2. FileInv'
  BY Synced, Rates, SettingsAssumption DEF Start, SettingsInv, SettingsTypeOK, FileInv, HasChoice, HasRate, Uint
<1>3. WinInv'
  BY Synced DEF Start, SettingsInv, SettingsTypeOK, WinInv, FileInv, HasChoice, HasRate, UserActs, OnItsWay
<1>4. RateInv'
  BY Synced, Rates DEF Start, SettingsInv, SettingsTypeOK, RateInv, Usable
<1> QED BY <1>1, <1>2, <1>3, <1>4 DEF SettingsInv

(* What a sync leaves in the file.                                         *)
LEMMA MergedFile ==
    ASSUME SettingsInv, NEW i \in Instance
    PROVE  /\ Merged(i) \in IniFile
           /\ HasChoice => Merged(i).useChipRate # Missing
           /\ HasRate => Merged(i).sampleRate \notin {Missing, Invalid}
           /\ i \in running => /\ Merged(i).useChipRate # Missing
                               /\ Merged(i).sampleRate \notin {Missing, Invalid}
           /\ Merged(i).sampleRate \in Uint => Usable(Merged(i).sampleRate)
           /\ unsaved[i] = NothingYet => Merged(i) = ini
           /\ unsaved[i] \in AppSettings => Merged(i) = unsaved[i]
<1>1. unsaved[i] \in IniFile /\ ini \in IniFile
  BY DEF SettingsInv, SettingsTypeOK
<1>2. Merged(i) \in IniFile
  BY <1>1 DEF Merged, Over, IniFile
<1>3. /\ HasChoice => Merged(i).useChipRate # Missing
      /\ HasRate => Merged(i).sampleRate \notin {Missing, Invalid}
      /\ i \in running => /\ Merged(i).useChipRate # Missing
                          /\ Merged(i).sampleRate \notin {Missing, Invalid}
  BY DEF Merged, Over, HasChoice, HasRate, SettingsInv, FileInv
<1>4. Merged(i).sampleRate \in Uint => Usable(Merged(i).sampleRate)
  BY DEF Merged, Over, SettingsInv, RateInv
<1>5. unsaved[i] = NothingYet => Merged(i) = ini
  BY <1>1 DEF Merged, Over, NothingYet, IniFile
<1>6. unsaved[i] \in AppSettings => Merged(i) = unsaved[i]
  BY Rates DEF Merged, Over, AppSettings
<1> QED BY <1>2, <1>3, <1>4, <1>5, <1>6

(* A sync alone, and the sync of an instance that ends.                    *)
LEMMA SyncPreserves ==
    ASSUME SettingsInv, NEW i \in Instance, i \in running,
           ini' = Merged(i),
           unsaved' = [unsaved EXCEPT ![i] = NothingYet],
           running' = running \/ (running' = running \ {i} /\ ~dialog[i].open),
           UNCHANGED <<oldRate, app, dialog, accepted>>
    PROVE  SettingsInv'
<1> USE DEF SettingsInv
<1>1. unsaved \in [Instance -> IniFile] /\ unsaved'[i] = NothingYet
      /\ \A j \in Instance : j # i => unsaved'[j] = unsaved[j]
  BY DEF SettingsTypeOK
<1>2. SettingsTypeOK'
  BY MergedFile, Rates DEF SettingsTypeOK
<1>3. FileInv'
  <2>1. /\ ini'.useChipRate # Missing
        /\ ini'.sampleRate \notin {Missing, Invalid}
    BY MergedFile
  <2>2. NothingYet.sampleRate # Invalid
    BY SettingsAssumption DEF NothingYet
  <2> QED BY <1>1, <2>1, <2>2 DEF FileInv, HasChoice, HasRate
<1>4. WinInv'
  <2> SUFFICES ASSUME accepted # NothingYet PROVE WinInv'
    BY DEF WinInv
  <2>1. HasChoice' /\ HasRate'
    BY MergedFile DEF HasChoice, HasRate
  <2>2. CASE UserActs /\ ini = accepted
    <3>1. ini' = accepted
      BY <2>2, MergedFile DEF UserActs
    <3> QED BY <3>1, <2>1, <2>2, <1>1 DEF WinInv, UserActs
  <2>3. ASSUME NEW k \in Instance, OnItsWay(k) PROVE WinInv'
    <3>1. CASE i = k
      <4>1. unsaved[i] \in AppSettings
        BY <2>3, <3>1 DEF OnItsWay, SettingsTypeOK
      <4>2. ini' = accepted
        BY <4>1, <2>3, <3>1, MergedFile DEF OnItsWay
      <4>3. UserActs'
        BY <1>1, <2>3, <3>1 DEF UserActs, OnItsWay
      <4> QED BY <4>2, <4>3, <2>1 DEF WinInv
    <3>2. CASE i # k
      <4>1. OnItsWay(k)'
        BY <1>1, <2>3, <3>2 DEF OnItsWay
      <4> QED BY <4>1, <2>1 DEF WinInv
    <3> QED BY <3>1, <3>2
  <2> QED BY <2>2, <2>3 DEF WinInv
<1>5. RateInv'
  BY <1>1, MergedFile, Rates DEF RateInv, Usable, NothingYet
<1> QED BY <1>2, <1>3, <1>4, <1>5

(* What the user does in a dialog before accepting it.                     *)
LEMMA DialogPreserves ==
    ASSUME SettingsInv, NEW i \in Instance, NEW d \in Dialog,
           dialog' = [dialog EXCEPT ![i] = d],
           d.open => i \in running,
           Usable(d.app.sampleRate),
           d.app.sampleRate \in RateRange => d.app.sampleRate = d.spin,
           UNCHANGED <<ini, oldRate, running, app, unsaved, accepted>>
    PROVE  SettingsInv'
<1> USE DEF SettingsInv
<1>1. SettingsTypeOK'
  BY DEF SettingsTypeOK
<1>2. FileInv' /\ WinInv'
  BY DEF FileInv, WinInv, HasChoice, HasRate, UserActs, OnItsWay
<1>3. RateInv'
  BY DEF RateInv, Usable, SettingsTypeOK
<1> QED BY <1>1, <1>2, <1>3

LEMMA OpenPreserves ==
    ASSUME SettingsInv, NEW i \in Instance, OpenOptions(i)
    PROVE  SettingsInv'
<1> DEFINE d == [app |-> app[i], spin |-> Shown(app[i].sampleRate), open |-> TRUE]
<1>1. app[i] \in AppSettings /\ app[i].sampleRate \in Uint /\ Usable(app[i].sampleRate)
  BY DEF SettingsInv, SettingsTypeOK, RateInv, AppSettings
<1>2. d \in Dialog /\ (d.app.sampleRate \in RateRange => d.app.sampleRate = d.spin)
  BY <1>1, ShownInRange DEF Dialog
<1> QED BY <1>1, <1>2, DialogPreserves DEF OpenOptions

LEMMA EditPreserves ==
    ASSUME SettingsInv, NEW i \in Instance,
           (\E n \in RateRange : ChangeRate(i, n)) \/ Toggle(i)
    PROVE  SettingsInv'
<1>1. dialog[i] \in Dialog /\ dialog[i].app \in AppSettings /\ dialog \in [Instance -> Dialog]
  BY DEF SettingsInv, SettingsTypeOK, Dialog
<1>2. ASSUME NEW n \in RateRange, ChangeRate(i, n) PROVE SettingsInv'
  <2> DEFINE d == [dialog[i] EXCEPT !.spin = n, !.app.sampleRate = n]
  <2>1. d \in Dialog /\ d.app.sampleRate = n /\ d.spin = n /\ d.open = dialog[i].open
    BY <1>1, Rates DEF Dialog, AppSettings
  <2>2. dialog' = [dialog EXCEPT ![i] = d]
    BY <1>2, <1>1 DEF ChangeRate
  <2>3. i \in running /\ Usable(n)
        /\ UNCHANGED <<ini, oldRate, running, app, unsaved, accepted>>
    BY <1>2 DEF ChangeRate, Usable, SettingsInv, SettingsTypeOK
  <2> HIDE DEF d
  <2> QED BY <2>1, <2>2, <2>3, DialogPreserves
<1>3. CASE Toggle(i)
  <2> DEFINE d == [dialog[i] EXCEPT !.app.useChipRate = ~@]
  <2>1. d \in Dialog /\ d.app.sampleRate = dialog[i].app.sampleRate
        /\ d.spin = dialog[i].spin /\ d.open = dialog[i].open
    BY <1>1 DEF Dialog, AppSettings
  <2>2. dialog' = [dialog EXCEPT ![i] = d]
    BY <1>3, <1>1 DEF Toggle
  <2>3. /\ i \in running /\ Usable(dialog[i].app.sampleRate)
        /\ dialog[i].app.sampleRate \in RateRange =>
              dialog[i].app.sampleRate = dialog[i].spin
        /\ UNCHANGED <<ini, oldRate, running, app, unsaved, accepted>>
    BY <1>3 DEF Toggle, SettingsInv, SettingsTypeOK, RateInv
  <2> HIDE DEF d
  <2> QED BY <2>1, <2>2, <2>3, DialogPreserves
<1> QED BY <1>2, <1>3

LEMMA CancelPreserves ==
    ASSUME SettingsInv, NEW i \in Instance, Cancel(i)
    PROVE  SettingsInv'
BY DialogPreserves, Rates DEF Cancel, Closed, Default, Usable

LEMMA OkPreserves ==
    ASSUME SettingsInv, NEW i \in Instance, Ok(i)
    PROVE  SettingsInv'
<1> USE DEF SettingsInv
<1>1. /\ dialog[i].app \in AppSettings /\ i \in running
      /\ \A j \in Instance : unsaved[j] = NothingYet
      /\ dialog[i].app.useChipRate # Missing
      /\ dialog[i].app.sampleRate \notin {Missing, Invalid}
  BY Rates DEF Ok, SettingsTypeOK, Dialog, UserActs, AppSettings
<1>2. SettingsTypeOK'
  BY <1>1, Rates DEF Ok, SettingsTypeOK, ToSave, Closed
<1>3. HasChoice /\ HasRate
  BY <1>1 DEF FileInv, NothingYet
<1>4. FileInv'
  BY <1>1, <1>3 DEF Ok, FileInv, ToSave, SettingsTypeOK, HasChoice, HasRate
<1>5. WinInv'
  BY <1>1, <1>3 DEF Ok, WinInv, ToSave, OnItsWay, SettingsTypeOK, HasChoice, HasRate
<1>6. RateInv'
  BY <1>1, Rates DEF Ok, RateInv, ToSave, SettingsTypeOK, Usable, Closed, Default
<1> QED BY <1>2, <1>4, <1>5, <1>6

LEMMA StepPreserves == SettingsInv /\ [SettingsNext]_svars => SettingsInv'
<1> SUFFICES ASSUME SettingsInv, [SettingsNext]_svars PROVE SettingsInv'
  OBVIOUS
<1>1. ASSUME NEW i \in Instance, Start(i) PROVE SettingsInv'
  BY <1>1, StartPreserves
<1>2. ASSUME NEW i \in Instance, Sync(i) \/ Quit(i) PROVE SettingsInv'
  BY <1>2, SyncPreserves DEF Sync, Quit
<1>3. ASSUME NEW i \in Instance, OpenOptions(i) PROVE SettingsInv'
  BY <1>3, OpenPreserves
<1>4. ASSUME NEW i \in Instance, (\E n \in RateRange : ChangeRate(i, n)) \/ Toggle(i)
      PROVE  SettingsInv'
  BY <1>4, EditPreserves
<1>5. ASSUME NEW i \in Instance, Ok(i) PROVE SettingsInv'
  BY <1>5, OkPreserves
<1>6. ASSUME NEW i \in Instance, Cancel(i) PROVE SettingsInv'
  BY <1>6, CancelPreserves
<1>7. CASE UNCHANGED svars
  BY <1>7 DEF svars, SettingsInv, SettingsTypeOK, FileInv, WinInv, RateInv, OnItsWay, UserActs,
              HasChoice, HasRate, Usable
<1> QED BY <1>1, <1>2, <1>3, <1>4, <1>5, <1>6, <1>7 DEF SettingsNext

THEOREM SettingsInvariance == SettingsSpec => []SettingsInv
BY InitEstablishes, StepPreserves, PTL DEF SettingsSpec

(* No value that is no number or no choice gets from the file to where it  *)
(* is used.                                                                *)
THEOREM SettingsTypeCorrect == SettingsSpec => []SettingsTypeOK
<1>1. SettingsInv => SettingsTypeOK
  BY DEF SettingsInv
<1> QED BY <1>1, SettingsInvariance, PTL

(* For any number of instances that share the file the last change wins.   *)
THEOREM LastChangeHolds == SettingsSpec => []LastChangeWins
<1>1. SettingsInv => LastChangeWins
  <2> SUFFICES ASSUME SettingsInv, accepted # NothingYet, UserActs PROVE ini = accepted
    BY DEF LastChangeWins
  <2>1. \A i \in Instance : ~OnItsWay(i)
    BY DEF OnItsWay, UserActs
  <2> QED BY <2>1 DEF SettingsInv, WinInv
<1> QED BY <1>1, SettingsInvariance, PTL

(* For any range the dialog shows the rate that it saves, unless the file  *)
(* had one outside that range.                                             *)
THEOREM RateIsShownHolds == SettingsSpec => []RateIsShown
<1>1. SettingsInv => RateIsShown
  BY DEF SettingsInv, SettingsTypeOK, RateInv, RateIsShown
<1> QED BY <1>1, SettingsInvariance, PTL
===============================================================================
