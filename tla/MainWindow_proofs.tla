-------------------------- MODULE MainWindow_proofs --------------------------
(***************************************************************************)
(* Proofs about MainWindow, for all songs, chips and rates.  First what    *)
(* transactions leave behind: models out of their resets, the rate.  Then  *)
(* that chips and channels are rearranged and never lost or doubled, and   *)
(* that the channels are in the order of the chips; this rests on what     *)
(* Orders_proofs shows of sorting.                                         *)
(***************************************************************************)
EXTENDS MainWindow, Orders_proofs

(* What is queued and which models are in a reset, at each step.           *)
ResetInv ==
    /\ step \in {"idle", "replace", "window", "chips", "channels"}
    /\ step = "idle" => flags = {}
    /\ step = "replace" => flags = Flag
    /\ "FileReplaced" \in flags => "ChipsEdited" \in flags
    /\ chipsReset => "FileReplaced" \in flags /\ step # "channels"
    /\ channelsReset => "ChipsEdited" \in flags

(* The rate is the one chosen for the song and settings, but between a     *)
(* change of the settings and their turn in ~StateTransaction.             *)
RateInv ==
    \/ stale
    \/ rate = ChosenRate(song, app)
    \/ step = "window" /\ "SettingsChanged" \in flags /\ "FileReplaced" \notin flags

LEMMA InitTransaction == WindowInit => ResetInv /\ RateInv
<1> SUFFICES ASSUME WindowInit PROVE ResetInv /\ RateInv
  OBVIOUS
<1>1. rate = ChosenRate(song, app)
  BY DEF WindowInit, ChosenRate
<1> QED BY <1>1 DEF WindowInit, ResetInv, RateInv

LEMMA EditTransaction ==
  ASSUME ResetInv, RateInv,
         \/ \E s \in Song : LoadPath(s) \/ LoadPathFails(s)
         \/ ReplaceFile
         \/ \E a \in AppSettings : SetAppSettings(a)
  PROVE  ResetInv' /\ RateInv'
<1> USE DEF ResetInv, RateInv, EditUnwrap, songVars, settingVars, viewVars
<1>1. CASE \E s \in Song : LoadPath(s)
  BY <1>1 DEF LoadPath, FileReplaced, Flag
<1>2. CASE \E s \in Song : LoadPathFails(s)
  BY <1>2 DEF LoadPathFails, wvars
<1>3. CASE ReplaceFile
  <2>1. rate' = ChosenRate(song', app')
    BY <1>3 DEF ReplaceFile
  <2> QED BY <1>3, <2>1 DEF ReplaceFile
<1>4. CASE \E a \in AppSettings : SetAppSettings(a)
  BY <1>4 DEF SetAppSettings
<1> QED BY <1>1, <1>2, <1>3, <1>4

LEMMA MoveTransaction ==
  ASSUME ResetInv, RateInv, MoveUp \/ MoveDown \/ \E at \in 0..Len(chips) : DropMimeData(at)
  PROVE  ResetInv' /\ RateInv'
<1>1. /\ step = "idle" /\ step' = "window" /\ flags' = flags \cup {"ChipsEdited"}
      /\ UNCHANGED <<song, rate, app, stale, chipsReset>>
  BY DEF MoveUp, MoveDown, MoveRowUp, DropMimeData, EditUnwrap, ChipsChanged, settingVars
<1>2. ResetInv'
  BY <1>1 DEF ResetInv
<1>3. RateInv'
  BY <1>1 DEF RateInv
<1> QED BY <1>2, <1>3

LEMMA DirectEdit ==
  ASSUME ResetInv, RateInv,
         \/ \E r \in DOMAIN chips : SelectChip(r)
         \/ \E r \in DOMAIN channels : Toggle(r)
         \/ \E rows \in SUBSET DOMAIN channels : ToggleSelected(rows)
  PROVE  ResetInv' /\ RateInv'
  BY DEF SelectChip, Toggle, ToggleSelected, SetData, ResetInv, RateInv,
         songVars, settingVars, viewVars

LEMMA EndTransaction ==
  ASSUME ResetInv, RateInv, UpdateWindow \/ UpdateChips \/ UpdateChannels
  PROVE  ResetInv' /\ RateInv'
<1> USE DEF ResetInv, RateInv, songVars, settingVars
<1>1. CASE UpdateWindow
  <2>1. ResetInv'
    BY <1>1 DEF UpdateWindow
  <2>2. song' = song /\ app' = app
    BY <1>1 DEF UpdateWindow
  <2>3. CASE "FileReplaced" \in flags \/ "SettingsChanged" \notin flags
    <3>1. UNCHANGED <<rate, stale>>
      BY <1>1, <2>3 DEF UpdateWindow
    <3> QED BY <1>1, <2>1, <2>2, <2>3, <3>1
  <2>4. CASE "FileReplaced" \notin flags /\ "SettingsChanged" \in flags
    <3>1. ReloadSettings
      BY <1>1, <2>4 DEF UpdateWindow
    <3> QED BY <2>1, <2>2, <3>1 DEF ReloadSettings
  <2> QED BY <2>3, <2>4
<1>2. CASE UpdateChips
  BY <1>2 DEF UpdateChips
<1>3. CASE UpdateChannels
  BY <1>3 DEF UpdateChannels
<1> QED BY <1>1, <1>2, <1>3

LEMMA Transactions == WindowSpec => [](ResetInv /\ RateInv)
<1>1. ResetInv /\ RateInv /\ [WindowNext]_wvars => (ResetInv /\ RateInv)'
  <2> SUFFICES ASSUME ResetInv, RateInv, [WindowNext]_wvars
               PROVE  (ResetInv /\ RateInv)'
    OBVIOUS
  <2>1. CASE UNCHANGED wvars
    BY <2>1 DEF wvars, songVars, settingVars, viewVars, ResetInv, RateInv
  <2> QED BY <2>1, EditTransaction, MoveTransaction, DirectEdit, EndTransaction
          DEF WindowNext
<1> QED BY <1>1, InitTransaction, PTL DEF WindowSpec

(* Whatever the user does, no model is left in a reset.                    *)
THEOREM ResetsEndHolds == WindowSpec => []ResetsEnd
<1>1. ResetInv => ResetsEnd
  BY DEF ResetInv, ResetsEnd
<1> QED BY <1>1, Transactions, PTL

(* The rate shown and rendered at never lags behind file or settings.      *)
THEOREM RateHolds == WindowSpec => []RateFollowsSettings
<1>1. ResetInv /\ RateInv => RateFollowsSettings
  BY DEF RateInv, ResetInv, RateFollowsSettings
<1> QED BY <1>1, Transactions, PTL

-------------------------------------------------------------------------------
(* Lists of chips.                                                         *)

OneToOne(t) == \A i, k \in DOMAIN t : t[i] = t[k] => i = k

SameChips(t, s) ==
    /\ t \in Seq(Chip) /\ s \in Seq(Chip)
    /\ Len(t) = Len(s)
    /\ ToSet(t) = ToSet(s)
    /\ OneToOne(t)

LEMMA ChipsRearranged ==
    ASSUME NEW s \in Seq(Chip), OneToOne(s), NEW order, Permutes(order, Len(s))
    PROVE  SameChips(Rearranged(s, order), s)
<1> DEFINE t == Rearranged(s, order)
<1>1. /\ t \in Seq(Chip)
      /\ Len(t) = Len(s)
      /\ \A p \in 1..Len(s) : t[p] = s[order[p]]
      /\ \A i \in 1..Len(s) : \E p \in 1..Len(s) : t[p] = s[i]
  BY RearrangedList
<1> HIDE DEF t
<1>3. PICK n \in Nat : n = Len(s)
  OBVIOUS
<1>4. /\ DOMAIN t = 1..n /\ DOMAIN s = 1..n
      /\ order \in [1..n -> 1..n]
      /\ \A p, q \in 1..n : order[p] = order[q] => p = q
      /\ \A p \in 1..n : t[p] = s[order[p]]
  <2>1. DOMAIN t = 1..n /\ DOMAIN s = 1..n
    BY <1>1, <1>3
  <2>2. \A p \in 1..n : t[p] = s[order[p]]
    BY <1>1, <1>3
  <2>3. Permutes(order, n)
    BY <1>3
  <2> QED BY <2>1, <2>2, <2>3 DEF Permutes
<1>2. ToSet(t) = ToSet(s)
  <2>1. ASSUME NEW i \in 1..n PROVE s[i] \in {t[p] : p \in 1..n} /\ t[i] \in {s[p] : p \in 1..n}
    <3>1. PICK p \in 1..n : t[p] = s[i]
      BY <1>1, <1>3
    <3> QED BY <1>4, <3>1
  <2>2. {t[p] : p \in 1..n} = {s[p] : p \in 1..n}
    BY <2>1
  <2> QED BY <1>4, <2>2 DEF ToSet
<1>5. OneToOne(t)
  BY <1>4 DEF OneToOne
<1>6. SameChips(t, s)
  BY <1>1, <1>2, <1>5 DEF SameChips
<1> QED BY <1>6 DEF t

LEMMA Sorted ==
    ASSUME NEW s \in Song
    PROVE  /\ SameChips(SortedDevices(s), Devices[s])
           /\ Devices[s] \in Seq(Chip) /\ OneToOne(Devices[s])
<1> DEFINE ds == Devices[s]
           key == [i \in DOMAIN ds |-> ChipKey(ds[i])]
<1>1. ds \in Seq(Chip) /\ OneToOne(ds)
  BY WindowAssumption DEF OneToOne
<1>2. ASSUME NEW i \in 1..Len(ds) PROVE ChipKey(ds[i]) \in Int
  <2>1. ds[i] \in Chip
    BY <1>1
  <2>2. ds[i].type \in Nat
    BY <2>1, WindowAssumption
  <2> QED BY <2>2 DEF ChipKey, SN76496, YM2612
<1>3. SortedDevices(s) = Rearranged(ds, SortOrder(key))
  BY DEF SortedDevices, StableSort
<1> HIDE DEF ds
<1>4. key \in [1..Len(ds) -> Int] /\ Len(ds) \in Nat
  BY <1>1, <1>2
<1> HIDE DEF key
<1>5. Permutes(SortOrder(key), Len(ds))
  BY <1>4, SortOrderSorts DEF Sorts
<1>6. SameChips(SortedDevices(s), ds)
  BY <1>1, <1>3, <1>5, ChipsRearranged
<1> QED BY <1>1, <1>6 DEF ds

(* Up and Down swap two rows; what MoveRowUp does to the current one.      *)
LEMMA Moved ==
    ASSUME NEW cs \in Seq(Chip), OneToOne(cs), NEW r \in 2..Len(cs),
           NEW t, t = [cs EXCEPT ![r] = cs[r - 1], ![r - 1] = cs[r]]
    PROVE  SameChips(t, cs) /\ t[r - 1] = cs[r] /\ t[r] = cs[r - 1]
<1>1. PICK n \in Nat : n = Len(cs)
  OBVIOUS
<1> DEFINE order == [p \in 1..n |-> IF p = r THEN r - 1 ELSE IF p = r - 1 THEN r ELSE p]
<1>2. r \in 2..n /\ r - 1 \in 1..n /\ r \in 1..n /\ r # r - 1
  BY <1>1
<1>3. Permutes(order, n)
  <2>1. order \in [1..n -> 1..n]
    BY <1>2
  <2>2. \A p, q \in 1..n : order[p] = order[q] => p = q
    BY <1>2
  <2>3. ASSUME NEW i \in 1..n PROVE order[order[i]] = i
    BY <1>2
  <2> QED BY <2>1, <2>2, <2>3 DEF Permutes
<1>4. DOMAIN cs = 1..n
  BY <1>1
<1>5. t = [p \in 1..n |-> cs[order[p]]]
  BY <1>2, <1>4
<1>6. t = Rearranged(cs, order)
  BY <1>5 DEF Rearranged
<1>7. SameChips(t, cs)
  <2> HIDE DEF order
  <2> QED BY <1>1, <1>3, <1>6, ChipsRearranged
<1> QED BY <1>2, <1>5, <1>7

LEMMA Dropped ==
    ASSUME chips \in Seq(Chip), NEW D, NEW at \in Int
    PROVE  Permutes(DropOrder(D, at), Len(chips))
<1> DEFINE key == [i \in DOMAIN chips |-> IF i \in D THEN 1 ELSE IF i <= at THEN 0 ELSE 2]
<1>1. Len(chips) \in Nat /\ DOMAIN chips = 1..Len(chips)
  OBVIOUS
<1>2. key \in [1..Len(chips) -> Int]
  BY <1>1
<1>3. DropOrder(D, at) = SortOrder(key)
  BY DEF DropOrder
<1> HIDE DEF key
<1>4. Sorts(SortOrder(key), Len(chips), key)
  BY <1>1, <1>2, SortOrderSorts
<1> QED BY <1>3, <1>4 DEF Sorts

-------------------------------------------------------------------------------
(* Lists of channels.                                                      *)

LEMMA SlotsFinite ==
    ASSUME NEW cs \in Seq(Chip)
    PROVE  IsFiniteSet(Slots(cs))
<1>1. PICK n \in Nat : n = Len(cs)
  OBVIOUS
<1> DEFINE ofChip(i) == {i} \X (1..NumChannels[cs[i]])
           groups == {ofChip(i) : i \in DOMAIN cs}
           f == [i \in DOMAIN cs |-> ofChip(i)]
<1>2. DOMAIN cs = 1..n
  BY <1>1
<1>3. IsFiniteSet(DOMAIN cs)
  BY <1>2, FS_Interval
<1>4. f \in Surjection(DOMAIN cs, groups)
  <2>1. f \in [DOMAIN cs -> groups]
    OBVIOUS
  <2>2. \A T \in groups : \E i \in DOMAIN cs : f[i] = T
    OBVIOUS
  <2> HIDE DEF f, groups
  <2> QED BY <2>1, <2>2 DEF Surjection
<1>5. ASSUME NEW T \in groups PROVE IsFiniteSet(T)
  <2>1. PICK i \in DOMAIN cs : T = ofChip(i)
    OBVIOUS
  <2>2. PICK m \in Nat : m = NumChannels[cs[i]]
    BY WindowAssumption
  <2> DEFINE A == {i}
             B == 1..m
  <2>3. IsFiniteSet(A)
    BY FS_Singleton, Zenon
  <2>4. IsFiniteSet(B) /\ T = A \X B
    BY <2>1, <2>2, FS_Interval
  <2> HIDE DEF A, B
  <2> QED BY <2>3, <2>4, FS_Product
<1> HIDE DEF f
<1>6. Slots(cs) = {<<0, 1>>} \cup UNION groups
  BY DEF Slots
<1> HIDE DEF groups
<1>7. IsFiniteSet(groups)
  BY <1>3, <1>4, FS_Surjection
<1>8. IsFiniteSet(UNION groups)
  BY <1>5, <1>7, FS_UNION
<1>9. IsFiniteSet({<<0, 1>>})
  BY FS_Singleton
<1> QED BY <1>6, <1>8, <1>9, FS_Union

LEMMA SlotsAre ==
    ASSUME NEW cs \in Seq(Chip), NEW slot \in Slots(cs)
    PROVE  \/ slot = <<0, 1>>
           \/ /\ slot[1] \in DOMAIN cs /\ cs[slot[1]] \in Chip
              /\ slot[2] \in 1..NumChannels[cs[slot[1]]]
              /\ slot = <<slot[1], slot[2]>>
  BY DEF Slots

LEMMA SlotsOrdered ==
    ASSUME NEW cs \in Seq(Chip)
    PROVE  IsOrder(Slots(cs), SlotOrder(Slots(cs)))
<1> DEFINE S == Slots(cs)
           R == SlotOrder(S)
<1>1. ASSUME NEW x \in S
      PROVE  /\ x[1] \in Int /\ x[2] \in Int
             /\ x = <<x[1], x[2]>>
  BY SlotsAre, WindowAssumption
<1>2. \A x, y \in S :
        <<x, y>> \in R <=> x[1] < y[1] \/ (x[1] = y[1] /\ x[2] <= y[2])
  <2> HIDE DEF S
  <2> QED BY DEF SlotOrder
<1> HIDE DEF S, R
<1>3. \A x \in S : <<x, x>> \in R
  BY <1>1, <1>2
<1>4. ASSUME NEW x \in S, NEW y \in S PROVE <<x, y>> \in R \/ <<y, x>> \in R
  <2>1. /\ x[1] \in Int /\ x[2] \in Int
        /\ y[1] \in Int /\ y[2] \in Int
    BY <1>1
  <2> QED BY <1>2, <2>1
<1>5. ASSUME NEW x \in S, NEW y \in S, <<x, y>> \in R, <<y, x>> \in R PROVE x = y
  <2>1. x[1] = y[1] /\ x[2] = y[2]
    BY <1>1, <1>2, <1>5
  <2> QED BY <1>1, <2>1
<1>6. \A x, y, z \in S : <<x, y>> \in R /\ <<y, z>> \in R => <<x, z>> \in R
  BY <1>1, <1>2
<1>7. IsOrder(S, R)
  BY <1>3, <1>4, <1>5, <1>6 DEF IsOrder
<1> QED BY <1>7 DEF S, R

(* The channels of a set of chips, and Master Audio.                       *)
AllChannels(C) ==
    {Master} \cup UNION {{[chip |-> c, chan |-> k] : k \in 1..NumChannels[c]} : c \in C}

PlaceOf(cs, ch) ==
    IF ch.chip = NoChip THEN 0 ELSE CHOOSE i \in DOMAIN cs : cs[i] = ch.chip

LEMMA NoChipIsNone == NoChip \notin Chip
  BY WindowAssumption DEF NoChip

LEMMA PlaceOfChip ==
    ASSUME NEW cs \in Seq(Chip), OneToOne(cs), NEW i \in DOMAIN cs,
           NEW ch, ch.chip = cs[i]
    PROVE  PlaceOf(cs, ch) = i
<1>1. ch.chip # NoChip
  BY NoChipIsNone
<1>2. \A k \in DOMAIN cs : cs[k] = ch.chip => k = i
  BY DEF OneToOne
<1>3. PlaceOf(cs, ch) = CHOOSE k \in DOMAIN cs : cs[k] = ch.chip
  BY <1>1 DEF PlaceOf
<1> QED BY <1>2, <1>3

LEMMA SlotChannel ==
    ASSUME NEW cs \in Seq(Chip), OneToOne(cs), NEW x \in Slots(cs)
    PROVE  /\ x[1] \in Int /\ x[2] \in Int /\ x = <<x[1], x[2]>>
           /\ ChannelOf(cs, x) \in Channel
           /\ ChannelOf(cs, x) \in AllChannels(ToSet(cs))
           /\ ChannelOf(cs, x).chan = x[2]
           /\ PlaceOf(cs, ChannelOf(cs, x)) = x[1]
<1>1. CASE x = <<0, 1>>
  <2>1. ChannelOf(cs, x) = Master
    BY <1>1 DEF ChannelOf, Master
  <2>2. PlaceOf(cs, Master) = 0
    BY DEF PlaceOf, Master
  <2> QED BY <1>1, <2>1, <2>2 DEF AllChannels, Master, Channel
<1>2. CASE x # <<0, 1>>
  <2>1. /\ x[1] \in DOMAIN cs /\ cs[x[1]] \in Chip
        /\ x[2] \in 1..NumChannels[cs[x[1]]]
        /\ x = <<x[1], x[2]>>
    BY <1>2, SlotsAre
  <2>2. x[1] \in Int /\ x[1] # 0 /\ NumChannels[cs[x[1]]] \in Nat
    BY <2>1, WindowAssumption
  <2>3. ChannelOf(cs, x) = [chip |-> cs[x[1]], chan |-> x[2]]
    BY <2>2 DEF ChannelOf
  <2>4. PlaceOf(cs, ChannelOf(cs, x)) = x[1]
    BY <2>1, <2>3, PlaceOfChip
  <2>5. cs[x[1]] \in ToSet(cs)
    BY <2>1 DEF ToSet
  <2>6. ChannelOf(cs, x) \in AllChannels(ToSet(cs))
    BY <2>1, <2>3, <2>5 DEF AllChannels
  <2>7. ChannelOf(cs, x) \in Channel /\ x[2] \in Int
    BY <2>1, <2>2, <2>3 DEF Channel
  <2> QED BY <2>1, <2>2, <2>3, <2>4, <2>6, <2>7
<1> QED BY <1>1, <1>2

LEMMA ChannelHasSlot ==
    ASSUME NEW cs \in Seq(Chip), NEW ch \in AllChannels(ToSet(cs))
    PROVE  \E x \in Slots(cs) : ChannelOf(cs, x) = ch
<1>1. CASE ch = Master
  <2>1. <<0, 1>> \in Slots(cs) /\ ChannelOf(cs, <<0, 1>>) = Master
    BY DEF Slots, ChannelOf, Master
  <2> QED BY <1>1, <2>1
<1>2. CASE ch # Master
  <2>1. PICK c \in ToSet(cs) : ch \in {[chip |-> c, chan |-> k] : k \in 1..NumChannels[c]}
    BY <1>2 DEF AllChannels
  <2>2. PICK k \in 1..NumChannels[c] : ch = [chip |-> c, chan |-> k]
    BY <2>1
  <2>3. PICK i \in DOMAIN cs : c = cs[i]
    BY <2>1 DEF ToSet
  <2>4. <<i, k>> \in Slots(cs)
    BY <2>2, <2>3 DEF Slots
  <2>5. i # 0
    BY <2>3
  <2>6. ChannelOf(cs, <<i, k>>) = ch
    BY <2>2, <2>3, <2>5 DEF ChannelOf
  <2> QED BY <2>4, <2>6
<1> QED BY <1>1, <1>2

(* L lists the channels of the chips C, each once, those of a chip in      *)
(* their own order...                                                      *)
ListsChannels(L, C) ==
    /\ L \in Seq(FlatChannel)
    /\ {L[i].ch : i \in DOMAIN L} = AllChannels(C)
    /\ \A i, k \in DOMAIN L : L[i].ch = L[k].ch => i = k
    /\ \A i, k \in DOMAIN L :
          i < k /\ L[i].ch.chip = L[k].ch.chip => L[i].ch.chan < L[k].ch.chan

(* ... and the chips in the order of cs.                                   *)
InChipOrder(L, cs) ==
    \A i, k \in DOMAIN L : i < k => PlaceOf(cs, L[i].ch) <= PlaceOf(cs, L[k].ch)

LEMMA ChannelsListed ==
    ASSUME NEW cs \in Seq(Chip), OneToOne(cs)
    PROVE  /\ ListsChannels(ChannelsOfChips(cs), ToSet(cs))
           /\ InChipOrder(ChannelsOfChips(cs), cs)
<1> DEFINE S == Slots(cs)
           R == SlotOrder(S)
           order == Listed(S, R)
           L == ChannelsOfChips(cs)
<1>1. PICK n \in Nat : n = Cardinality(S)
  BY SlotsFinite, FS_CardinalityType
<1>2. Lists(order, n, S, R)
  BY <1>1, SlotsFinite, SlotsOrdered, ListedLists
<1>3. /\ order \in [1..n -> S]
      /\ \A p, q \in 1..n : order[p] = order[q] => p = q
      /\ \A x \in S : \E p \in 1..n : order[p] = x
      /\ \A p, q \in 1..n : p <= q => <<order[p], order[q]>> \in R
  BY <1>2 DEF Lists
<1>4. L = [p \in 1..n |-> [ch |-> ChannelOf(cs, order[p]), on |-> TRUE]]
  <2>1. DOMAIN order = 1..n
    BY <1>3
  <2> QED BY <2>1 DEF ChannelsOfChips
<1>5. \A x, y \in S :
        <<x, y>> \in R <=> x[1] < y[1] \/ (x[1] = y[1] /\ x[2] <= y[2])
  <2> HIDE DEF S
  <2> QED BY DEF SlotOrder
<1>6. ASSUME NEW x \in S
      PROVE  /\ x[1] \in Int /\ x[2] \in Int /\ x = <<x[1], x[2]>>
             /\ ChannelOf(cs, x) \in Channel
             /\ ChannelOf(cs, x) \in AllChannels(ToSet(cs))
             /\ ChannelOf(cs, x).chan = x[2]
             /\ PlaceOf(cs, ChannelOf(cs, x)) = x[1]
  BY SlotChannel
<1>7. \A ch \in AllChannels(ToSet(cs)) : \E x \in S : ChannelOf(cs, x) = ch
  BY ChannelHasSlot
<1> HIDE DEF S, R, order, L
<1>8. ASSUME NEW p \in 1..n PROVE order[p] \in S /\ L[p].ch = ChannelOf(cs, order[p])
  BY <1>3, <1>4
<1>9. L \in Seq(FlatChannel) /\ DOMAIN L = 1..n
  <2>1. \A p \in 1..n : [ch |-> ChannelOf(cs, order[p]), on |-> TRUE] \in FlatChannel
    BY <1>3, <1>6 DEF FlatChannel
  <2>2. L \in [1..n -> FlatChannel]
    BY <1>4, <2>1
  <2> QED BY <2>2
<1>10. {L[i].ch : i \in 1..n} = AllChannels(ToSet(cs))
  <2>1. ASSUME NEW i \in 1..n PROVE L[i].ch \in AllChannels(ToSet(cs))
    BY <1>6, <1>8
  <2>2. ASSUME NEW ch \in AllChannels(ToSet(cs)) PROVE \E i \in 1..n : L[i].ch = ch
    <3>1. PICK x \in S : ChannelOf(cs, x) = ch
      BY <1>7
    <3>2. PICK i \in 1..n : order[i] = x
      BY <1>3
    <3> QED BY <1>8, <3>1, <3>2
  <2> QED BY <2>1, <2>2
<1>11. ASSUME NEW i \in 1..n, NEW k \in 1..n, L[i].ch = L[k].ch PROVE i = k
  <2>1. order[i] = order[k]
    BY <1>6, <1>8, <1>11
  <2> QED BY <1>3, <2>1
<1>12. ASSUME NEW i \in 1..n, NEW k \in 1..n, i < k
       PROVE  /\ PlaceOf(cs, L[i].ch) <= PlaceOf(cs, L[k].ch)
              /\ L[i].ch.chip = L[k].ch.chip => L[i].ch.chan < L[k].ch.chan
  <2> DEFINE x == order[i]
             y == order[k]
  <2>1. <<x, y>> \in R /\ x # y /\ x \in S /\ y \in S
    BY <1>3, <1>12
  <2>2. /\ L[i].ch = ChannelOf(cs, x) /\ L[k].ch = ChannelOf(cs, y)
        /\ PlaceOf(cs, L[i].ch) = x[1] /\ L[i].ch.chan = x[2]
        /\ PlaceOf(cs, L[k].ch) = y[1] /\ L[k].ch.chan = y[2]
    BY <1>6, <1>8, <2>1
  <2> HIDE DEF x, y
  <2>3. /\ x[1] \in Int /\ x[2] \in Int /\ y[1] \in Int /\ y[2] \in Int
        /\ x = <<x[1], x[2]>> /\ y = <<y[1], y[2]>>
    BY <1>6, <2>1
  <2>4. x[1] < y[1] \/ (x[1] = y[1] /\ x[2] <= y[2])
    BY <1>5, <2>1
  <2>5. ~(x[1] = y[1] /\ x[2] = y[2])
    BY <2>1, <2>3
  <2>6. L[i].ch.chip = L[k].ch.chip => PlaceOf(cs, L[i].ch) = PlaceOf(cs, L[k].ch)
    BY DEF PlaceOf
  <2> QED BY <2>2, <2>3, <2>4, <2>5, <2>6
<1>13. ListsChannels(L, ToSet(cs))
  BY <1>9, <1>10, <1>11, <1>12 DEF ListsChannels
<1>14. InChipOrder(L, cs)
  BY <1>9, <1>12 DEF InChipOrder
<1> QED BY <1>13, <1>14 DEF L

LEMMA HowMany ==
    ASSUME NEW C, NEW L, ListsChannels(L, C)
    PROVE  Len(L) = Cardinality(AllChannels(C))
<1>1. PICK n \in Nat : n = Len(L) /\ DOMAIN L = 1..n
  BY DEF ListsChannels
<1> DEFINE T == 1..n
           A == AllChannels(C)
           f == [i \in T |-> L[i].ch]
<1>2. IsFiniteSet(T) /\ Cardinality(T) = n
  BY FS_Interval
<1>3. {L[i].ch : i \in T} = A
  BY <1>1 DEF ListsChannels
<1>4. \A i, k \in T : L[i].ch = L[k].ch => i = k
  BY <1>1 DEF ListsChannels
<1> HIDE DEF T, A
<1>5. f \in [T -> A] /\ \A x \in A : \E i \in T : f[i] = x
  <2>1. \A i \in T : L[i].ch \in A
    BY <1>3
  <2>2. \A x \in A : \E i \in T : L[i].ch = x
    BY <1>3
  <2> QED BY <2>1, <2>2
<1>6. \A i, k \in T : f[i] = f[k] => i = k
  BY <1>4
<1> HIDE DEF f
<1>7. f \in Surjection(T, A) /\ f \in Injection(T, A)
  BY <1>5, <1>6, Fun_IsInj DEF Surjection
<1>8. Cardinality(A) = Cardinality(T)
  BY <1>2, <1>7, FS_Surjection
<1> QED BY <1>1, <1>2, <1>8 DEF A

(* The sort puts the channels in order and leaves their boxes alone.                           *)
LEMMA ChannelsSorted ==
    ASSUME chips \in Seq(Chip), ListsChannels(channels, ToSet(chips))
    PROVE  /\ ListsChannels(SortedChannels, ToSet(chips))
           /\ InChipOrder(SortedChannels, chips)
           /\ {SortedChannels[i] : i \in DOMAIN SortedChannels} =
                  {channels[i] : i \in DOMAIN channels}
<1>1. PICK n \in Nat : n = Len(channels) /\ DOMAIN channels = 1..n
  BY DEF ListsChannels
<1> DEFINE key == [i \in DOMAIN channels |-> ChipOrder(channels[i].ch)]
           order == SortOrder(key)
           L == SortedChannels
<1>2. ASSUME NEW ch PROVE ChipOrder(ch) = PlaceOf(chips, ch)
  BY DEF ChipOrder, PlaceOf
<1>3. ASSUME NEW ch \in AllChannels(ToSet(chips)) PROVE PlaceOf(chips, ch) \in Int
  <2>1. PICK x \in Slots(chips) : ChannelOf(chips, x) = ch
    BY ChannelHasSlot
  <2>2. ch.chip = NoChip \/ \E i \in DOMAIN chips : chips[i] = ch.chip
    BY <2>1, SlotsAre DEF ChannelOf
  <2>3. \A i \in DOMAIN chips : i \in Int
    OBVIOUS
  <2> QED BY <2>2, <2>3 DEF PlaceOf
<1>4. /\ channels \in Seq(FlatChannel)
      /\ {channels[i].ch : i \in 1..n} = AllChannels(ToSet(chips))
      /\ \A i, k \in 1..n : channels[i].ch = channels[k].ch => i = k
      /\ \A i, k \in 1..n :
           i < k /\ channels[i].ch.chip = channels[k].ch.chip =>
               channels[i].ch.chan < channels[k].ch.chan
  BY <1>1 DEF ListsChannels
<1>5. \A i \in 1..n : channels[i].ch \in AllChannels(ToSet(chips))
  BY <1>4
<1>6. key \in [1..n -> Int] /\ \A i \in 1..n : key[i] = PlaceOf(chips, channels[i].ch)
  BY <1>1, <1>2, <1>3, <1>5
<1>7. L = Rearranged(channels, order)
  BY DEF SortedChannels, StableSort
<1> HIDE DEF key, order
<1>8. Sorts(order, n, key)
  BY <1>6, SortOrderSorts DEF order
<1>9. Permutes(order, Len(channels))
  BY <1>1, <1>8 DEF Sorts
<1>10. /\ L \in Seq(FlatChannel)
       /\ Len(L) = Len(channels)
       /\ \A p \in 1..Len(channels) : L[p] = channels[order[p]]
       /\ \A i \in 1..Len(channels) : \E p \in 1..Len(channels) : L[p] = channels[i]
  <2> DEFINE r == Rearranged(channels, order)
  <2>1. channels \in Seq(FlatChannel)
    BY <1>4
  <2>2. /\ r \in Seq(FlatChannel)
        /\ Len(r) = Len(channels)
        /\ \A p \in 1..Len(channels) : r[p] = channels[order[p]]
        /\ \A i \in 1..Len(channels) : \E p \in 1..Len(channels) : r[p] = channels[i]
    BY <1>9, <2>1, RearrangedList
  <2> HIDE DEF L, r
  <2>3. L = r
    BY <1>7 DEF r
  <2> QED BY <2>2, <2>3
<1> HIDE DEF L
<1>11. /\ order \in [1..n -> 1..n]
       /\ \A p, q \in 1..n : order[p] = order[q] => p = q
  BY <1>8 DEF Sorts, Permutes
<1>12. /\ DOMAIN L = 1..n
       /\ \A p \in 1..n : L[p] = channels[order[p]]
       /\ \A i \in 1..n : \E p \in 1..n : L[p] = channels[i]
  BY <1>1, <1>10
<1>13. ASSUME NEW p \in 1..n, NEW q \in 1..n, p < q
       PROVE  /\ PlaceOf(chips, L[p].ch) <= PlaceOf(chips, L[q].ch)
              /\ L[p].ch.chip = L[q].ch.chip => L[p].ch.chan < L[q].ch.chan
  <2>1. /\ order[p] \in 1..n /\ order[q] \in 1..n
        /\ L[p].ch = channels[order[p]].ch /\ L[q].ch = channels[order[q]].ch
    BY <1>11, <1>12
  <2>2. /\ key[order[p]] \in Int /\ key[order[q]] \in Int
        /\ key[order[p]] = PlaceOf(chips, L[p].ch)
        /\ key[order[q]] = PlaceOf(chips, L[q].ch)
    BY <1>6, <2>1
  <2>3. \/ key[order[p]] < key[order[q]]
        \/ key[order[p]] = key[order[q]] /\ order[p] < order[q]
    BY <1>8, <1>13 DEF Sorts
  <2>4. L[p].ch.chip = L[q].ch.chip => PlaceOf(chips, L[p].ch) = PlaceOf(chips, L[q].ch)
    BY DEF PlaceOf
  <2> QED BY <1>4, <2>1, <2>2, <2>3, <2>4
<1>14. ASSUME NEW p \in 1..n, NEW q \in 1..n, L[p].ch = L[q].ch PROVE p = q
  <2>1. order[p] \in 1..n /\ order[q] \in 1..n
    BY <1>11
  <2>2. channels[order[p]].ch = channels[order[q]].ch
    BY <1>12, <1>14
  <2>3. order[p] = order[q]
    BY <1>4, <2>1, <2>2
  <2> QED BY <1>11, <2>3
<1>15. {L[i] : i \in 1..n} = {channels[i] : i \in 1..n}
  <2>1. ASSUME NEW i \in 1..n
        PROVE  (\E k \in 1..n : L[i] = channels[k]) /\ (\E k \in 1..n : channels[i] = L[k])
    <3>1. order[i] \in 1..n /\ L[i] = channels[order[i]]
      BY <1>11, <1>12
    <3>2. \E p \in 1..n : L[p] = channels[i]
      BY <1>12
    <3> QED BY <3>1, <3>2
  <2>2. \A i \in 1..n : L[i] \in {channels[k] : k \in 1..n} /\ channels[i] \in {L[k] : k \in 1..n}
    BY <2>1
  <2> QED BY <2>2
<1>16. {L[i].ch : i \in 1..n} = {channels[i].ch : i \in 1..n}
  <2>1. ASSUME NEW i \in 1..n
        PROVE  /\ \E k \in 1..n : L[i].ch = channels[k].ch
               /\ \E k \in 1..n : channels[i].ch = L[k].ch
    <3>1. order[i] \in 1..n /\ L[i] = channels[order[i]]
      BY <1>11, <1>12
    <3>2. PICK p \in 1..n : L[p] = channels[i]
      BY <1>12
    <3> QED BY <3>1, <3>2
  <2>2. \A i \in 1..n : /\ L[i].ch \in {channels[k].ch : k \in 1..n}
                        /\ channels[i].ch \in {L[k].ch : k \in 1..n}
    BY <2>1
  <2> QED BY <2>2
<1>17. ListsChannels(L, ToSet(chips))
  BY <1>4, <1>10, <1>12, <1>13, <1>14, <1>16 DEF ListsChannels
<1>18. InChipOrder(L, chips)
  BY <1>12, <1>13 DEF InChipOrder
<1> QED BY <1>1, <1>12, <1>15, <1>17, <1>18 DEF L

-------------------------------------------------------------------------------
(* The song's chips and channels, at every step.                           *)

SongInv ==
    /\ song \in Song \cup {NoSong}
    /\ loading \in Song \cup {NoSong}
    /\ step = "replace" => loading \in Song /\ chipsReset /\ channelsReset
    /\ "ChipsEdited" \in flags => channelsReset
    /\ current \in Nat
    /\ current \in 0..Len(chips) \/ chipsReset
    /\ song = NoSong => chips = <<>> /\ channels = <<>>
    /\ song # NoSong => SameChips(chips, Devices[song])
    /\ song # NoSong => ListsChannels(channels, ToSet(chips))
    /\ song # NoSong /\ step # "replace"
         /\ ("ChipsEdited" \notin flags \/ "FileReplaced" \in flags)
           => InChipOrder(channels, chips)

(* Moving the current chip up, down or by a drop.                          *)
LEMMA ChipMoves ==
    ASSUME SongInv, ResetInv, MoveUp \/ MoveDown \/ \E at \in 0..Len(chips) : DropMimeData(at)
    PROVE  /\ SameChips(chips', chips)
           /\ song # NoSong /\ chips \in Seq(Chip)
           /\ current # 0 /\ current' \in 1..Len(chips')
           /\ chips'[current'] = chips[current]
<1>1. step = "idle" /\ flags = {} /\ ~chipsReset
  BY DEF MoveUp, MoveDown, MoveRowUp, DropMimeData, EditUnwrap, ResetInv
<1>2. current # 0 /\ current \in 0..Len(chips)
  BY <1>1 DEF MoveUp, MoveDown, DropMimeData, SongInv
<1>3. song # NoSong
  BY <1>2 DEF SongInv
<1>4. chips \in Seq(Chip) /\ OneToOne(chips)
  BY <1>3 DEF SongInv, SameChips
<1>5. PICK n \in Nat : n = Len(chips) /\ DOMAIN chips = 1..n
  BY <1>4
<1>6. current \in 1..n
  BY <1>2, <1>5
<1>7. ASSUME NEW r \in 2..Len(chips), MoveRowUp(r), current = r \/ current + 1 = r
      PROVE  /\ SameChips(chips', chips)
             /\ current' \in 1..Len(chips') /\ chips'[current'] = chips[current]
  <2>1. chips' = [chips EXCEPT ![r] = chips[r - 1], ![r - 1] = chips[r]]
    BY <1>7 DEF MoveRowUp
  <2>2. SameChips(chips', chips) /\ chips'[r - 1] = chips[r] /\ chips'[r] = chips[r - 1]
    BY <1>4, <2>1, Moved
  <2>3. Len(chips') = n /\ r \in 2..n
    BY <1>5, <2>2 DEF SameChips
  <2>4. (current = r /\ current' = r - 1) \/ (current = r - 1 /\ current' = r)
    BY <1>6, <1>7, <2>3 DEF MoveRowUp
  <2> QED BY <2>2, <2>3, <2>4
<1>8. CASE MoveUp
  BY <1>2, <1>3, <1>4, <1>7, <1>8 DEF MoveUp, MoveRowUp
<1>9. CASE MoveDown
  BY <1>2, <1>3, <1>4, <1>7, <1>9 DEF MoveDown, MoveRowUp
<1>10. CASE \E at \in 0..Len(chips) : DropMimeData(at)
  <2>1. PICK at \in 0..Len(chips) : DropMimeData(at)
    BY <1>10
  <2> DEFINE order == DropOrder({current}, at)
  <2>2. Permutes(order, Len(chips))
    BY <1>4, Dropped
  <2>3. chips' = Rearranged(chips, order) /\ current' = CurrentAfter(order)
    BY <2>1 DEF DropMimeData
  <2> HIDE DEF order
  <2>4. SameChips(Rearranged(chips, order), chips)
    BY <1>4, <2>2, ChipsRearranged
  <2>5. /\ order \in [1..n -> 1..n]
        /\ \E p \in 1..n : order[p] = current
    BY <1>5, <1>6, <2>2 DEF Permutes
  <2>6. current' \in 1..n /\ order[current'] = current
    BY <2>3, <2>5 DEF CurrentAfter
  <2>7. chips'[current'] = chips[current]
    BY <2>3, <2>5, <2>6 DEF Rearranged
  <2>8. Len(chips') = n
    BY <1>5, <2>3, <2>4 DEF SameChips
  <2> QED BY <1>2, <1>3, <1>4, <2>3, <2>4, <2>6, <2>7, <2>8
<1> QED BY <1>8, <1>9, <1>10

(* Ticking boxes changes no channel.                                       *)
LEMMA BoxesTicked ==
    ASSUME NEW C, ListsChannels(channels, C), NEW rows, NEW on \in BOOLEAN, SetData(rows, on)
    PROVE  /\ ListsChannels(channels', C)
           /\ DOMAIN channels' = DOMAIN channels
           /\ \A i \in DOMAIN channels : channels'[i].ch = channels[i].ch
<1>1. PICK n \in Nat : n = Len(channels) /\ DOMAIN channels = 1..n
  BY DEF ListsChannels
<1>2. channels' = [r \in 1..n |->
                     IF r \in rows THEN [channels[r] EXCEPT !.on = on] ELSE channels[r]]
  BY <1>1 DEF SetData
<1>3. \A r \in 1..n : channels[r] \in FlatChannel
  BY <1>1 DEF ListsChannels
<1>4. \A r \in 1..n : channels'[r] \in FlatChannel /\ channels'[r].ch = channels[r].ch
  BY <1>2, <1>3 DEF FlatChannel
<1>5. channels' \in [1..n -> FlatChannel]
  BY <1>2, <1>4
<1>6. channels' \in Seq(FlatChannel) /\ DOMAIN channels' = 1..n
  BY <1>5
<1>7. {channels'[i].ch : i \in 1..n} = {channels[i].ch : i \in 1..n}
  BY <1>4
<1>8. ListsChannels(channels', C)
  BY <1>1, <1>4, <1>6, <1>7 DEF ListsChannels
<1> QED BY <1>1, <1>4, <1>6, <1>8

LEMMA InitSong == WindowInit => SongInv
  BY DEF WindowInit, SongInv

LEMMA EditSong ==
  ASSUME ResetInv, SongInv,
         \/ \E s \in Song : LoadPath(s) \/ LoadPathFails(s)
         \/ ReplaceFile
         \/ \E a \in AppSettings : SetAppSettings(a)
  PROVE  SongInv'
<1> USE DEF EditUnwrap, songVars, settingVars, viewVars
<1>1. CASE \E s \in Song : LoadPath(s)
  <2>1. PICK s \in Song : LoadPath(s)
    BY <1>1
  <2>2. /\ UNCHANGED <<song, chips, channels, current>>
        /\ chipsReset' /\ channelsReset' /\ loading' = s /\ step' = "replace"
    BY <2>1 DEF LoadPath, FileReplaced
  <2> QED BY <2>2 DEF SongInv
<1>2. CASE \E s \in Song : LoadPathFails(s)
  <2>1. UNCHANGED <<song, chips, channels, loading, step, chipsReset, channelsReset, flags, current>>
    BY <1>2 DEF LoadPathFails, wvars
  <2> QED BY <2>1 DEF SongInv
<1>3. CASE ReplaceFile
  <2>1. /\ loading \in Song /\ loading # NoSong /\ chipsReset /\ channelsReset
        /\ flags = Flag /\ current \in Nat
    BY <1>3, WindowAssumption DEF ReplaceFile, SongInv, ResetInv
  <2>2. /\ song' = loading /\ loading' = NoSong /\ step' = "window"
        /\ chips' = SortedDevices(loading)
        /\ channels' = ChannelsOfChips(chips')
        /\ UNCHANGED <<current, chipsReset, channelsReset, flags>>
    BY <1>3 DEF ReplaceFile
  <2>3. SameChips(chips', Devices[song'])
    BY <2>1, <2>2, Sorted
  <2>4. chips' \in Seq(Chip) /\ OneToOne(chips')
    BY <2>3 DEF SameChips
  <2>5. ListsChannels(channels', ToSet(chips')) /\ InChipOrder(channels', chips')
    BY <2>2, <2>4, ChannelsListed
  <2> QED BY <2>1, <2>2, <2>3, <2>5 DEF SongInv
<1>4. CASE \E a \in AppSettings : SetAppSettings(a)
  <2>1. /\ UNCHANGED <<song, chips, channels, current, chipsReset, channelsReset, loading>>
        /\ flags' = {"SettingsChanged"} /\ step = "idle" /\ step' = "window" /\ flags = {}
    BY <1>4 DEF SetAppSettings, ResetInv
  <2> QED BY <2>1 DEF SongInv
<1> QED BY <1>1, <1>2, <1>3, <1>4

LEMMA MoveSong ==
  ASSUME ResetInv, SongInv, MoveUp \/ MoveDown \/ \E at \in 0..Len(chips) : DropMimeData(at)
  PROVE  SongInv'
<1>1. /\ step = "idle" /\ step' = "window" /\ flags' = flags \cup {"ChipsEdited"}
      /\ channelsReset' /\ flags = {}
      /\ UNCHANGED <<song, channels, chipsReset, loading>>
  BY DEF MoveUp, MoveDown, MoveRowUp, DropMimeData, EditUnwrap, ChipsChanged, ResetInv
<1>2. /\ SameChips(chips', chips)
      /\ song # NoSong
      /\ current' \in 1..Len(chips')
  BY ChipMoves
<1>3. SameChips(chips', Devices[song']) /\ ToSet(chips') = ToSet(chips)
  BY <1>1, <1>2 DEF SongInv, SameChips
<1>4. ListsChannels(channels', ToSet(chips'))
  BY <1>1, <1>2, <1>3 DEF SongInv
<1>5. current' \in Nat /\ current' \in 0..Len(chips')
  <2>1. Len(chips') \in Nat
    BY <1>2 DEF SameChips
  <2> QED BY <1>2, <2>1
<1> QED BY <1>1, <1>2, <1>3, <1>4, <1>5 DEF SongInv

LEMMA DirectSong ==
  ASSUME ResetInv, SongInv,
         \/ \E r \in DOMAIN chips : SelectChip(r)
         \/ \E r \in DOMAIN channels : Toggle(r)
         \/ \E rows \in SUBSET DOMAIN channels : ToggleSelected(rows)
  PROVE  SongInv'
<1> USE DEF songVars, settingVars, viewVars
<1>1. CASE \E r \in DOMAIN chips : SelectChip(r)
  <2>1. PICK r \in DOMAIN chips : SelectChip(r)
    BY <1>1
  <2>2. /\ UNCHANGED <<song, chips, channels, loading, step, chipsReset, channelsReset, flags>>
        /\ current' = r
    BY <2>1 DEF SelectChip
  <2>3. song # NoSong /\ chips \in Seq(Chip)
    BY DEF SongInv, SameChips
  <2>4. current' \in Nat /\ current' \in 0..Len(chips')
    BY <2>2, <2>3
  <2> QED BY <2>2, <2>4 DEF SongInv
<1>2. ASSUME NEW rows, NEW on \in BOOLEAN, SetData(rows, on) PROVE SongInv'
  <2>1. UNCHANGED <<song, chips, loading, step, chipsReset, channelsReset, flags, current>>
    BY <1>2 DEF SetData
  <2>2. CASE song = NoSong
    <3>1. channels = <<>>
      BY <2>2 DEF SongInv
    <3>2. channels' = <<>>
      BY <1>2, <3>1 DEF SetData
    <3> QED BY <2>1, <2>2, <3>2 DEF SongInv
  <2>3. CASE song # NoSong
    <3>1. /\ ListsChannels(channels', ToSet(chips))
          /\ DOMAIN channels' = DOMAIN channels
          /\ \A i \in DOMAIN channels : channels'[i].ch = channels[i].ch
      BY <1>2, <2>3, BoxesTicked DEF SongInv
    <3>2. InChipOrder(channels, chips) => InChipOrder(channels', chips)
      BY <3>1 DEF InChipOrder
    <3> QED BY <2>1, <2>3, <3>1, <3>2 DEF SongInv
  <2> QED BY <2>2, <2>3
<1>3. CASE \E r \in DOMAIN channels : Toggle(r)
  BY <1>2, <1>3 DEF Toggle
<1>4. CASE \E rows \in SUBSET DOMAIN channels : ToggleSelected(rows)
  BY <1>2, <1>4 DEF ToggleSelected
<1> QED BY <1>1, <1>3, <1>4

LEMMA EndSong ==
  ASSUME ResetInv, SongInv, UpdateWindow \/ UpdateChips \/ UpdateChannels
  PROVE  SongInv'
<1> USE DEF songVars, settingVars
<1>1. CASE UpdateWindow
  <2>1. /\ UNCHANGED <<song, chips, channels, loading, chipsReset, channelsReset, flags, current>>
        /\ step = "window" /\ step' = "chips"
    BY <1>1 DEF UpdateWindow
  <2> QED BY <2>1 DEF SongInv
<1>2. CASE UpdateChips
  <2>1. /\ UNCHANGED <<song, chips, channels, loading, channelsReset, flags>>
        /\ step = "chips" /\ step' = "channels"
    BY <1>2 DEF UpdateChips
  <2>2. current' \in Nat /\ current' \in 0..Len(chips')
    <3>1. CASE "FileReplaced" \in flags
      <4>1. current' = IF chips = <<>> THEN 0 ELSE 1
        BY <1>2, <3>1 DEF UpdateChips
      <4>2. chips \in Seq(Chip)
        <5>1. <<>> \in Seq(Chip)
          OBVIOUS
        <5> QED BY <5>1 DEF SongInv, SameChips
      <4>3. chips # <<>> => Len(chips) \in Nat /\ Len(chips) # 0
        BY <4>2
      <4>4. Len(chips) \in Nat /\ chips' = chips
        BY <2>1, <4>2
      <4> QED BY <4>1, <4>3, <4>4
    <3>2. CASE "FileReplaced" \notin flags
      BY <1>2, <2>1, <3>2 DEF UpdateChips, SongInv, ResetInv
    <3> QED BY <3>1, <3>2
  <2> QED BY <2>1, <2>2 DEF SongInv
<1>3. CASE UpdateChannels
  <2>1. /\ UNCHANGED <<song, chips, loading, chipsReset, current>>
        /\ step = "channels" /\ step' = "idle" /\ flags' = {}
    BY <1>3 DEF UpdateChannels
  <2>2. CASE song = NoSong
    <3>1. channels = <<>>
      BY <2>2 DEF SongInv
    <3>2. channels' = <<>>
      <4> DEFINE key == [i \in DOMAIN channels |-> ChipOrder(channels[i].ch)]
      <4>0. PICK n \in Nat : n = 0
        OBVIOUS
      <4>1. key \in [1..n -> Int] /\ channels \in Seq(FlatChannel) /\ Len(channels) = n
        BY <3>1, <4>0
      <4>2. SortedChannels = Rearranged(channels, SortOrder(key))
        BY DEF SortedChannels, StableSort
      <4> HIDE DEF key
      <4>3. Permutes(SortOrder(key), Len(channels))
        <5>1. Sorts(SortOrder(key), n, key)
          BY <4>1, SortOrderSorts
        <5> QED BY <4>1, <5>1 DEF Sorts
      <4>4. /\ Rearranged(channels, SortOrder(key)) \in Seq(FlatChannel)
            /\ Len(Rearranged(channels, SortOrder(key))) = 0
        BY <4>0, <4>1, <4>3, RearrangedList
      <4>5. SortedChannels = <<>>
        BY <4>2, <4>4
      <4> QED BY <1>3, <3>1, <4>5 DEF UpdateChannels
    <3> QED BY <2>1, <2>2, <3>2 DEF SongInv
  <2>3. CASE song # NoSong /\ "ChipsEdited" \in flags /\ "FileReplaced" \notin flags
    <3>1. channels' = SortedChannels
      BY <1>3, <2>3 DEF UpdateChannels
    <3>2. ListsChannels(SortedChannels, ToSet(chips)) /\ InChipOrder(SortedChannels, chips)
      BY <2>3, ChannelsSorted DEF SongInv, SameChips
    <3> QED BY <2>1, <2>3, <3>1, <3>2 DEF SongInv
  <2>4. CASE song # NoSong /\ ("ChipsEdited" \notin flags \/ "FileReplaced" \in flags)
    <3>1. channels' = channels
      BY <1>3, <2>4 DEF UpdateChannels
    <3> QED BY <2>1, <2>4, <3>1 DEF SongInv
  <2> QED BY <2>2, <2>3, <2>4
<1> QED BY <1>1, <1>2, <1>3

LEMMA SongStep ==
  ASSUME ResetInv, SongInv, [WindowNext]_wvars
  PROVE  SongInv'
<1>1. CASE UNCHANGED wvars
  <2>1. UNCHANGED <<song, chips, channels, loading, step, chipsReset, channelsReset, flags, current>>
    BY <1>1 DEF wvars, songVars, settingVars, viewVars
  <2> QED BY <2>1 DEF SongInv
<1> QED BY <1>1, EditSong, MoveSong, DirectSong, EndSong DEF WindowNext

LEMMA Songs == WindowSpec => [](ResetInv /\ SongInv)
<1>1. WindowInit => ResetInv /\ SongInv
  BY InitTransaction, InitSong
<1> QED BY <1>1, SongStep, Transactions, PTL DEF WindowSpec

LEMMA ListTypes == SongInv => chips \in Seq(Chip) /\ channels \in Seq(FlatChannel)
<1>1. <<>> \in Seq(Chip) /\ <<>> \in Seq(FlatChannel)
  OBVIOUS
<1> QED BY <1>1 DEF SongInv, SameChips, ListsChannels

(* No sequence of moves and drops loses or doubles a chip or a channel.    *)
THEOREM NothingIsLostHolds == WindowSpec => []NothingIsLost
<1>1. SongInv => NothingIsLost
  <2> SUFFICES ASSUME SongInv, song # NoSong
               PROVE  /\ Len(chips) = Len(Devices[song])
                      /\ ToSet(chips) = ToSet(Devices[song])
                      /\ Len(channels) = Len(ChannelsOfChips(Devices[song]))
                      /\ {channels[i].ch : i \in DOMAIN channels} =
                           {ChannelsOfChips(Devices[song])[i].ch :
                               i \in DOMAIN ChannelsOfChips(Devices[song])}
    BY DEF NothingIsLost
  <2> DEFINE all == ChannelsOfChips(Devices[song])
             C == ToSet(chips)
  <2>1. SameChips(chips, Devices[song]) /\ ListsChannels(channels, C) /\ song \in Song
    BY DEF SongInv
  <2>2. Devices[song] \in Seq(Chip) /\ OneToOne(Devices[song])
    BY <2>1, Sorted
  <2>3. Len(chips) = Len(Devices[song]) /\ C = ToSet(Devices[song])
    BY <2>1 DEF SameChips
  <2>4. ListsChannels(all, C)
    BY <2>2, <2>3, ChannelsListed
  <2> HIDE DEF all, C
  <2>5. Len(channels) = Len(all)
    BY <2>1, <2>4, HowMany
  <2>6. {channels[i].ch : i \in DOMAIN channels} = {all[i].ch : i \in DOMAIN all}
    BY <2>1, <2>4 DEF ListsChannels
  <2> QED BY <2>3, <2>5, <2>6 DEF all, C
<1> QED BY <1>1, Songs, PTL

(* Whenever the user may act, the channels follow the chips.               *)
THEOREM ChannelsFollow == WindowSpec => []ChannelsFollowChips
<1>1. ResetInv /\ SongInv => ChannelsFollowChips
  <2> SUFFICES ASSUME ResetInv, SongInv, step = "idle", song # NoSong
               PROVE  /\ channels[1].ch = Master
                      /\ \A i, k \in 2..Len(channels) : i < k =>
                           \E p, q \in DOMAIN chips :
                              /\ channels[i].ch.chip = chips[p]
                              /\ channels[k].ch.chip = chips[q]
                              /\ p < q \/ (p = q /\ channels[i].ch.chan < channels[k].ch.chan)
    BY DEF ChannelsFollowChips
  <2>1. /\ chips \in Seq(Chip) /\ OneToOne(chips)
        /\ ListsChannels(channels, ToSet(chips))
        /\ InChipOrder(channels, chips)
    BY DEF ResetInv, SongInv, SameChips
  <2>2. PICK n \in Nat : n = Len(channels) /\ DOMAIN channels = 1..n
    BY <2>1 DEF ListsChannels
  <2>3. ASSUME NEW i \in 1..n
        PROVE  \/ channels[i].ch = Master /\ PlaceOf(chips, channels[i].ch) = 0
               \/ \E p \in DOMAIN chips : /\ channels[i].ch.chip = chips[p]
                                          /\ PlaceOf(chips, channels[i].ch) = p
    <3> DEFINE ch == channels[i].ch
    <3>1. ch \in AllChannels(ToSet(chips))
      BY <2>1, <2>2 DEF ListsChannels
    <3> HIDE DEF ch
    <3>2. PICK x \in Slots(chips) : ChannelOf(chips, x) = ch
      BY <2>1, <3>1, ChannelHasSlot
    <3>3. PlaceOf(chips, ch) = x[1]
      BY <2>1, <3>2, SlotChannel
    <3>4. CASE x = <<0, 1>>
      <4>1. ChannelOf(chips, x) = Master
        BY <3>4 DEF ChannelOf, Master
      <4> QED BY <3>2, <3>3, <3>4, <4>1 DEF ch
    <3>5. CASE x # <<0, 1>>
      <4>1. x[1] \in DOMAIN chips
        BY <2>1, <3>5, SlotsAre
      <4>2. x[1] # 0
        BY <2>1, <4>1
      <4>3. ch.chip = chips[x[1]]
        BY <3>2, <4>2 DEF ChannelOf
      <4> QED BY <3>3, <4>1, <4>3 DEF ch
    <3> QED BY <3>4, <3>5
  <2>4. PICK m \in 1..n : channels[m].ch = Master
    <3>1. Master \in AllChannels(ToSet(chips))
      BY DEF AllChannels
    <3> QED BY <2>1, <2>2, <3>1 DEF ListsChannels
  <2>5. \A i \in 1..n : channels[i].ch = Master => i = m
    BY <2>1, <2>2, <2>4 DEF ListsChannels
  <2>6. \A i, k \in 1..n : i < k => PlaceOf(chips, channels[i].ch) <= PlaceOf(chips, channels[k].ch)
    BY <2>1, <2>2 DEF InChipOrder
  <2>7. \A p \in DOMAIN chips : p \in Nat /\ p # 0
    BY <2>1
  <2>8. m = 1
    <3> SUFFICES ASSUME m # 1 PROVE FALSE
      OBVIOUS
    <3>1. 1 \in 1..n /\ 1 < m
      BY <2>4
    <3>2. PlaceOf(chips, channels[1].ch) <= 0
      <4>1. PlaceOf(chips, Master) = 0
        BY DEF PlaceOf, Master
      <4> QED BY <2>4, <2>6, <3>1, <4>1
    <3>3. channels[1].ch # Master
      BY <2>5, <3>1
    <3>4. PICK p \in DOMAIN chips : PlaceOf(chips, channels[1].ch) = p
      BY <2>3, <3>1, <3>3
    <3> QED BY <2>7, <3>2, <3>4
  <2>9. ASSUME NEW i \in 2..n, NEW k \in 2..n, i < k
        PROVE  \E p, q \in DOMAIN chips :
                  /\ channels[i].ch.chip = chips[p]
                  /\ channels[k].ch.chip = chips[q]
                  /\ p < q \/ (p = q /\ channels[i].ch.chan < channels[k].ch.chan)
    <3>1. i \in 1..n /\ k \in 1..n /\ channels[i].ch # Master /\ channels[k].ch # Master
      BY <2>5, <2>8
    <3>2. PICK p \in DOMAIN chips : /\ channels[i].ch.chip = chips[p]
                                   /\ PlaceOf(chips, channels[i].ch) = p
      BY <2>3, <3>1
    <3>3. PICK q \in DOMAIN chips : /\ channels[k].ch.chip = chips[q]
                                   /\ PlaceOf(chips, channels[k].ch) = q
      BY <2>3, <3>1
    <3>4. p <= q
      BY <2>6, <2>9, <3>1, <3>2, <3>3
    <3>5. p = q => channels[i].ch.chan < channels[k].ch.chan
      BY <2>1, <2>2, <2>9, <3>1, <3>2, <3>3 DEF ListsChannels
    <3>6. p \in Nat /\ q \in Nat
      BY <2>7
    <3> QED BY <3>2, <3>3, <3>4, <3>5, <3>6
  <2> QED BY <2>2, <2>4, <2>8, <2>9
<1> QED BY <1>1, Songs, PTL

(* Which actions change chips, channels and the current chip, and when.    *)
Changes ==
    /\ ToSet(chips') # ToSet(chips) => chipsReset
    /\ \/ step = "replace"
       \/ channelsReset /\ step = "channels" /\ channels' = SortedChannels /\ song # NoSong
       \/ channels' = channels
       \/ /\ step = "idle" /\ step' = "idle"
          /\ DOMAIN channels' = DOMAIN channels
          /\ \A i \in DOMAIN channels : channels'[i].ch = channels[i].ch
    /\ step = "idle" /\ step' = "window" /\ current # 0 =>
          current' # 0 /\ chips'[current'] = chips[current]

LEMMA WhatChanges ==
  ASSUME ResetInv, SongInv, [WindowNext]_wvars
  PROVE  Changes
<1> USE DEF songVars, settingVars, viewVars, EditUnwrap
<1>1. CASE MoveUp \/ MoveDown \/ \E at \in 0..Len(chips) : DropMimeData(at)
  <2>1. /\ SameChips(chips', chips)
        /\ current' \in 1..Len(chips') /\ chips'[current'] = chips[current]
    BY <1>1, ChipMoves
  <2>2. channels' = channels
    BY <1>1 DEF MoveUp, MoveDown, MoveRowUp, DropMimeData
  <2>3. current' # 0
    BY <2>1 DEF SameChips
  <2> QED BY <2>1, <2>2, <2>3 DEF SameChips, Changes
<1>2. CASE ReplaceFile
  BY <1>2 DEF ReplaceFile, SongInv, Changes
<1>3. CASE UpdateChannels
  <2>1. step = "channels" /\ chips' = chips
    BY <1>3 DEF UpdateChannels
  <2>2. channels' = SortedChannels => channelsReset \/ channels' = channels
    BY <1>3 DEF UpdateChannels, SongInv
  <2>3. song = NoSong => channels' = channels
    <3> SUFFICES ASSUME song = NoSong PROVE channels' = channels
      OBVIOUS
    <3>1. SongInv'
      BY <1>3, EndSong
    <3>2. song' = NoSong /\ channels = <<>>
      BY <1>3 DEF UpdateChannels, SongInv
    <3> QED BY <3>1, <3>2 DEF SongInv
  <2>4. channels' = SortedChannels \/ channels' = channels
    BY <1>3 DEF UpdateChannels
  <2> QED BY <2>1, <2>2, <2>3, <2>4 DEF Changes
<1>4. ASSUME NEW rows, NEW on, SetData(rows, on)
      PROVE  /\ step = "idle" /\ step' = "idle" /\ chips' = chips
             /\ DOMAIN channels' = DOMAIN channels
             /\ \A i \in DOMAIN channels : channels'[i].ch = channels[i].ch
  <2>1. /\ step = "idle" /\ step' = "idle" /\ chips' = chips
        /\ channels' = [r \in DOMAIN channels |->
              IF r \in rows THEN [channels[r] EXCEPT !.on = on] ELSE channels[r]]
    BY <1>4 DEF SetData
  <2>2. \A i \in DOMAIN channels : channels[i] \in FlatChannel
    BY DEF SongInv, ListsChannels
  <2> QED BY <2>1, <2>2 DEF FlatChannel
<1>5. CASE (\E r \in DOMAIN channels : Toggle(r))
           \/ (\E rows \in SUBSET DOMAIN channels : ToggleSelected(rows))
  BY <1>4, <1>5 DEF Toggle, ToggleSelected, Changes
<1>6. CASE (\E s \in Song : LoadPath(s) \/ LoadPathFails(s))
           \/ (\E r \in DOMAIN chips : SelectChip(r))
           \/ (\E a \in AppSettings : SetAppSettings(a))
           \/ UpdateWindow \/ UpdateChips \/ UNCHANGED wvars
  <2>1. UNCHANGED <<chips, channels>>
    BY <1>6 DEF LoadPath, LoadPathFails, SelectChip, SetAppSettings, UpdateWindow,
                UpdateChips, wvars
  <2>2. step = "idle" /\ step' = "window" => current' = current
    BY <1>6 DEF LoadPath, LoadPathFails, SelectChip, SetAppSettings, UpdateWindow,
                UpdateChips, wvars
  <2> QED BY <2>1, <2>2 DEF Changes
<1>7. \/ MoveUp \/ MoveDown \/ \E at \in 0..Len(chips) : DropMimeData(at)
      \/ ReplaceFile \/ UpdateChannels
      \/ \E r \in DOMAIN channels : Toggle(r)
      \/ \E rows \in SUBSET DOMAIN channels : ToggleSelected(rows)
      \/ \E s \in Song : LoadPath(s) \/ LoadPathFails(s)
      \/ \E r \in DOMAIN chips : SelectChip(r)
      \/ \E a \in AppSettings : SetAppSettings(a)
      \/ UpdateWindow \/ UpdateChips \/ UNCHANGED wvars
  BY Zenon DEF WindowNext
<1> QED BY <1>1, <1>2, <1>3, <1>5, <1>6, <1>7

(* Views are told before their rows change...                              *)
THEOREM RowsHold == WindowSpec => RowsChangeInReset
<1>1. ResetInv /\ SongInv /\ [WindowNext]_wvars =>
        [ /\ ToSet(chips') # ToSet(chips) => chipsReset
          /\ (\/ Len(channels') # Len(channels)
              \/ \E i \in DOMAIN channels : channels'[i].ch # channels[i].ch)
                => channelsReset ]_wvars
  <2> SUFFICES ASSUME ResetInv, SongInv, [WindowNext]_wvars
               PROVE  /\ ToSet(chips') # ToSet(chips) => chipsReset
                      /\ (\/ Len(channels') # Len(channels)
                          \/ \E i \in DOMAIN channels : channels'[i].ch # channels[i].ch)
                            => channelsReset
    OBVIOUS
  <2>1. step = "replace" => channelsReset
    BY DEF SongInv
  <2>2. channels \in Seq(FlatChannel)
    BY ListTypes
  <2>3. CASE /\ step = "idle" /\ step' = "idle"
             /\ DOMAIN channels' = DOMAIN channels
             /\ \A i \in DOMAIN channels : channels'[i].ch = channels[i].ch
    <3>1. channels' \in Seq(FlatChannel)
      <4>1. SongInv'
        BY SongStep
      <4>2. <<>> \in Seq(FlatChannel)
        OBVIOUS
      <4> QED BY <4>1, <4>2 DEF SongInv, ListsChannels
    <3> QED BY <2>2, <2>3, <3>1, WhatChanges DEF Changes
  <2> QED BY <2>1, <2>3, WhatChanges DEF Changes
<1> QED BY <1>1, Songs, PTL DEF WindowSpec, RowsChangeInReset

(* ...rearranging chips leaves each channel's box as it was...             *)
THEOREM EnabledHold == WindowSpec => EnabledSurvives
<1>1. ResetInv /\ SongInv /\ [WindowNext]_wvars =>
        [ step # "replace" /\ (step # "idle" \/ step' # "idle") =>
            {channels'[i] : i \in DOMAIN channels'} =
                {channels[i] : i \in DOMAIN channels} ]_wvars
  <2> SUFFICES ASSUME ResetInv, SongInv, [WindowNext]_wvars,
                      step # "replace", step # "idle" \/ step' # "idle"
               PROVE  {channels'[i] : i \in DOMAIN channels'} =
                          {channels[i] : i \in DOMAIN channels}
    OBVIOUS
  <2>1. channels' = channels \/ (channels' = SortedChannels /\ song # NoSong)
    BY WhatChanges DEF Changes
  <2>2. CASE channels' = SortedChannels /\ song # NoSong
    <3>1. chips \in Seq(Chip) /\ ListsChannels(channels, ToSet(chips))
      BY <2>2 DEF SongInv, SameChips
    <3> QED BY <2>2, <3>1, ChannelsSorted
  <2> QED BY <2>1, <2>2
<1> QED BY <1>1, Songs, PTL DEF WindowSpec, EnabledSurvives

(* ...and the chip that was current stays current, wherever it goes.       *)
THEOREM CurrentHolds == WindowSpec => CurrentChipStays
<1>1. ResetInv /\ SongInv /\ [WindowNext]_wvars =>
        [ step = "idle" /\ step' = "window" /\ current # 0 =>
            current' # 0 /\ chips'[current'] = chips[current] ]_wvars
  BY WhatChanges DEF Changes
<1> QED BY <1>1, Songs, PTL DEF WindowSpec, CurrentChipStays

-------------------------------------------------------------------------------
(* What the window shows, and the types.                                   *)

ShownInv ==
    /\ filePath = song
    /\ step \in {"idle", "chips", "channels"} \/ (step = "window" /\ "FileReplaced" \notin flags)
         => shown = [title |-> song, canRender |-> song # NoSong, status |-> rate]

LEMMA HasChannels == SongInv => (channels # <<>> <=> song # NoSong)
<1>1. ASSUME ListsChannels(channels, ToSet(chips)) PROVE channels # <<>>
  <2>1. Master \in {channels[i].ch : i \in DOMAIN channels}
    BY <1>1 DEF ListsChannels, AllChannels
  <2> QED BY <2>1
<1> QED BY <1>1 DEF SongInv

LEMMA ShownStep ==
  ASSUME ResetInv, SongInv, ShownInv, [WindowNext]_wvars
  PROVE  ShownInv'
<1> USE DEF EditUnwrap, songVars, settingVars, viewVars
<1>1. CASE \E s \in Song : LoadPath(s) \/ LoadPathFails(s)
  <2>1. UNCHANGED <<filePath, song>>
    BY <1>1 DEF LoadPath, LoadPathFails, wvars
  <2>2. step' = "replace" \/ UNCHANGED <<step, flags, shown, rate>>
    BY <1>1 DEF LoadPath, LoadPathFails, wvars
  <2> QED BY <2>1, <2>2 DEF ShownInv
<1>2. CASE ReplaceFile
  <2>1. filePath' = song' /\ step' = "window" /\ flags' = flags /\ "FileReplaced" \in flags
    BY <1>2 DEF ReplaceFile, ResetInv, Flag
  <2> QED BY <2>1 DEF ShownInv
<1>3. CASE UpdateWindow
  <2>1. UNCHANGED <<filePath, song>> /\ step = "window"
    BY <1>3 DEF UpdateWindow
  <2>2. shown' = [title |-> song, canRender |-> song # NoSong, status |-> rate']
    <3>1. CASE "FileReplaced" \in flags
      <4>1. /\ shown' = [title |-> filePath, canRender |-> channels # <<>>, status |-> rate]
            /\ rate' = rate
        BY <1>3, <3>1 DEF UpdateWindow
      <4> QED BY <4>1, HasChannels DEF ShownInv
    <3>2. CASE "FileReplaced" \notin flags /\ "SettingsChanged" \in flags
      <4>1. shown' = [shown EXCEPT !.status = rate']
        BY <1>3, <3>2 DEF UpdateWindow
      <4> QED BY <2>1, <3>2, <4>1 DEF ShownInv
    <3>3. CASE "FileReplaced" \notin flags /\ "SettingsChanged" \notin flags
      <4>1. UNCHANGED <<shown, rate>>
        BY <1>3, <3>3 DEF UpdateWindow
      <4> QED BY <2>1, <3>3, <4>1 DEF ShownInv
    <3> QED BY <3>1, <3>2, <3>3
  <2> QED BY <2>1, <2>2 DEF ShownInv
<1>4. CASE UpdateChips \/ UpdateChannels \/ UNCHANGED wvars
  <2>1. /\ UNCHANGED <<filePath, song, shown, rate>>
        /\ step \in {"chips", "channels"} \/ UNCHANGED <<step, flags>>
    BY <1>4 DEF UpdateChips, UpdateChannels, wvars
  <2> QED BY <2>1 DEF ShownInv
<1>5. CASE MoveUp \/ MoveDown \/ (\E at \in 0..Len(chips) : DropMimeData(at))
           \/ (\E r \in DOMAIN chips : SelectChip(r))
           \/ (\E r \in DOMAIN channels : Toggle(r))
           \/ (\E rows \in SUBSET DOMAIN channels : ToggleSelected(rows))
           \/ (\E a \in AppSettings : SetAppSettings(a))
  <2>1. UNCHANGED <<filePath, song, shown, rate>> /\ step = "idle"
    BY <1>5 DEF MoveUp, MoveDown, MoveRowUp, DropMimeData, SelectChip, Toggle,
                ToggleSelected, SetData, SetAppSettings
  <2> QED BY <2>1 DEF ShownInv
<1> QED BY <1>1, <1>2, <1>3, <1>4, <1>5 DEF WindowNext

(* When the user may act, the window shows the song that is loaded.        *)
THEOREM WindowShows == WindowSpec => []WindowShowsFile
<1>1. WindowInit => ShownInv
  BY DEF WindowInit, ShownInv
<1>2. WindowSpec => []ShownInv
  BY <1>1, ShownStep, Songs, PTL DEF WindowSpec
<1>3. ShownInv => WindowShowsFile
  BY DEF ShownInv, WindowShowsFile
<1> QED BY <1>2, <1>3, PTL

LEMMA RateIsNat ==
    ASSUME NEW s \in Song \cup {NoSong}, NEW a \in AppSettings
    PROVE  ChosenRate(s, a) \in Nat
<1>1. a.sampleRate \in Nat
  BY WindowAssumption DEF AppSettings
<1>2. CASE s \in Song
  <2> DEFINE ds == SortedDevices(s)
             slow == {i \in DOMAIN ds : SmplRate[ds[i]] <= MaxChipRate}
  <2>1. ds \in Seq(Chip)
    BY <1>2, Sorted DEF SameChips
  <2>2. \/ ChosenRate(s, a) = SmplRate[ds[First(slow)]] /\ slow # {}
        \/ ChosenRate(s, a) \in Nat
    BY <1>1 DEF ChosenRate
  <2> HIDE DEF ds
  <2>3. PICK n \in Nat : n = Len(ds) /\ DOMAIN ds = 1..n
    BY <2>1
  <2>4. slow \in SUBSET (1..n)
    BY <2>3
  <2>5. slow # {} => First(slow) \in DOMAIN ds
    <3> HIDE DEF slow
    <3> QED BY <2>3, <2>4, FirstIsFirst
  <2> HIDE DEF slow
  <2>6. slow # {} => SmplRate[ds[First(slow)]] \in Nat
    BY <2>1, <2>5, WindowAssumption
  <2> QED BY <2>2, <2>6
<1>3. CASE s = NoSong
  BY <1>3 DEF ChosenRate
<1> QED BY <1>2, <1>3

TypeInv ==
    /\ rate \in Nat
    /\ app \in AppSettings
    /\ stale \in BOOLEAN
    /\ shown \in [title : Song \cup {NoSong}, canRender : BOOLEAN, status : Nat]
    /\ chipsReset \in BOOLEAN /\ channelsReset \in BOOLEAN
    /\ flags \in SUBSET Flag

LEMMA TypeStep ==
  ASSUME ResetInv, SongInv, ShownInv, TypeInv, [WindowNext]_wvars
  PROVE  TypeInv'
<1> USE DEF EditUnwrap, songVars, settingVars, viewVars, TypeInv
<1>1. CASE \E s \in Song : LoadPath(s)
  BY <1>1 DEF LoadPath, FileReplaced
<1>2. CASE ReplaceFile
  <2>1. rate' = ChosenRate(loading, app) /\ loading \in Song \cup {NoSong}
    BY <1>2 DEF ReplaceFile, SongInv
  <2>2. rate' \in Nat
    BY <2>1, RateIsNat
  <2> QED BY <1>2, <2>2 DEF ReplaceFile
<1>3. CASE UpdateWindow
  <2>1. rate' \in Nat /\ stale' \in BOOLEAN
    <3>1. ChosenRate(song, app) \in Nat
      BY RateIsNat DEF SongInv
    <3>2. ReloadSettings \/ UNCHANGED <<rate, stale>>
      BY <1>3 DEF UpdateWindow
    <3> QED BY <3>1, <3>2 DEF ReloadSettings
  <2>2. UNCHANGED <<app, chipsReset, channelsReset, flags, song>> /\ step' = "chips"
    BY <1>3 DEF UpdateWindow
  <2>3. ShownInv'
    BY ShownStep
  <2>4. shown' = [title |-> song, canRender |-> song # NoSong, status |-> rate']
    BY <2>2, <2>3 DEF ShownInv
  <2> QED BY <2>1, <2>2, <2>4 DEF SongInv
<1>4. CASE UpdateChips
  BY <1>4 DEF UpdateChips
<1>5. CASE UpdateChannels
  BY <1>5 DEF UpdateChannels
<1>6. CASE MoveUp \/ MoveDown \/ (\E at \in 0..Len(chips) : DropMimeData(at))
  BY <1>6 DEF MoveUp, MoveDown, MoveRowUp, DropMimeData, ChipsChanged, Flag
<1>7. CASE \E a \in AppSettings : SetAppSettings(a)
  BY <1>7 DEF SetAppSettings, Flag
<1>8. CASE (\E s \in Song : LoadPathFails(s))
           \/ (\E r \in DOMAIN chips : SelectChip(r))
           \/ (\E r \in DOMAIN channels : Toggle(r))
           \/ (\E rows \in SUBSET DOMAIN channels : ToggleSelected(rows))
           \/ UNCHANGED wvars
  BY <1>8 DEF LoadPathFails, SelectChip, Toggle, ToggleSelected, SetData, wvars
<1> QED BY <1>1, <1>2, <1>3, <1>4, <1>5, <1>6, <1>7, <1>8 DEF WindowNext

(* Type correctness: a current row is a row.                               *)
THEOREM WindowTypeHolds == WindowSpec => []WindowTypeOK
<1>1. WindowInit => ShownInv /\ TypeInv
  <2> SUFFICES ASSUME WindowInit PROVE ShownInv /\ TypeInv
    OBVIOUS
  <2>1. ShownInv
    BY DEF WindowInit, ShownInv
  <2>2. shown \in [title : Song \cup {NoSong}, canRender : BOOLEAN, status : Nat]
    BY DEF WindowInit
  <2>3. flags \in SUBSET Flag
    BY DEF WindowInit
  <2> QED BY <2>1, <2>2, <2>3 DEF WindowInit, TypeInv
<1>2. WindowSpec => [](ShownInv /\ TypeInv)
  BY <1>1, ShownStep, TypeStep, Songs, PTL DEF WindowSpec
<1>3. ResetInv /\ SongInv /\ ShownInv /\ TypeInv => WindowTypeOK
  BY ListTypes DEF ResetInv, SongInv, ShownInv, TypeInv, WindowTypeOK
<1> QED BY <1>2, <1>3, Songs, PTL

===============================================================================
