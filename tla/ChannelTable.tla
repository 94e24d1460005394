----------------------------- MODULE ChannelTable -----------------------------
(***************************************************************************)
(* get_chip_metadata (src/src/vgm.cpp): the rows of the channel list that  *)
(* each type of sound chip gets, by sub-chip and mute bit.  Names of chips *)
(* and channels are left out.                                              *)
(***************************************************************************)
EXTENDS Integers, SequencesExt, FiniteSetsExt

(* nchannel of the types without groups.                                   *)
NumChannels(type) ==
    CASE type \in {"32X_PWM", "uPD7759", "OKIM6258"} -> 1
      [] type = "AY8910" -> 3
      [] type \in {"SN76496", "GB_DMG", "OKIM6295", "K053260", "POKEY",
                   "WSWAN", "GA20"} -> 4
      [] type = "K051649" -> 5
      [] type \in {"NES_APU", "C6280", "VBOY_VSU", "SAA1099"} -> 6
      [] type = "YM2612" -> 7
      [] type \in {"YM2151", "RF5C68", "YMZ280B", "K054539"} -> 8
      [] type = "YMF271" -> 12
      [] type \in {"YM2413", "YM3812", "YM3526"} -> 14
      [] type = "Y8950" -> 15
      [] type \in {"SEGAPCM", "C219", "QSOUND", "X1_010"} -> 16
      [] type = "YMF262" -> 23
      [] type \in {"YMF278B", "C140"} -> 24
      [] type = "YMW258" -> 28
      [] type \in {"SCSP", "ES5503", "ES5506", "C352"} -> 32
      [] OTHER -> 0

(* The types whose channels come in groups, some of them on a sub-chip.    *)
Grouped == {"YM2203", "YM2608", "YM2610"}
ChannelsPerGroup(type) == IF type = "YM2203" THEN <<3, 0, 3>> ELSE <<6, 7, 3>>
SubchipFromGroup == <<0, 0, 1>>

(* The SSG group comes before rhythm and ADPCM.                            *)
GroupOrder(type) == IF type = "YM2203" THEN <<1, 2, 3>> ELSE <<1, 3, 2>>

ChannelRow(subchip, chan) == [subchip |-> subchip, chan |-> chan]

(* The index of the k-th group's first channel within its sub-chip: what   *)
(* chan_per_subchip has counted in the groups before.                      *)
FirstInSubchip_PerGroup(type, k) == 0
FirstInSubchip(type, k) ==
    LET order == GroupOrder(type)
        before == {j \in 1..k - 1 :
                     SubchipFromGroup[order[j]] = SubchipFromGroup[order[k]]}
    IN MapThenSumSet(LAMBDA j : ChannelsPerGroup(type)[order[j]], before)

GroupRows(type, k) ==
    LET g == GroupOrder(type)[k] IN
    [i \in 1..ChannelsPerGroup(type)[g] |->
        ChannelRow(SubchipFromGroup[g], FirstInSubchip(type, k) + i - 1)]

(* The OPL4 uses mute mask index 1.                                        *)
UngroupedSubchip(type) == IF type = "YMF278B" THEN 1 ELSE 0

ChipRows(type) ==
    IF type \in Grouped
    THEN GroupRows(type, 1) \o GroupRows(type, 2) \o GroupRows(type, 3)
    ELSE [i \in 1..NumChannels(type) |->
             ChannelRow(UngroupedSubchip(type), i - 1)]
===============================================================================
