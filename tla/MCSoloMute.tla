------------------------------ MODULE MCSoloMute ------------------------------
(* Every type of chip in a song of two instances, and a Mega Drive song     *)
(* with a 32X.  Voices are those of libvgm's cores.                         *)
EXTENDS SoloMute

CONSTANT MCTypes

Table == INSTANCE ChannelTable

Pair(t) == <<[type |-> t, instance |-> 0], [type |-> t, instance |-> 1]>>
Mega == <<[type |-> "YM2612", instance |-> 0],
          [type |-> "SN76496", instance |-> 0],
          [type |-> "32X_PWM", instance |-> 0]>>
MCSongs == {Pair(t) : t \in MCTypes}
           \cup IF Cardinality(MCTypes) > 3 THEN {Mega} ELSE {}
MCChip == UNION {ChipsOf(s) : s \in MCSongs}
MCRows == [t \in MCTypes |-> Table!ChipRows(t)]

(* SetMuteMask of the base device's core: how many voices it mutes, one    *)
(* bit each from bit 0.                                                    *)
BaseVoices(t) ==
    CASE t \in {"32X_PWM", "uPD7759", "OKIM6258"} -> 1
      [] t \in {"YM2203", "AY8910"} -> 3
      [] t \in {"SN76496", "GB_DMG", "OKIM6295", "K053260", "POKEY", "WSWAN",
                "GA20"} -> 4
      [] t = "K051649" -> 5
      [] t \in {"C6280", "VBOY_VSU", "SAA1099"} -> 6
      [] t = "NES_APU" -> 2 + 3 + 1
      [] t = "YM2612" -> 6 + 1
      [] t \in {"YM2151", "RF5C68", "YMZ280B", "K054539"} -> 8
      [] t = "YMF271" -> 12
      [] t \in {"YM2608", "YM2610"} -> 6 + 6 + 1
      [] t = "YM2413" -> 9 + 5
      [] t \in {"YM3812", "YM3526"} -> 9 + 5
      [] t = "Y8950" -> 9 + 6
      [] t \in {"SEGAPCM", "C219", "X1_010"} -> 16
      [] t = "QSOUND" -> 16 + 3
      [] t = "YMF262" -> 18 + 5
      [] t \in {"YMF278B", "C140"} -> 24
      [] t = "YMW258" -> 28
      [] t \in {"SCSP", "ES5503", "C352"} -> 32
      [] OTHER -> 0

(* The linked device: an AY8910 in the OPN family, an OPL3 in the OPL4.    *)
LinkedVoices(t) ==
    CASE t \in {"YM2203", "YM2608", "YM2610"} -> 3
      [] t = "YMF278B" -> 18 + 5
      [] OTHER -> 0

MCVoices == [t \in MCTypes |->
    [device : {0}, bit : 0..BaseVoices(t) - 1]
    \cup [device : {1}, bit : 0..LinkedVoices(t) - 1]]
===============================================================================
