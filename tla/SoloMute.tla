------------------------------- MODULE SoloMute -------------------------------
(***************************************************************************)
(* Muting in RenderJob::make (src/src/backend.cpp): the job of a channel   *)
(* tells the engine, chip by chip, to silence everything but that channel. *)
(* What libvgm makes of the options is modelled from how it applies them:  *)
(* a chip is a base device and perhaps a linked one, each with a bit of    *)
(* "disable" and a mask of muted voices.                                   *)
(***************************************************************************)
EXTENDS Integers, Sequences, FiniteSets

CONSTANTS
    Type,      \* types of sound chips
    Chip,      \* chips: a type and an instance
    Songs,     \* the chips of each song, in the order of metadata.chips
    Rows,      \* the channel rows of a type: sub-chip and mute bit
    Voices     \* the voices of a type in libvgm: device (0 base, 1 linked)
               \* and mute bit

Bit == 0..31
Device == {0, 1}

ASSUME MuteAssumption ==
    /\ \A c \in Chip : c.type \in Type /\ c.instance \in Nat
    /\ Songs \subseteq Seq(Chip)
    /\ \A s \in Songs : \A i, k \in DOMAIN s : s[i] = s[k] => i = k
    /\ Rows \in [Type -> Seq([subchip : Device, chan : Bit])]
    /\ Voices \in [Type -> SUBSET [device : Device, bit : Bit]]

VARIABLES
    chips,     \* metadata.chips
    solo,      \* opt.solo: a chip with a sub-chip and channel, or none
    opts,      \* the engine's mute options of each chip of the song
    next       \* the next chip of make's loop; behind the last, it plays

mvars == <<chips, solo, opts, next>>

NoSolo == [chip |-> "none"]
ChipsOf(s) == {s[i] : i \in DOMAIN s}
SoloOf(c, row) == [chip |-> c, subchip |-> row.subchip, chan |-> row.chan]
SoloRows(s) ==
    UNION {{SoloOf(c, Rows[c.type][i]) : i \in DOMAIN Rows[c.type]} :
              c \in ChipsOf(s)}

MuteOpts == [disable : SUBSET (0..7), chnMute : [Device -> SUBSET Bit]]
NothingMuted == [disable |-> {}, chnMute |-> [d \in Device |-> {}]]
AllMuted == [disable |-> 0..7, chnMute |-> [d \in Device |-> Bit]]

(* start_render makes a job for the master row, without solo, or a channel *)
MuteInit ==
    /\ chips \in Songs
    /\ solo \in {NoSolo} \cup SoloRows(chips)
    /\ opts = [c \in ChipsOf(chips) |-> NothingMuted]
    /\ next = IF solo = NoSolo THEN Len(chips) + 1 ELSE 1

(* The options of one chip.                                                *)
ChipMute_ByType(c) ==
    IF c.type # solo.chip.type THEN AllMuted
    ELSE [disable |-> Device \ {solo.subchip},
          chnMute |-> [d \in Device |-> IF d = solo.subchip
                                        THEN Bit \ {solo.chan} ELSE Bit]]
ChipMute(c) ==
    IF c # solo.chip THEN AllMuted
    ELSE [disable |-> Device \ {solo.subchip},
          chnMute |-> [d \in Device |-> IF d = solo.subchip
                                        THEN Bit \ {solo.chan} ELSE Bit]]

SetDeviceMuting ==
    /\ next <= Len(chips)
    /\ opts' = [opts EXCEPT ![chips[next]] = ChipMute(chips[next])]
    /\ next' = next + 1
    /\ UNCHANGED <<chips, solo>>

Playing == next > Len(chips)

MuteNext == SetDeviceMuting \/ (Playing /\ UNCHANGED mvars)

MuteSpec == MuteInit /\ [][MuteNext]_mvars

(* What is heard of a chip with options m: libvgm does not render a        *)
(* disabled device, and mutes the voices of the others by its mask.        *)
Heard(c, m) == {v \in Voices[c.type] :
                   v.device \notin m.disable /\ v.bit \notin m.chnMute[v.device]}
Audible == UNION {{<<c, v>> : v \in Heard(c, opts[c])} : c \in ChipsOf(chips)}

AllVoices(s) == UNION {{<<c, v>> : v \in Voices[c.type]} : c \in ChipsOf(s)}
VoiceOf(r) == <<r.chip, [device |-> r.subchip, bit |-> r.chan]>>

-------------------------------------------------------------------------------

MuteTypeOK ==
    /\ chips \in Songs
    /\ solo \in {NoSolo} \cup SoloRows(chips)
    /\ opts \in [ChipsOf(chips) -> MuteOpts]
    /\ next \in 1..Len(chips) + 1

(* The job of a channel plays one voice and nothing else, neither of the   *)
(* chip's other voices nor of its sub-chip nor of another chip, even one   *)
(* of the same type; the master job plays all.                             *)
SoloIsAlone ==
    Playing => Audible = IF solo = NoSolo THEN AllVoices(chips)
                         ELSE {VoiceOf(solo)}

(* The rows of a song are its stems: each voice has a row and no two rows  *)
(* have the same, so that the channels' files add up to the master file.   *)
StemsAreTheMix ==
    /\ {VoiceOf(r) : r \in SoloRows(chips)} = AllVoices(chips)
    /\ \A c \in ChipsOf(chips) :
          Len(Rows[c.type]) = Cardinality(Voices[c.type])
===============================================================================
