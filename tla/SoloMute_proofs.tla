---------------------------- MODULE SoloMute_proofs ----------------------------
(***************************************************************************)
(* The options that make's loop sets, for any song, any table of rows and  *)
(* any voices: by then each chip has its own, so that one voice is left.   *)
(***************************************************************************)
EXTENDS SoloMute, Functions, FiniteSetTheorems, TLAPS

(* A row asks for a voice that its chip has.                               *)
RowsHaveVoices ==
    \A t \in Type : \A i \in DOMAIN Rows[t] :
        [device |-> Rows[t][i].subchip, bit |-> Rows[t][i].chan] \in Voices[t]

SoloType ==
    solo # NoSolo =>
        /\ solo.chip \in ChipsOf(chips)
        /\ solo.subchip \in Device
        /\ solo.chan \in Bit

(* What the loop has done so far.                                          *)
LoopInv ==
    /\ solo = NoSolo => next = Len(chips) + 1
                        /\ opts = [c \in ChipsOf(chips) |-> NothingMuted]
    /\ solo # NoSolo => \A k \in 1..next - 1 : opts[chips[k]] = ChipMute(chips[k])

MuteInv == MuteTypeOK /\ SoloType /\ LoopInv

-------------------------------------------------------------------------------

LEMMA Element ==
    ASSUME NEW S, NEW q \in Seq(S), NEW i \in DOMAIN q
    PROVE  q[i] \in S
OBVIOUS

LEMMA SongIsSeq ==
    ASSUME NEW s \in Songs
    PROVE  /\ s \in Seq(Chip)
           /\ Len(s) \in Nat
           /\ DOMAIN s = 1..Len(s)
           /\ \A i \in 1..Len(s) : s[i] \in ChipsOf(s)
           /\ ChipsOf(s) \subseteq Chip
           /\ \A i, k \in 1..Len(s) : s[i] = s[k] => i = k
<1>1. s \in Seq(Chip)
  BY MuteAssumption
<1>2. Len(s) \in Nat /\ DOMAIN s = 1..Len(s) /\ \A i \in 1..Len(s) : s[i] \in Chip
  BY <1>1
<1> QED BY <1>1, <1>2, MuteAssumption DEF ChipsOf

LEMMA RowType ==
    ASSUME NEW s \in Songs, NEW r \in SoloRows(s)
    PROVE  \E c \in ChipsOf(s) : \E i \in DOMAIN Rows[c.type] :
               r = SoloOf(c, Rows[c.type][i])
BY DEF SoloRows

LEMMA RowFields ==
    ASSUME NEW s \in Songs, NEW r \in SoloRows(s)
    PROVE  r.chip \in ChipsOf(s) /\ r.subchip \in Device /\ r.chan \in Bit
<1>1. PICK c \in ChipsOf(s) : \E i \in DOMAIN Rows[c.type] : r = SoloOf(c, Rows[c.type][i])
  BY RowType
<1>2. PICK i \in DOMAIN Rows[c.type] : r = SoloOf(c, Rows[c.type][i])
  BY <1>1
<1>3. c.type \in Type
  BY SongIsSeq, MuteAssumption
<1>4. Rows[c.type] \in Seq([subchip : Device, chan : Bit])
  BY <1>3, MuteAssumption
<1>5. Rows[c.type][i] \in [subchip : Device, chan : Bit]
  BY <1>4, <1>2, Element
<1> QED BY <1>2, <1>5 DEF SoloOf

LEMMA ChipMuteType ==
    ASSUME NEW c, solo.subchip \in Device
    PROVE  ChipMute(c) \in MuteOpts
BY DEF ChipMute, AllMuted, MuteOpts, Device, Bit

LEMMA InitEstablishes == MuteInit => MuteInv
<1> SUFFICES ASSUME MuteInit PROVE MuteInv
  OBVIOUS
<1>1. NothingMuted \in MuteOpts
  BY DEF NothingMuted, MuteOpts, Device, Bit
<1>2. Len(chips) \in Nat
  BY SongIsSeq DEF MuteInit
<1>3. MuteTypeOK
  BY <1>1, <1>2 DEF MuteInit, MuteTypeOK
<1>4. SoloType
  BY RowFields DEF MuteInit, SoloType
<1>5. LoopInv
  BY <1>2 DEF MuteInit, LoopInv
<1> QED BY <1>3, <1>4, <1>5 DEF MuteInv

LEMMA StepPreserves == MuteInv /\ [MuteNext]_mvars => MuteInv'
<1> SUFFICES ASSUME MuteInv, [MuteNext]_mvars PROVE MuteInv'
  OBVIOUS
<1> USE DEF MuteInv
<1>1. CASE SetDeviceMuting
  <2> DEFINE c == chips[next]
  <2>1. /\ Len(chips) \in Nat /\ next \in 1..Len(chips) /\ next \in DOMAIN chips
        /\ c \in ChipsOf(chips)
        /\ \A i, k \in 1..Len(chips) : chips[i] = chips[k] => i = k
        /\ \A i \in 1..Len(chips) : chips[i] \in ChipsOf(chips)
    <3>1. chips \in Songs /\ next \in 1..Len(chips) + 1 /\ next <= Len(chips)
      BY <1>1 DEF SetDeviceMuting, MuteTypeOK
    <3>2. /\ Len(chips) \in Nat
          /\ DOMAIN chips = 1..Len(chips)
          /\ \A i \in 1..Len(chips) : chips[i] \in ChipsOf(chips)
          /\ \A i, k \in 1..Len(chips) : chips[i] = chips[k] => i = k
      BY <3>1, SongIsSeq
    <3> QED BY <3>1, <3>2
  <2>2. solo # NoSolo
    BY <2>1 DEF LoopInv
  <2>3. ChipMute(c) \in MuteOpts
    BY <2>2, ChipMuteType DEF SoloType
  <2>4. MuteTypeOK'
    BY <1>1, <2>1, <2>3 DEF SetDeviceMuting, MuteTypeOK
  <2>5. SoloType'
    BY <1>1 DEF SetDeviceMuting, SoloType, ChipsOf
  <2>6. LoopInv'
    <3>1. ASSUME NEW k \in 1..next PROVE opts'[chips[k]] = ChipMute(chips[k])
      <4>1. opts' = [opts EXCEPT ![c] = ChipMute(c)] /\ DOMAIN opts = ChipsOf(chips)
        BY <1>1 DEF SetDeviceMuting, MuteTypeOK
      <4>2. CASE k = next
        BY <4>1, <4>2, <2>1
      <4>3. CASE k # next
        <5>1. k \in 1..next - 1 /\ chips[k] # c /\ chips[k] \in ChipsOf(chips)
          BY <4>3, <2>1
        <5> QED BY <5>1, <4>1, <2>2 DEF LoopInv
      <4> QED BY <4>2, <4>3
    <3>2. ASSUME NEW d PROVE ChipMute(d)' = ChipMute(d)
      BY <1>1 DEF SetDeviceMuting, ChipMute
    <3>3. next' - 1 = next /\ chips' = chips /\ solo' = solo
      BY <1>1, <2>1 DEF SetDeviceMuting
    <3> QED BY <3>1, <3>2, <3>3, <2>2 DEF LoopInv, ChipMute
  <2> QED BY <2>4, <2>5, <2>6
<1>2. CASE UNCHANGED mvars
  <2>1. chips' = chips /\ solo' = solo /\ opts' = opts /\ next' = next
    BY <1>2 DEF mvars
  <2>2. MuteTypeOK'
    BY <2>1 DEF MuteTypeOK
  <2>3. SoloType'
    BY <2>1 DEF SoloType
  <2>4. LoopInv'
    BY <2>1 DEF LoopInv, ChipMute
  <2> QED BY <2>2, <2>3, <2>4
<1> QED BY <1>1, <1>2 DEF MuteNext

THEOREM MuteInvariance == MuteSpec => []MuteInv
BY InitEstablishes, StepPreserves, PTL DEF MuteSpec

(* Every option that is ever set fits PLR_MUTE_OPTS, whatever the song.    *)
THEOREM MuteTypeCorrect == MuteSpec => []MuteTypeOK
<1>1. MuteInv => MuteTypeOK
  BY DEF MuteInv
<1> QED BY <1>1, MuteInvariance, PTL

-------------------------------------------------------------------------------

LEMMA OthersAreSilent ==
    ASSUME NEW c, c.type \in Type
    PROVE  Heard(c, AllMuted) = {}
BY MuteAssumption DEF Heard, AllMuted, Device

LEMMA AllIsHeard ==
    ASSUME NEW c, c.type \in Type
    PROVE  Heard(c, NothingMuted) = Voices[c.type]
BY MuteAssumption DEF Heard, NothingMuted, Device

LEMMA OneVoiceIsHeard ==
    ASSUME solo.chip.type \in Type, solo.subchip \in Device, solo.chan \in Bit,
           VoiceOf(solo)[2] \in Voices[solo.chip.type]
    PROVE  Heard(solo.chip, ChipMute(solo.chip)) = {VoiceOf(solo)[2]}
<1> DEFINE v == [device |-> solo.subchip, bit |-> solo.chan]
           m == ChipMute(solo.chip)
<1>1. /\ m.disable = Device \ {solo.subchip}
      /\ m.chnMute[solo.subchip] = Bit \ {solo.chan}
  BY DEF ChipMute
<1>2. VoiceOf(solo)[2] = v
  BY DEF VoiceOf
<1>3. v \in Heard(solo.chip, m)
  BY <1>1, <1>2 DEF Heard
<1>4. ASSUME NEW w \in Heard(solo.chip, m) PROVE w = v
  <2>1. w \in [device : Device, bit : Bit]
    BY MuteAssumption DEF Heard
  <2>2. w.device = solo.subchip
    BY <2>1, <1>1 DEF Heard
  <2>3. w.bit = solo.chan
    BY <2>1, <2>2, <1>1 DEF Heard
  <2> QED BY <2>1, <2>2, <2>3
<1> QED BY <1>2, <1>3, <1>4

(* When the loop is over each chip of the song has its own options.        *)
LEMMA LoopIsOver ==
    ASSUME MuteInv, Playing, solo # NoSolo, NEW c \in ChipsOf(chips)
    PROVE  opts[c] = ChipMute(c)
<1>1. Len(chips) \in Nat /\ DOMAIN chips = 1..Len(chips)
  BY SongIsSeq DEF MuteInv, MuteTypeOK
<1>2. next = Len(chips) + 1
  BY <1>1 DEF MuteInv, MuteTypeOK, Playing
<1>3. PICK i \in 1..Len(chips) : c = chips[i]
  BY <1>1 DEF ChipsOf
<1>4. i \in 1..next - 1
  BY <1>1, <1>2
<1> QED BY <1>3, <1>4 DEF MuteInv, LoopInv

LEMMA SoloHasVoice ==
    ASSUME RowsHaveVoices, MuteTypeOK, solo # NoSolo
    PROVE  VoiceOf(solo)[2] \in Voices[solo.chip.type]
<1>1. solo \in SoloRows(chips) /\ chips \in Songs
  BY DEF MuteTypeOK
<1>2. PICK c \in ChipsOf(chips) : \E i \in DOMAIN Rows[c.type] : solo = SoloOf(c, Rows[c.type][i])
  BY <1>1, RowType
<1>3. c.type \in Type
  BY <1>1, SongIsSeq, MuteAssumption
<1> QED BY <1>2, <1>3 DEF RowsHaveVoices, SoloOf, VoiceOf

(* If the engine has the voice of the row, the job plays that voice and    *)
(* nothing else.                                                           *)
LEMMA AloneIfVoiced ==
    ASSUME MuteInv,
           solo # NoSolo => VoiceOf(solo)[2] \in Voices[solo.chip.type]
    PROVE  SoloIsAlone
<1> SUFFICES ASSUME Playing
             PROVE Audible = IF solo = NoSolo THEN AllVoices(chips) ELSE {VoiceOf(solo)}
  BY DEF SoloIsAlone
<1>1. \A c \in ChipsOf(chips) : c.type \in Type
  BY SongIsSeq, MuteAssumption DEF MuteInv, MuteTypeOK
<1>2. CASE solo = NoSolo
  <2>1. ASSUME NEW c \in ChipsOf(chips) PROVE Heard(c, opts[c]) = Voices[c.type]
    BY <1>1, <1>2, AllIsHeard DEF MuteInv, LoopInv
  <2> QED BY <2>1, <1>2 DEF Audible, AllVoices
<1>3. CASE solo # NoSolo
  <2>1. solo.chip \in ChipsOf(chips) /\ solo.subchip \in Device /\ solo.chan \in Bit
    BY <1>3 DEF MuteInv, SoloType
  <2>2. ASSUME NEW c \in ChipsOf(chips), c # solo.chip PROVE Heard(c, opts[c]) = {}
    <3>1. opts[c] = AllMuted
      BY <1>3, <2>2, LoopIsOver DEF ChipMute
    <3> QED BY <3>1, <1>1, OthersAreSilent
  <2>3. Heard(solo.chip, opts[solo.chip]) = {VoiceOf(solo)[2]}
    <3>1. opts[solo.chip] = ChipMute(solo.chip)
      BY <1>3, <2>1, LoopIsOver
    <3> QED BY <3>1, <1>3, <2>1, <1>1, OneVoiceIsHeard
  <2>4. VoiceOf(solo) = <<solo.chip, VoiceOf(solo)[2]>>
    BY DEF VoiceOf
  <2>5. Audible \subseteq {VoiceOf(solo)}
    BY <2>2, <2>3, <2>4 DEF Audible
  <2>6. VoiceOf(solo) \in Audible
    BY <2>1, <2>3, <2>4 DEF Audible
  <2> QED BY <1>3, <2>5, <2>6
<1> QED BY <1>2, <1>3

(* The job of a channel plays that channel's voice and nothing else, for   *)
(* any song and any table, as long as no row names a voice that its chip   *)
(* does not have.                                                          *)
THEOREM SoloHolds ==
    ASSUME RowsHaveVoices
    PROVE  MuteSpec => []SoloIsAlone
<1>1. MuteInv => SoloIsAlone
  BY AloneIfVoiced, SoloHasVoice DEF MuteInv
<1> QED BY <1>1, MuteInvariance, PTL

-------------------------------------------------------------------------------
(* The stems of a song.                                                    *)

(* The voice that a row of a type stands for.                              *)
RowVoice(t) ==
    [i \in DOMAIN Rows[t] |->
        [device |-> Rows[t][i].subchip, bit |-> Rows[t][i].chan]]

(* The rows of a type are its voices, each once.                           *)
RowsAreVoices(t) == RowVoice(t) \in Bijection(1..Len(Rows[t]), Voices[t])

LEMMA RowVoiceType ==
    ASSUME NEW t \in Type
    PROVE  /\ Len(Rows[t]) \in Nat
           /\ DOMAIN Rows[t] = 1..Len(Rows[t])
           /\ DOMAIN RowVoice(t) = 1..Len(Rows[t])
<1>1. Rows[t] \in Seq([subchip : Device, chan : Bit])
  BY MuteAssumption
<1> QED BY <1>1 DEF RowVoice

(* A voice of the song has a row if and only if its type has one for it.   *)
LEMMA StemsByType ==
    ASSUME chips \in Songs
    PROVE  {VoiceOf(r) : r \in SoloRows(chips)} = AllVoices(chips) <=>
               \A c \in ChipsOf(chips) :
                  {RowVoice(c.type)[i] : i \in DOMAIN Rows[c.type]} = Voices[c.type]
<1> DEFINE Stems == {VoiceOf(r) : r \in SoloRows(chips)}
           Named(c) == {RowVoice(c.type)[i] : i \in DOMAIN Rows[c.type]}
<1>1. ASSUME NEW c, NEW i \in DOMAIN Rows[c.type]
      PROVE  VoiceOf(SoloOf(c, Rows[c.type][i])) = <<c, RowVoice(c.type)[i]>>
  BY DEF VoiceOf, SoloOf, RowVoice
<1>2. ASSUME NEW c \in ChipsOf(chips), NEW v
      PROVE  <<c, v>> \in Stems <=> v \in Named(c)
  <2>1. ASSUME <<c, v>> \in Stems PROVE v \in Named(c)
    <3>1. PICK r \in SoloRows(chips) : <<c, v>> = VoiceOf(r)
      BY <2>1
    <3>2. PICK d \in ChipsOf(chips) : \E i \in DOMAIN Rows[d.type] :
                                        r = SoloOf(d, Rows[d.type][i])
      BY <3>1, RowType
    <3>3. PICK i \in DOMAIN Rows[d.type] : r = SoloOf(d, Rows[d.type][i])
      BY <3>2
    <3>4. <<c, v>> = <<d, RowVoice(d.type)[i]>>
      BY <1>1, <3>1, <3>3
    <3>5. c = d /\ v = RowVoice(d.type)[i]
      BY <3>4
    <3> QED BY <3>5
  <2>2. ASSUME v \in Named(c) PROVE <<c, v>> \in Stems
    <3>1. PICK i \in DOMAIN Rows[c.type] : v = RowVoice(c.type)[i]
      BY <2>2
    <3>2. SoloOf(c, Rows[c.type][i]) \in SoloRows(chips)
      BY <1>2 DEF SoloRows
    <3> QED BY <3>1, <3>2, <1>1
  <2> QED BY <2>1, <2>2
<1>3. ASSUME NEW c \in ChipsOf(chips), NEW v
      PROVE  <<c, v>> \in AllVoices(chips) <=> v \in Voices[c.type]
  BY DEF AllVoices
<1>4. ASSUME NEW x \in Stems PROVE \E c \in ChipsOf(chips) : \E v : x = <<c, v>>
  <2>1. PICK r \in SoloRows(chips) : x = VoiceOf(r)
    OBVIOUS
  <2>2. r.chip \in ChipsOf(chips)
    BY <2>1, RowFields
  <2> QED BY <2>1, <2>2 DEF VoiceOf
<1>5. ASSUME NEW x \in AllVoices(chips) PROVE \E c \in ChipsOf(chips) : \E v : x = <<c, v>>
  BY DEF AllVoices
<1> HIDE DEF Stems
<1>6. ASSUME Stems = AllVoices(chips), NEW c \in ChipsOf(chips)
      PROVE  Named(c) = Voices[c.type]
  <2>1. \A v : v \in Named(c) <=> v \in Voices[c.type]
    BY <1>2, <1>3, <1>6
  <2> QED BY <2>1
<1>7. ASSUME \A c \in ChipsOf(chips) : Named(c) = Voices[c.type]
      PROVE  Stems = AllVoices(chips)
  <2>1. \A x : x \in Stems <=> x \in AllVoices(chips)
    BY <1>2, <1>3, <1>4, <1>5, <1>7
  <2> QED BY <2>1
<1> QED BY <1>6, <1>7 DEF Stems

(* What counting the rows shows: if they name all the voices and are as    *)
(* many, no voice has two, and no voice would be heard twice in the sum    *)
(* of the stems.                                                           *)
LEMMA CountedOnce ==
    ASSUME NEW t \in Type
    PROVE  RowsAreVoices(t) <=>
               /\ {RowVoice(t)[i] : i \in DOMAIN Rows[t]} = Voices[t]
               /\ Len(Rows[t]) = Cardinality(Voices[t])
<1>1. PICK n \in Nat : n = Len(Rows[t]) /\ DOMAIN Rows[t] = 1..n
  BY RowVoiceType
<1>2. PICK f, V : f = RowVoice(t) /\ V = Voices[t] /\ f = [i \in 1..n |-> f[i]]
  BY <1>1 DEF RowVoice
<1>3. ASSUME f \in Bijection(1..n, V)
      PROVE  {f[i] : i \in 1..n} = V /\ n = Cardinality(V)
  <2>1. f \in [1..n -> V] /\ \A v \in V : \E i \in 1..n : f[i] = v
    BY <1>3 DEF Bijection, Surjection
  <2>2. ExistsBijection(1..n, V)
    BY <1>3 DEF ExistsBijection
  <2> QED BY <2>1, <2>2, FS_CountingElements
<1>4. ASSUME {f[i] : i \in 1..n} = V, n = Cardinality(V)
      PROVE  f \in Bijection(1..n, V)
  <2>1. f \in [1..n -> V]
    BY <1>2, <1>4
  <2>2. f \in Surjection(1..n, V)
    BY <1>4, <2>1 DEF Surjection
  <2>3. IsFiniteSet(1..n) /\ Cardinality(1..n) = n
    BY FS_Interval
  <2>4. f \in Injection(1..n, V)
    BY <1>4, <2>2, <2>3, FS_Surjection
  <2> QED BY <2>2, <2>4 DEF Bijection
<1> QED BY <1>1, <1>2, <1>3, <1>4 DEF RowsAreVoices

(* The stems of a song are the mix exactly if the rows of each of its      *)
(* types are that type's voices, each once: the table decides, and no      *)
(* song's chips can go wrong together.                                     *)
THEOREM StemsByTable ==
    ASSUME chips \in Songs
    PROVE  StemsAreTheMix <=> \A c \in ChipsOf(chips) : RowsAreVoices(c.type)
<1>1. \A c \in ChipsOf(chips) : c.type \in Type
  BY SongIsSeq, MuteAssumption
<1>2. \A c \in ChipsOf(chips) :
         RowsAreVoices(c.type) <=>
            /\ {RowVoice(c.type)[i] : i \in DOMAIN Rows[c.type]} = Voices[c.type]
            /\ Len(Rows[c.type]) = Cardinality(Voices[c.type])
  BY <1>1, CountedOnce
<1> QED BY <1>2, StemsByType DEF StemsAreTheMix

(* The channels' files of any song add up to the master file, if the table *)
(* gives each type its voices.                                             *)
THEOREM StemsHold ==
    ASSUME \A t \in Type : RowsAreVoices(t)
    PROVE  MuteSpec => []StemsAreTheMix
<1>1. ASSUME MuteTypeOK PROVE StemsAreTheMix
  <2>1. chips \in Songs
    BY <1>1 DEF MuteTypeOK
  <2>2. \A c \in ChipsOf(chips) : c.type \in Type
    BY <2>1, SongIsSeq, MuteAssumption
  <2> QED BY <2>1, <2>2, StemsByTable
<1>2. MuteTypeOK => StemsAreTheMix
  BY <1>1
<1> QED BY <1>2, MuteTypeCorrect, PTL

(* Of a song whose stems are its mix, each stem holds one voice: it takes  *)
(* nothing of the table but that song's rows.                              *)
THEOREM StemsAreAlone == MuteSpec => [](StemsAreTheMix => SoloIsAlone)
<1>1. ASSUME MuteInv, StemsAreTheMix PROVE SoloIsAlone
  <2>1. ASSUME solo # NoSolo PROVE VoiceOf(solo)[2] \in Voices[solo.chip.type]
    <3>1. solo \in SoloRows(chips)
      BY <1>1, <2>1 DEF MuteInv, MuteTypeOK
    <3>2. VoiceOf(solo) \in AllVoices(chips)
      BY <1>1, <3>1 DEF StemsAreTheMix
    <3>3. PICK c \in ChipsOf(chips) : VoiceOf(solo) \in {<<c, v>> : v \in Voices[c.type]}
      BY <3>2 DEF AllVoices
    <3>4. PICK v \in Voices[c.type] : VoiceOf(solo) = <<c, v>>
      BY <3>3
    <3>5. solo.chip = c /\ VoiceOf(solo)[2] = v
      BY <3>4 DEF VoiceOf
    <3> QED BY <3>5
  <2> QED BY <1>1, <2>1, AloneIfVoiced
<1>2. MuteInv => (StemsAreTheMix => SoloIsAlone)
  BY <1>1
<1> QED BY <1>2, MuteInvariance, PTL
===============================================================================
