--------------------------- MODULE RenderFile_proofs ---------------------------
(***************************************************************************)
(* One render of a song of any length, at any sample rate, into a file:    *)
(* the loop of callback() drives the writer as WaveWriter lets it, and the *)
(* number of frames is the one that make() announced.                      *)
(***************************************************************************)
EXTENDS RenderFile, WaveWriter_proofs

(* Division, as the conversions between ticks and samples need it.         *)

LEMMA Quotient ==
    ASSUME NEW x \in Nat, NEW k \in Nat \ {0}
    PROVE  /\ x \div k \in Nat
           /\ k * (x \div k) <= x /\ x < k * (x \div k) + k
OBVIOUS

LEMMA QuotientIs ==
    ASSUME NEW x \in Nat, NEW k \in Nat \ {0}, NEW q \in Nat, k * q <= x, x < k * q + k
    PROVE  x \div k = q
OBVIOUS

LEMMA LessBefore ==
    ASSUME NEW x \in Int, NEW y \in Int, NEW k \in Nat, x * k < y * k
    PROVE  x < y
OBVIOUS

LEMMA NotAbove ==
    ASSUME NEW x \in Int, NEW y \in Int, NEW k \in Nat, x <= y
    PROVE  x * k <= y * k
OBVIOUS

LEMMA Product ==
    ASSUME NEW x \in Nat, NEW y \in Nat
    PROVE  x * y \in Nat
OBVIOUS

(* At r samples and k ticks a second, the engine reaches tick t only after *)
(* s, the floor of its position.                                           *)
ReachedLate(t, r, k, s) == s = (t * r) \div k /\ ~((s * k) \div r >= t)

(* When there are no fewer samples than ticks, the next one is then in the *)
(* same second, also after j more seconds.                                 *)
SameSecond(x, r) == (x + 1) \div r = x \div r

LEMMA LateInSameSecond ==
    ASSUME NEW t \in Nat, NEW r \in Nat \ {0}, NEW k \in Nat \ {0}, k <= r,
           NEW j \in Nat, NEW s \in Nat, ReachedLate(t, r, k, s),
           NEW x \in Nat, x = s + r * j
    PROVE  SameSecond(x, r)
<1>1. s = (t * r) \div k /\ ~((s * k) \div r >= t)
  BY DEF ReachedLate
<1>2. PICK q \in Nat : q = x \div r /\ r * q <= x /\ x < r * q + r
  BY Quotient
<1>3. t * r \in Nat /\ k * s <= t * r /\ t * r < k * s + k
  BY <1>1, Product, Quotient
<1>4. x + 1 # r * q + r
  <2> SUFFICES ASSUME x + 1 = r * q + r PROVE FALSE
    OBVIOUS
  <2>1. PICK d \in Int : d = q + 1 - j
    OBVIOUS
  <2>2. s + 1 = r * d
    <3>1. r * d = r * q + r - r * j
      BY <2>1
    <3> QED BY <3>1
  <2>3. k * s + k = (k * d) * r
    <3>1. k * s + k = k * (s + 1)
      OBVIOUS
    <3>2. k * (r * d) = (k * d) * r
      OBVIOUS
    <3> QED BY <3>1, <3>2, <2>2
  <2>4. t < k * d
    BY <1>3, <2>3, LessBefore
  <2>5. t * r <= (k * d) * r - r
    <3>1. t <= k * d - 1 /\ k * d - 1 \in Int
      BY <2>4
    <3>2. t * r <= (k * d - 1) * r
      BY <3>1, NotAbove
    <3>3. (k * d - 1) * r = (k * d) * r - r
      OBVIOUS
    <3> QED BY <3>2, <3>3
  <2>6. t * r = k * s
    BY <1>3, <2>3, <2>5
  <2>7. s * k \in Nat /\ s * k = r * t /\ r * t < r * t + r
    BY <2>6, Product
  <2>8. (s * k) \div r = t
    BY <2>7, QuotientIs
  <2> QED BY <1>1, <2>8
<1>5. (x + 1) \div r = q
  <2>1. r * q <= x + 1 /\ x + 1 < r * q + r
    BY <1>2, <1>4
  <2> QED BY <2>1, QuotientIs
<1> QED BY <1>2, <1>5 DEF SameSecond

-------------------------------------------------------------------------------
(* The player.                                                             *)

PlayerInv ==
    /\ song \in Songs /\ rate \in SampleRates
    /\ playSmpl \in Nat
    /\ fadeStart # Unset => IsLooped /\ fadeStart = LoopsEnd
    /\ endStart # Unset => endStart = SongEnd
    /\ fin \in BOOLEAN

LEMMA TicksType ==
    ASSUME song \in Songs
    PROVE  /\ song.total \in Nat /\ TotalPlayTicks \in Nat
           /\ IsLooped \in BOOLEAN
           /\ ~IsLooped => TotalPlayTicks = song.total
<1>1. song.total \in Nat /\ song.loop \in Nat /\ song.modifier \in Nat /\ song.base \in Int
  BY PlayerAssumption
<1>2. PlayLoops \in Nat /\ PlayLoops >= 1
  BY <1>1 DEF PlayLoops, LoopCount
<1>3. PICK l \in Nat : l = PlayLoops - 1
  BY <1>2
<1>4. song.loop * l \in Nat
  BY <1>1, Product
<1>5. song.loop = 0 => song.loop * l = 0
  OBVIOUS
<1> QED BY <1>1, <1>3, <1>4, <1>5 DEF TotalPlayTicks, IsLooped

LEMMA ReachedType ==
    ASSUME rate \in SampleRates, NEW t \in Nat
    PROVE  /\ Tick2Sample(t) \in Nat
           /\ ReachedAt(t) \in {Tick2Sample(t), Tick2Sample(t) + 1}
           /\ ReachedAt(t) \in Nat
<1>1. rate \in Nat \ {0} /\ TickRate \in Nat \ {0}
  BY PlayerAssumption
<1>2. Tick2Sample(t) \in Nat
  BY <1>1, Product, Quotient DEF Tick2Sample
<1> QED BY <1>2 DEF ReachedAt

LEMMA LengthsType ==
    ASSUME song \in Songs, rate \in SampleRates
    PROVE  /\ LoopsEnd \in Nat /\ FadeSmpls \in Nat /\ EndSilenceSmpls \in Nat
           /\ SongEnd \in Nat /\ Stop \in Nat
           /\ IsLooped => EndSilenceSmpls = 0
           /\ ~IsLooped => SongEnd = ReachedAt(song.total)
<1>1. rate \in Nat
  BY PlayerAssumption
<1>2. LoopsEnd \in Nat
  BY TicksType, ReachedType DEF LoopsEnd
<1>3. FadeSmpls \in Nat /\ EndSilenceSmpls \in Nat
  BY <1>1 DEF FadeSmpls, EndSilenceSmpls, FadeDuration, UnloopedTail
<1>4. ~IsLooped => SongEnd = ReachedAt(song.total)
  BY <1>2, TicksType DEF SongEnd, LoopsEnd, FadeSmpls
<1> QED BY <1>2, <1>3, <1>4 DEF SongEnd, Stop, EndSilenceSmpls

(* What a call of Render gives.                                            *)
LEMMA RenderedFacts ==
    ASSUME PlayerInv, NEW n \in Nat
    PROVE  LET r == Rendered(n) IN
           /\ r.frames \in 0..n
           /\ r.playSmpl \in Nat /\ playSmpl + r.frames <= r.playSmpl
           /\ r.fade # Unset => IsLooped /\ r.fade = LoopsEnd
           /\ r.end # Unset => r.end = SongEnd
           /\ r.fin \in BOOLEAN
           /\ r.fin => playSmpl + r.frames = Stop
           /\ ~r.fin => playSmpl + r.frames = r.playSmpl
<1>1. /\ song \in Songs /\ rate \in SampleRates /\ playSmpl \in Nat
      /\ LoopsEnd \in Nat /\ FadeSmpls \in Nat /\ EndSilenceSmpls \in Nat
      /\ SongEnd \in Nat /\ Stop \in Nat /\ Unset = -1
      /\ SongEnd = LoopsEnd + FadeSmpls /\ Stop = SongEnd + EndSilenceSmpls
      /\ IsLooped \in BOOLEAN
      /\ ~IsLooped => SongEnd = ReachedAt(song.total)
  BY LengthsType, TicksType DEF PlayerInv, SongEnd, Stop, Unset
<1> DEFINE count == EngineFrames(n)
           fade == IF IsLooped /\ fadeStart = Unset /\ Within(LoopsEnd, n)
                   THEN LoopsEnd ELSE fadeStart
           faded == fade # Unset /\ Within(fade + FadeSmpls, count)
           end == IF SongEnds(n) THEN ReachedAt(song.total)
                  ELSE IF faded /\ endStart = Unset THEN fade + FadeSmpls
                  ELSE endStart
           over == end # Unset /\ Within(end + EndSilenceSmpls, count)
           r == Rendered(n)
<1>2. /\ r.frames = IF over THEN end + EndSilenceSmpls - playSmpl ELSE count
      /\ r.playSmpl = playSmpl + count
      /\ r.fade = fade /\ r.end = end /\ r.fin = over
  BY DEF Rendered, LoopsEnd
<1>3. SongEnds(n) => /\ ~IsLooped /\ SongEnd = ReachedAt(song.total)
                     /\ playSmpl <= SongEnd /\ SongEnd < playSmpl + n
  BY <1>1 DEF SongEnds, Within
<1>4. count \in 0..n
  <2>1. CASE SongEnds(n)
    <3>1. count = SongEnd - playSmpl + 1
      BY <1>3, <2>1 DEF EngineFrames
    <3> QED BY <3>1, <1>1, <1>3, <2>1
  <2>2. CASE ~SongEnds(n)
    BY <2>2 DEF EngineFrames
  <2> QED BY <2>1, <2>2
<1> HIDE DEF count
<1>5. fade # Unset => IsLooped /\ fade = LoopsEnd
  BY DEF PlayerInv
<1> HIDE DEF fade
<1>6. end # Unset => end = SongEnd
  <2>1. CASE SongEnds(n)
    BY <1>3, <2>1
  <2>2. CASE ~SongEnds(n) /\ faded /\ endStart = Unset
    BY <1>1, <1>5, <2>2
  <2>3. CASE ~SongEnds(n) /\ ~(faded /\ endStart = Unset)
    BY <2>3 DEF PlayerInv
  <2> QED BY <2>1, <2>2, <2>3
<1> HIDE DEF end, faded
<1>7. over \in BOOLEAN
  OBVIOUS
<1>8. CASE over
  <2>0. end = SongEnd
    BY <1>6, <1>8
  <2>1. /\ end + EndSilenceSmpls = Stop
        /\ playSmpl <= Stop /\ Stop < playSmpl + count
    BY <1>1, <1>6, <1>8 DEF Within
  <2> HIDE DEF over
  <2>2. r.frames = Stop - playSmpl
    <3>1. r.frames = end + EndSilenceSmpls - playSmpl
      BY <1>2, <1>8
    <3>2. end + EndSilenceSmpls - playSmpl = Stop - playSmpl
      <4>1. PICK e, s, p, x \in Nat : e = SongEnd /\ s = EndSilenceSmpls /\ p = playSmpl /\ x = Stop
        BY <1>1
      <4>2. end = e /\ e + s = x
        BY <1>1, <2>0, <4>1
      <4>3. e + s - p = x - p
        BY <4>2
      <4> QED BY <4>1, <4>2, <4>3
    <3> QED BY <3>1, <3>2
  <2>3. PICK c, p, s \in Nat : c = count /\ p = playSmpl /\ s = Stop
    BY <1>1, <1>4
  <2>4. p <= s /\ s < p + c /\ c <= n
    BY <1>4, <2>1, <2>3
  <2>5. s - p \in 0..n /\ p + (s - p) = s /\ s <= p + c /\ p + c \in Nat
    BY <2>4
  <2> HIDE DEF r
  <2> QED BY <1>2, <1>5, <1>6, <1>7, <1>8, <2>2, <2>3, <2>5 DEF r
<1>9. CASE ~over
  <2> HIDE DEF over
  <2>1. r.frames = count
    BY <1>2, <1>9
  <2>2. playSmpl + count \in Nat /\ playSmpl + count <= playSmpl + count
    BY <1>1, <1>4
  <2> HIDE DEF r
  <2> QED BY <1>2, <1>4, <1>5, <1>6, <1>7, <1>9, <2>1, <2>2 DEF r
<1> QED BY <1>7, <1>8, <1>9

-------------------------------------------------------------------------------
(* The player and the writer together.                                     *)

LengthInv ==
    /\ frames \in Nat
    /\ wpc = "make" => playSmpl = 0 /\ frames = 0 /\ ~fin /\ verdict = "none"
    /\ frames <= playSmpl
    /\ wpc = "loop" /\ ~fin => frames = playSmpl
    /\ fin => frames = Stop
    /\ wpc \in {"seek", "header", "flush"} /\ caller = "callback" => fin
    /\ wpc = "loop" => verdict # "whole"
    /\ verdict = "whole" => fin

RenderInv == PlayerInv /\ LengthInv

LEMMA RenderStarts == RenderFileInit => RenderInv
<1> SUFFICES ASSUME RenderFileInit PROVE RenderInv
  OBVIOUS
<1>1. PlayerInv
  BY DEF RenderFileInit, PlayerInit, PlayerInv, Unset
<1>2. LengthInv
  BY DEF RenderFileInit, PlayerInit, WriterInit, LengthInv
<1> QED BY <1>1, <1>2 DEF RenderInv

(* The song and the rate determine the lengths.                            *)
LEMMA SameLengths ==
    ASSUME UNCHANGED <<song, rate>>
    PROVE  LoopsEnd' = LoopsEnd /\ SongEnd' = SongEnd /\ Stop' = Stop /\ IsLooped' = IsLooped
BY DEF LoopsEnd, SongEnd, Stop, IsLooped, ReachedAt, TotalPlayTicks, PlayLoops,
       FadeSmpls, EndSilenceSmpls, Tick2Sample, Sample2Tick

LEMMA RenderBufferKeeps ==
    ASSUME RenderInv, RenderBuffer
    PROVE  RenderInv' /\ \E m \in 0..BufferLen : Write(m)
<1>1. BufferLen \in Nat
  BY WriterAssumption
<1>2. PICK r : r = Rendered(BufferLen)
  OBVIOUS
<1>3. ~fin /\ Play(r) /\ Write(r.frames)
  BY <1>2 DEF RenderBuffer
<1>4. /\ r.frames \in 0..BufferLen
      /\ r.playSmpl \in Nat /\ playSmpl + r.frames <= r.playSmpl
      /\ r.fade # Unset => IsLooped /\ r.fade = LoopsEnd
      /\ r.end # Unset => r.end = SongEnd
      /\ r.fin \in BOOLEAN
      /\ r.fin => playSmpl + r.frames = Stop
      /\ ~r.fin => playSmpl + r.frames = r.playSmpl
  BY <1>1, <1>2, RenderedFacts DEF RenderInv
<1>5. /\ playSmpl' = r.playSmpl /\ fadeStart' = r.fade /\ endStart' = r.end /\ fin' = r.fin
      /\ UNCHANGED <<song, rate>>
  BY <1>3 DEF Play
<1>6. LoopsEnd' = LoopsEnd /\ SongEnd' = SongEnd /\ Stop' = Stop /\ IsLooped' = IsLooped
  BY <1>5, SameLengths
<1>7. PlayerInv'
  BY <1>4, <1>5, <1>6 DEF RenderInv, PlayerInv
<1>8. /\ wpc = "loop" /\ frames' = frames + r.frames /\ caller' = caller
      /\ wpc' \in {"loop", "destroy"} /\ verdict' \in {verdict, "error"}
  BY <1>3 DEF Write
<1>9. frames = playSmpl /\ frames \in Nat /\ verdict # "whole"
  BY <1>3, <1>8 DEF RenderInv, LengthInv
<1>10. frames' = playSmpl + r.frames /\ frames' \in Nat
  <2>1. r.frames \in Nat
    BY <1>1, <1>4
  <2> QED BY <2>1, <1>8, <1>9
<1>11. LengthInv'
  BY <1>4, <1>5, <1>6, <1>8, <1>9, <1>10 DEF LengthInv
<1> QED BY <1>3, <1>4, <1>7, <1>11 DEF RenderInv

LEMMA PlayerRests ==
    ASSUME PlayerInv, UNCHANGED pvars
    PROVE  PlayerInv' /\ Stop' = Stop
<1>1. /\ UNCHANGED <<song, rate, playSmpl, fadeStart, endStart, fin>>
      /\ LoopsEnd' = LoopsEnd /\ SongEnd' = SongEnd /\ Stop' = Stop /\ IsLooped' = IsLooped
  BY SameLengths DEF pvars
<1> QED BY <1>1 DEF PlayerInv

LEMMA RenderSteps ==
    ASSUME RenderInv, [RenderFileNext]_fvars
    PROVE  RenderInv' /\ [WriterNext]_wvars
<1>1. CASE RenderBuffer
  BY <1>1, RenderBufferKeeps DEF WriterNext
<1>2. CASE UNCHANGED pvars /\ ((fin /\ Close) \/ Leave)
  <2>1. PlayerInv' /\ Stop' = Stop /\ fin' = fin /\ playSmpl' = playSmpl
    BY <1>2, PlayerRests DEF RenderInv, pvars
  <2>2. LengthInv'
    BY <1>2, <2>1 DEF RenderInv, LengthInv, Close, Leave
  <2> QED BY <1>2, <2>1, <2>2 DEF RenderInv, WriterNext, WriterStep
<1>3. CASE UNCHANGED pvars /\ (Make \/ MakeFails)
  <2>1. PlayerInv' /\ Stop' = Stop /\ fin' = fin /\ playSmpl' = playSmpl
    BY <1>3, PlayerRests DEF RenderInv, pvars
  <2>2. LengthInv'
    BY <1>3, <2>1 DEF RenderInv, LengthInv, Make, MakeFails
  <2> QED BY <1>3, <2>1, <2>2 DEF RenderInv, WriterNext, WriterStep
<1>4. CASE UNCHANGED pvars /\ (Seek \/ WriteHeader \/ Flush)
  <2>1. PlayerInv' /\ Stop' = Stop /\ fin' = fin /\ playSmpl' = playSmpl
    BY <1>4, PlayerRests DEF RenderInv, pvars
  <2>2. /\ wpc \in {"seek", "header", "flush"} /\ frames' = frames /\ caller' = caller
        /\ wpc' \in {"header", "flush", "destroy", "file"}
        /\ verdict' # "whole" \/ verdict' = verdict \/ caller = "callback"
    BY <1>4 DEF Seek, WriteHeader, Flush, CloseReturns
  <2>3. LengthInv'
    BY <2>1, <2>2 DEF RenderInv, LengthInv
  <2> QED BY <1>4, <2>1, <2>3 DEF RenderInv, WriterNext, WriterStep
<1>5. CASE UNCHANGED pvars /\ (Destroy \/ DestroyFile)
  <2>1. PlayerInv' /\ Stop' = Stop /\ fin' = fin /\ playSmpl' = playSmpl
    BY <1>5, PlayerRests DEF RenderInv, pvars
  <2>2. LengthInv'
    BY <1>5, <2>1 DEF RenderInv, LengthInv, Destroy, DestroyFile
  <2> QED BY <1>5, <2>1, <2>2 DEF RenderInv, WriterNext, WriterStep
<1>6. CASE UNCHANGED fvars
  <2>1. UNCHANGED pvars /\ UNCHANGED wvars
    BY <1>6 DEF fvars
  <2>2. PlayerInv' /\ Stop' = Stop /\ fin' = fin /\ playSmpl' = playSmpl
    BY <2>1, PlayerRests DEF RenderInv, pvars
  <2>3. LengthInv'
    BY <2>1, <2>2 DEF RenderInv, LengthInv, wvars
  <2> QED BY <2>1, <2>2, <2>3 DEF RenderInv
<1> QED BY <1>1, <1>2, <1>3, <1>4, <1>5, <1>6 DEF RenderFileNext, Work, EndEarly, Gone

LEMMA RenderInvariance == RenderFileSpec => []RenderInv
<1>1. RenderInv /\ [RenderFileNext]_fvars => RenderInv'
  BY RenderSteps
<1> QED BY <1>1, RenderStarts, PTL DEF RenderFileSpec

(* callback() drives the writer as WaveWriter allows: what is proved of    *)
(* the writer holds of every render.                                       *)
THEOREM RenderDrivesWriter == RenderFileSpec => WriterSpec
<1>1. RenderFileInit => WriterInit
  BY DEF RenderFileInit
<1>2. RenderInv /\ [RenderFileNext]_fvars => [WriterNext]_wvars
  BY RenderSteps
<1> QED BY <1>1, <1>2, RenderInvariance, PTL DEF RenderFileSpec, WriterSpec

(* FileTypeOK for songs, rates and buffers of any length.                  *)
THEOREM FileTypeCorrect == RenderFileSpec => []FileTypeOK
<1>1. WriterTypeOK /\ RenderInv => FileTypeOK
  <2> SUFFICES ASSUME WriterTypeOK, RenderInv PROVE FileTypeOK
    OBVIOUS
  <2>1. LoopsEnd \in Nat /\ SongEnd \in Nat
    BY LengthsType DEF RenderInv, PlayerInv
  <2> QED BY <2>1 DEF FileTypeOK, RenderInv, PlayerInv, LengthInv
<1> QED BY <1>1, WriterTypeCorrect, RenderDrivesWriter, RenderInvariance, PTL

(* A file that callback() reports as whole holds the frames that the       *)
(* player rendered, in order; no render leaves them in another order or    *)
(* takes one back, and one that ends early leaves a well-formed file.      *)
THEOREM FileHolds ==
    RenderFileSpec => [](SuccessIsWhole /\ AudioInOrder /\ EarlyEndIsWhole) /\ DiskKeeps
BY SuccessHolds, AudioStaysInOrder, EarlyEndHolds, DiskKeepsHolds, RenderDrivesWriter, PTL

(* The dialog may divide by the duration of every song.                    *)
THEOREM DurationHolds == RenderFileSpec => []DurationIsPositive
<1>1. RenderInv => DurationIsPositive
  <2> SUFFICES ASSUME RenderInv,
                      Tick2Sample(TotalPlayTicks) + FadeSmpls + EndSilenceSmpls < CountLimit
               PROVE  Duration >= 1
    BY DEF DurationIsPositive
  <2>1. song \in Songs /\ rate \in Nat \ {0} /\ rate \in SampleRates /\ CountLimit \in Nat \ {0}
    BY PlayerAssumption DEF RenderInv, PlayerInv
  <2>2. PICK a, b, c \in Nat :
            a = Tick2Sample(TotalPlayTicks) /\ b = FadeSmpls /\ c = EndSilenceSmpls
    BY <2>1, TicksType, ReachedType, LengthsType
  <2>3. b + c >= rate
    BY <2>1, <2>2 DEF FadeSmpls, EndSilenceSmpls, FadeDuration, UnloopedTail
  <2>4. PICK x \in Nat : x = a + b + c
    OBVIOUS
  <2>5. x < CountLimit /\ x >= rate
    BY <2>1, <2>2, <2>3, <2>4
  <2>6. RenderSamples = x
    <3>1. x % CountLimit = x
      BY <2>1, <2>5
    <3> QED BY <2>2, <2>4, <3>1 DEF RenderSamples
  <2>7. x \div rate >= 1
    BY <2>1, <2>5
  <2> QED BY <2>6, <2>7 DEF Duration
<1> QED BY <1>1, RenderInvariance, PTL

(* The file has the frames and the seconds that make() announced.          *)
THEOREM LengthHolds == RenderFileSpec => []LengthIsPromised
<1>1. RenderInv => LengthIsPromised
  <2> SUFFICES ASSUME RenderInv, verdict = "whole", frames < CountLimit
               PROVE  /\ frames \in {RenderSamples, RenderSamples + 1}
                      /\ rate >= TickRate => Progress = Duration
    BY DEF LengthIsPromised
  <2>1. /\ song \in Songs /\ rate \in Nat \ {0} /\ rate \in SampleRates
        /\ CountLimit \in Nat \ {0} /\ TickRate \in Nat \ {0}
    BY PlayerAssumption DEF RenderInv, PlayerInv
  <2>2. frames = Stop /\ frames \in Nat
    BY DEF RenderInv, LengthInv
  <2>3. PICK t \in Nat : t = TotalPlayTicks
    BY <2>1, TicksType
  <2>4. PICK s \in Nat : s = Tick2Sample(t) /\ s = (t * rate) \div TickRate
    BY <2>1, ReachedType DEF Tick2Sample
  <2>5. PICK j \in Nat : FadeSmpls + EndSilenceSmpls = rate * j
    BY <2>1 DEF FadeSmpls, EndSilenceSmpls, FadeDuration, UnloopedTail
  <2>6. PICK x \in Nat : x = s + rate * j /\ RenderSamples = x % CountLimit
    <3>1. PICK b, c \in Nat : b = FadeSmpls /\ c = EndSilenceSmpls
      BY <2>1, LengthsType
    <3>2. s + b + c = s + rate * j /\ s + b + c \in Nat
      BY <3>1, <2>5
    <3> QED BY <3>1, <3>2, <2>3, <2>4 DEF RenderSamples
  <2>7. \/ frames = x
        \/ frames = x + 1 /\ ~((s * TickRate) \div rate >= t)
    <3>1. PICK b, c, l \in Nat : b = FadeSmpls /\ c = EndSilenceSmpls /\ l = LoopsEnd
      BY <2>1, LengthsType
    <3>2. frames = l + b + c /\ b + c = rate * j
      BY <3>1, <2>2, <2>5 DEF Stop, SongEnd
    <3>3. l = IF (s * TickRate) \div rate >= t THEN s ELSE s + 1
      BY <3>1, <2>3, <2>4 DEF LoopsEnd, ReachedAt, Sample2Tick
    <3>4. CASE (s * TickRate) \div rate >= t
      <4>1. l = s
        BY <3>3, <3>4
      <4>2. frames = s + (b + c)
        BY <3>2, <4>1
      <4> QED BY <4>2, <3>2, <2>6
    <3>5. CASE ~((s * TickRate) \div rate >= t)
      <4>1. l = s + 1
        BY <3>3, <3>5
      <4>2. frames = s + (b + c) + 1
        BY <3>2, <4>1
      <4> QED BY <4>2, <3>2, <3>5, <2>6
    <3> QED BY <3>4, <3>5
  <2>8. RenderSamples = x
    <3>1. x < CountLimit
      BY <2>1, <2>2, <2>7
    <3>2. x % CountLimit = x
      BY <2>1, <3>1
    <3> QED BY <2>6, <3>2
  <2>9. ASSUME rate >= TickRate PROVE frames \div rate = x \div rate
    <3>1. CASE frames = x
      BY <3>1
    <3>2. CASE frames = x + 1 /\ ~((s * TickRate) \div rate >= t)
      <4>1. (x + 1) \div rate = x \div rate
        <5>1. PICK r \in Nat \ {0}, k \in Nat \ {0} : r = rate /\ k = TickRate
          BY <2>1
        <5>2. k <= r /\ x = s + r * j
          BY <2>6, <2>9, <5>1
        <5>3. ReachedLate(t, r, k, s)
          BY <2>4, <3>2, <5>1 DEF ReachedLate
        <5>4. SameSecond(x, r)
          BY <5>2, <5>3, LateInSameSecond
        <5> QED BY <5>1, <5>4 DEF SameSecond
      <4> QED BY <4>1, <3>2
    <3> QED BY <2>7, <3>1, <3>2
  <2> QED BY <2>7, <2>8, <2>9 DEF Progress, Duration
<1> QED BY <1>1, RenderInvariance, PTL
-------------------------------------------------------------------------------
(* Why every render ends: what RenderEnds needs besides fairness.          *)

(* No marker is jumped over: until the player says that it is done it is   *)
(* not behind the place where it stops, nor behind a marker that it has    *)
(* not set.                                                                *)
InTime ==
    ~fin =>
        /\ playSmpl <= Stop
        /\ endStart = Unset => playSmpl <= SongEnd
        /\ IsLooped /\ fadeStart = Unset => playSmpl <= LoopsEnd

(* A call of Render that does not end the song advances, and stays in      *)
(* time.                                                                   *)
LEMMA RenderedInTime ==
    ASSUME PlayerInv, ~fin, InTime, NEW n \in Nat \ {0}
    PROVE  LET r == Rendered(n) IN
           r.fin \/ /\ playSmpl < r.playSmpl /\ r.playSmpl <= Stop
                    /\ r.end = Unset => r.playSmpl <= SongEnd
                    /\ IsLooped /\ r.fade = Unset => r.playSmpl <= LoopsEnd
<1>1. PICK p, l, f, e, s, x, sec \in Nat :
        /\ p = playSmpl /\ l = LoopsEnd /\ f = FadeSmpls /\ e = EndSilenceSmpls
        /\ s = SongEnd /\ x = Stop /\ sec = rate
  BY LengthsType, PlayerAssumption DEF PlayerInv
<1>2. /\ s = l + f /\ x = s + e /\ IsLooped \in BOOLEAN /\ Unset = -1
      /\ ~IsLooped => s = ReachedAt(song.total)
      /\ ~IsLooped => f = 0 /\ e = sec /\ sec >= 1
      /\ IsLooped => e = 0
  BY <1>1, LengthsType, TicksType, PlayerAssumption
     DEF PlayerInv, SongEnd, Stop, FadeSmpls, EndSilenceSmpls, UnloopedTail, Unset
<1>3. /\ p <= x /\ endStart \in {Unset, s} /\ fadeStart \in {Unset, l}
      /\ endStart = Unset => p <= s
      /\ IsLooped /\ fadeStart = Unset => p <= l
      /\ ~IsLooped => fadeStart = Unset
  BY <1>1 DEF InTime, PlayerInv
<1> DEFINE r == Rendered(n)
<1>4. CASE IsLooped
  <2>1. ~SongEnds(n) /\ EngineFrames(n) = n
    BY <1>4 DEF SongEnds, EngineFrames
  <2>2. PICK fade : fade = IF fadeStart = Unset /\ Within(LoopsEnd, n)
                           THEN LoopsEnd ELSE fadeStart
    OBVIOUS
  <2>3. fade \in {Unset, l} /\ (fade = Unset => p + n <= l)
    BY <1>1, <1>2, <1>3, <1>4, <2>2 DEF Within
  <2>4. PICK end : end = IF fade # Unset /\ Within(fade + FadeSmpls, n) /\ endStart = Unset
                         THEN fade + FadeSmpls ELSE endStart
    OBVIOUS
  <2>5. end \in {Unset, s}
    BY <1>1, <1>2, <1>3, <2>3, <2>4
  <2>6. end = Unset => p + n <= s
    BY <1>1, <1>2, <1>3, <2>3, <2>4 DEF Within
  <2>7. /\ r.playSmpl = playSmpl + n /\ r.fade = fade /\ r.end = end
        /\ r.fin = (end # Unset /\ Within(end + EndSilenceSmpls, n))
    BY <1>4, <2>1, <2>2, <2>4 DEF Rendered, LoopsEnd
  <2> HIDE DEF r
  <2>8. r.fin \/ p + n <= x
    <3>1. CASE end = Unset
      BY <1>2, <1>4, <2>6, <3>1
    <3>2. CASE end = s
      <4>1. end # Unset /\ end + EndSilenceSmpls = x
        BY <1>1, <1>2, <3>2
      <4>2. Within(x, n) => r.fin
        BY <2>7, <4>1, Zenon
      <4>3. Within(x, n) \/ p + n <= x
        BY <1>1, <1>3 DEF Within
      <4> QED BY <4>2, <4>3
    <3> QED BY <2>5, <3>1, <3>2
  <2>9. p < p + n
    OBVIOUS
  <2> QED BY <1>1, <1>2, <2>3, <2>6, <2>7, <2>8, <2>9 DEF r
<1>5. CASE ~IsLooped /\ SongEnds(n)
  <2>1. p <= s /\ s < p + n /\ EngineFrames(n) = s - p + 1
    BY <1>1, <1>2, <1>5 DEF SongEnds, EngineFrames, Within
  <2>2. /\ r.playSmpl = playSmpl + (s - p + 1) /\ r.end = s
    BY <1>2, <1>5, <2>1 DEF Rendered
  <2>3. p + (s - p + 1) = s + 1
    OBVIOUS
  <2>4. p < s + 1 /\ s + 1 <= x /\ s # Unset
    BY <1>2, <1>5, <2>1
  <2> HIDE DEF r
  <2> QED BY <1>1, <1>2, <1>5, <2>2, <2>3, <2>4 DEF r
<1>6. CASE ~IsLooped /\ ~SongEnds(n)
  <2>1. EngineFrames(n) = n /\ fadeStart = Unset
    BY <1>3, <1>6 DEF EngineFrames
  <2>2. /\ r.playSmpl = playSmpl + n /\ r.end = endStart
        /\ r.fin = (endStart # Unset /\ Within(endStart + EndSilenceSmpls, n))
    BY <1>6, <2>1 DEF Rendered
  <2>3. endStart = Unset => p + n <= s
    BY <1>1, <1>2, <1>3, <1>6 DEF SongEnds, Within
  <2> HIDE DEF r
  <2>4. r.fin \/ p + n <= x
    <3>1. CASE endStart = Unset
      BY <1>2, <2>3, <3>1
    <3>2. CASE endStart = s
      <4>1. endStart # Unset /\ endStart + EndSilenceSmpls = x
        BY <1>1, <1>2, <3>2
      <4>2. Within(x, n) => r.fin
        BY <2>2, <4>1, Zenon
      <4>3. Within(x, n) \/ p + n <= x
        BY <1>1, <1>3 DEF Within
      <4> QED BY <4>2, <4>3
    <3> QED BY <1>3, <3>1, <3>2
  <2>5. p < p + n
    OBVIOUS
  <2> QED BY <1>1, <1>2, <1>6, <2>2, <2>3, <2>4, <2>5 DEF r
<1> QED BY <1>2, <1>4, <1>5, <1>6

(* What callback() has still to do: the rest of the song, and the way      *)
(* through close() and the destructors.                                    *)
Rest == IF fin THEN 0 ELSE Stop - playSmpl + 1
Way ==
    CASE wpc = "make" -> 11
      [] wpc = "loop" -> 10
      [] wpc = "seek" -> IF caller = "callback" THEN 9 ELSE 5
      [] wpc = "header" -> IF caller = "callback" THEN 8 ELSE 4
      [] wpc = "flush" -> IF caller = "callback" THEN 7 ELSE 3
      [] wpc = "destroy" -> 6
      [] wpc = "file" -> 2
      [] wpc = "gone" -> 1
ToDo == Rest + Way

(* Each step of callback(), and leaving it early, leaves less to do.       *)
RenderAdvances == Work \/ EndEarly => ToDo' < ToDo

LEMMA BufferLeavesLess ==
    ASSUME RenderInv, RenderInv', InTime, RenderBuffer
    PROVE  InTime' /\ Rest' \in Nat /\ Rest \in Nat /\ Rest' < Rest
           /\ wpc = "loop" /\ wpc' \in {"loop", "destroy"}
<1>1. BufferLen \in Nat \ {0}
  BY WriterAssumption
<1>2. PICK r : r = Rendered(BufferLen)
  OBVIOUS
<1>3. /\ ~fin /\ wpc = "loop" /\ wpc' \in {"loop", "destroy"}
      /\ playSmpl' = r.playSmpl /\ fadeStart' = r.fade /\ endStart' = r.end
      /\ fin' = r.fin /\ UNCHANGED <<song, rate>>
  BY <1>2 DEF RenderBuffer, Play, Write
<1>4. r.fin \/ /\ playSmpl < r.playSmpl /\ r.playSmpl <= Stop
               /\ r.end = Unset => r.playSmpl <= SongEnd
               /\ IsLooped /\ r.fade = Unset => r.playSmpl <= LoopsEnd
  BY <1>1, <1>2, <1>3, RenderedInTime DEF RenderInv
<1>5. LoopsEnd' = LoopsEnd /\ SongEnd' = SongEnd /\ Stop' = Stop /\ IsLooped' = IsLooped
  BY <1>3, SameLengths
<1>6. InTime'
  BY <1>3, <1>4, <1>5 DEF InTime
<1>7. PICK p, q, x \in Nat : p = playSmpl /\ q = playSmpl' /\ x = Stop
  BY LengthsType DEF RenderInv, PlayerInv
<1>8. p <= x /\ Rest = x - p + 1
  BY <1>3, <1>7 DEF InTime, Rest
<1>9. CASE fin'
  <2>1. Rest' = 0
    BY <1>9 DEF Rest
  <2> QED BY <1>3, <1>6, <1>7, <1>8, <2>1
<1>10. CASE ~fin'
  <2>1. Rest' = x - q + 1 /\ p < q /\ q <= x
    BY <1>3, <1>4, <1>5, <1>7, <1>10 DEF Rest
  <2> QED BY <1>3, <1>6, <1>7, <1>8, <2>1
<1> QED BY <1>9, <1>10

LEMMA PlayerRestsInTime ==
    ASSUME RenderInv, InTime, UNCHANGED pvars
    PROVE  InTime' /\ Rest' = Rest /\ Rest \in Nat
<1>1. UNCHANGED <<song, rate, playSmpl, fadeStart, endStart, fin>>
  BY DEF pvars
<1>2. LoopsEnd' = LoopsEnd /\ SongEnd' = SongEnd /\ Stop' = Stop /\ IsLooped' = IsLooped
  BY <1>1, SameLengths
<1>3. Rest \in Nat
  <2>1. PICK p, x \in Nat : p = playSmpl /\ x = Stop
    BY LengthsType DEF RenderInv, PlayerInv
  <2> QED BY <2>1 DEF InTime, Rest
<1> QED BY <1>1, <1>2, <1>3 DEF InTime, Rest

LEMMA OneStepLess ==
    ASSUME RenderInv, RenderInv', InTime, [RenderFileNext]_fvars
    PROVE  InTime' /\ RenderAdvances
<1>1. CASE RenderBuffer
  <2>1. InTime' /\ Rest' \in Nat /\ Rest \in Nat /\ Rest' < Rest
        /\ wpc = "loop" /\ wpc' \in {"loop", "destroy"}
    BY <1>1, BufferLeavesLess
  <2>2. Way = 10 /\ Way' \in {6, 10}
    BY <2>1 DEF Way
  <2>3. PICK g, h \in Nat : g = Rest /\ h = Rest'
    BY <2>1
  <2>4. h + Way' < g + Way
    <3>1. h < g
      BY <2>1, <2>3
    <3>2. CASE Way' = 6
      BY <2>2, <3>1, <3>2
    <3>3. CASE Way' = 10
      BY <2>2, <3>1, <3>3
    <3> QED BY <2>2, <3>2, <3>3
  <2>5. ToDo' < ToDo
    BY <2>3, <2>4 DEF ToDo
  <2> QED BY <2>1, <2>5 DEF RenderAdvances
<1>2. CASE UNCHANGED pvars /\ ~RenderBuffer
  <2>1. InTime' /\ Rest' = Rest /\ Rest \in Nat
    BY <1>2, PlayerRestsInTime
  <2>2. ASSUME Work \/ EndEarly PROVE Way' \in Nat /\ Way \in Nat /\ Way' < Way
    <3>1. CASE Make \/ MakeFails \/ Close \/ Leave
      BY <3>1 DEF Way, Make, MakeFails, Close, Leave
    <3>2. CASE Seek
      BY <3>2 DEF Way, Seek
    <3>3. CASE WriteHeader
      BY <3>3 DEF Way, WriteHeader, CloseReturns
    <3>4. CASE Flush
      BY <3>4 DEF Way, Flush, CloseReturns
    <3>5. CASE Destroy \/ DestroyFile
      BY <3>5 DEF Way, Destroy, DestroyFile
    <3> QED BY <1>2, <2>2, <3>1, <3>2, <3>3, <3>4, <3>5 DEF Work, EndEarly
  <2> QED BY <2>1, <2>2 DEF RenderAdvances, ToDo
<1>3. CASE UNCHANGED fvars
  <2>1. UNCHANGED pvars
    BY <1>3 DEF fvars
  <2>2. CASE RenderBuffer
    BY <1>1, <2>2
  <2>3. CASE ~RenderBuffer
    BY <1>2, <2>1, <2>3
  <2> QED BY <2>2, <2>3
<1> QED BY <1>1, <1>2, <1>3 DEF RenderFileNext, Work, EndEarly, Gone, fvars

LEMMA InTimeAlways == RenderFileSpec => []InTime
<1>1. RenderFileInit => InTime
  <2> SUFFICES ASSUME RenderFileInit PROVE InTime
    OBVIOUS
  <2>1. playSmpl = 0 /\ LoopsEnd \in Nat /\ SongEnd \in Nat /\ Stop \in Nat
    BY LengthsType DEF RenderFileInit, PlayerInit
  <2> QED BY <2>1 DEF InTime
<1>2. RenderInv /\ RenderInv' /\ InTime /\ [RenderFileNext]_fvars => InTime'
  BY OneStepLess
<1> QED BY <1>1, <1>2, RenderInvariance, PTL DEF RenderFileSpec

(* A render of any song takes a bounded number of steps, as many as there  *)
(* are left to do at its start: the player meets the end of every song,    *)
(* loop, fade and silence, wherever the ends of its buffers lie.           *)
THEOREM RenderAdvancesHolds == RenderFileSpec => [][RenderAdvances]_fvars
<1>1. RenderInv /\ RenderInv' /\ InTime /\ [RenderFileNext]_fvars => RenderAdvances
  BY OneStepLess
<1> QED BY <1>1, RenderInvariance, InTimeAlways, PTL DEF RenderFileSpec

-------------------------------------------------------------------------------
(* The render implements RenderCallback, as the jobs of RenderJobs do.     *)

(* The file is open while callback() or the destructor is at work on it,   *)
(* and callback() knows nothing of its end before it ends.  This does not  *)
(* depend on what the disk refuses, or takes later.                        *)
OpenInv ==
    /\ AtFile(file) /\ chans \in {1, 2}
    /\ wpc \in {"make", "loop", "seek", "header", "flush", "destroy", "file", "gone"}
    /\ caller \in {"callback", "destructor"} /\ verdict \in {"none", "whole", "error"}
    /\ wpc = "make" => ~file.open /\ file.pos = 0
    /\ wpc \in {"loop", "seek", "header", "flush"} => file.open
    /\ wpc \in {"make", "loop", "destroy"} => caller = "callback"
    /\ wpc \in {"make", "loop", "seek", "header", "flush"} /\ caller = "callback"
          => verdict = "none"
    /\ wpc = "file" => caller = "destructor"

(* What others see of the render stays as it is.                           *)
Unseen ==
    /\ Stop' = Stop /\ file'.open = file.open /\ frames' = frames /\ Told' = Told

LEMMA MakeIsOpen ==
    ASSUME OpenInv, Make, Stop' = Stop
    PROVE  OpenInv' /\ Callback!Open
<1>1. /\ wpc = "make" /\ file \in File /\ file.pos = 0 /\ ~file.open /\ chans \in {1, 2}
      /\ caller = "callback" /\ verdict = "none"
  BY DEF OpenInv, Make, AtFile
<1>2. PICK h, e \in Seq(Cell) : h = <<Header(0, chans)>> /\ e = <<>> /\ Len(e) = 0
  <2>1. PICK c \in Cell : c = Header(0, chans)
    BY <1>1, HeaderType
  <2>2. <<c>> \in Seq(Cell) /\ <<>> \in Seq(Cell)
    OBVIOUS
  <2> QED BY <2>1, <2>2
<1>3. file' = [file EXCEPT !.disk = e, !.buf = h, !.lastWasWrite = TRUE, !.open = TRUE]
  BY <1>2 DEF Make
<1>4. file' \in File /\ file'.disk = e /\ file'.pos = 0 /\ file'.open = TRUE
  BY <1>1, <1>2, <1>3 DEF File
<1>5. AtFile(file')
  BY <1>2, <1>4 DEF AtFile
<1>6. /\ chans' = 2 /\ wpc' = "loop" /\ frames' = frames /\ caller' = caller
      /\ verdict' = verdict
  BY DEF Make
<1>7. OpenInv'
  BY <1>1, <1>4, <1>5, <1>6 DEF OpenInv
<1>8. Told = "none" /\ Told' = "none" /\ file.open = FALSE
  BY <1>1, <1>5, <1>6 DEF Told, AtFile, File
<1> QED BY <1>4, <1>6, <1>7, <1>8 DEF Callback!Open

LEMMA BufferIsWritten ==
    ASSUME RenderInv, RenderInv', InTime, InTime', OpenInv, RenderBuffer
    PROVE  OpenInv' /\ Callback!Next
<1>1. BufferLen \in Nat
  BY WriterAssumption
<1>2. PICK m \in 0..BufferLen : m = Rendered(BufferLen).frames /\ Write(m)
  BY <1>1, RenderedFacts DEF RenderInv, RenderBuffer
<1>3. UNCHANGED <<song, rate>> /\ ~fin
  BY DEF RenderBuffer, Play
<1>4. Stop' = Stop
  BY <1>3, SameLengths
<1>5. PICK f, g, x, p \in Nat : f = frames /\ g = frames' /\ x = Stop /\ p = playSmpl'
  BY LengthsType DEF RenderInv, LengthInv, PlayerInv
<1>6. g = f + m /\ m \in Nat
  BY <1>1, <1>2, <1>5 DEF Write
<1>7. g <= x
  <2>1. CASE fin'
    BY <1>4, <1>5, <2>1 DEF RenderInv, LengthInv
  <2>2. CASE ~fin'
    BY <1>4, <1>5, <2>2 DEF RenderInv, LengthInv, InTime
  <2> QED BY <2>1, <2>2
<1>8. g \in f..f + BufferLen
  BY <1>1, <1>2, <1>5, <1>6
<1>9. /\ wpc = "loop" /\ AtFile(file) /\ file.open /\ caller = "callback"
      /\ verdict = "none" /\ chans' = chans /\ caller' = caller
  BY <1>2 DEF OpenInv, Write
<1>10. Frames(f + 1, m) \in Seq(Cell) /\ Len(Frames(f + 1, m)) <= ChunkSize
  <2>1. Frames(f + 1, m) \in Seq(Cell) /\ Len(Frames(f + 1, m)) = m
    BY <1>6, FramesType
  <2>2. m <= ChunkSize
    BY <1>6, WriterAssumption
  <2> QED BY <2>1, <2>2
<1>11. PICK r \in QWrite(file, Frames(f + 1, m)) :
          /\ file' = r.file
          /\ wpc' = IF r.ok THEN "loop" ELSE "destroy"
          /\ verdict' = IF r.ok THEN verdict ELSE "error"
  BY <1>2, <1>5 DEF Write
<1>12. AtFile(file') /\ file'.open = file.open
  BY <1>9, <1>10, <1>11, WriteGrows DEF Grows
<1>13. OpenInv'
  BY <1>9, <1>11, <1>12 DEF OpenInv
<1>14. Callback!More
  BY <1>4, <1>5, <1>7, <1>8, <1>9 DEF Callback!More
<1>15. Told = "none" /\ Told' = IF r.ok THEN "none" ELSE "error"
  BY <1>9, <1>11 DEF Told
<1>16. Callback!Write \/ Callback!GiveUp
  BY <1>4, <1>12, <1>14, <1>15 DEF Callback!Write, Callback!GiveUp
<1> QED BY <1>13, <1>16 DEF Callback!Next

(* close(), run by callback() or by the destructor.                        *)
LEMMA CloseIsComplete ==
    ASSUME RenderInv, OpenInv, WriteHeader \/ Flush, UNCHANGED pvars
    PROVE  OpenInv' /\ (Callback!Next \/ Unseen)
<1>1. Stop' = Stop
  BY SameLengths DEF pvars
<1>2. /\ wpc \in {"header", "flush"} /\ UNCHANGED <<frames, chans, caller>>
      /\ AtFile(file) /\ file.open = TRUE /\ chans \in {1, 2} /\ frames \in Nat
      /\ caller \in {"callback", "destructor"}
      /\ caller = "callback" => verdict = "none" /\ frames = Stop
      /\ verdict \in {"none", "whole", "error"}
  BY DEF WriteHeader, Flush, OpenInv, RenderInv, LengthInv, AtFile, File
<1>3. \/ AtFile(file') /\ file'.open = TRUE /\ wpc' = "flush" /\ verdict' = verdict
      \/ AtFile(file') /\ file'.open = FALSE /\ CloseReturns("error")
      \/ AtFile(file') /\ file'.open = FALSE /\ CloseReturns("whole")
      \/ AtFile(file') /\ file'.open = TRUE /\ CloseReturns("error")
  <2>1. ASSUME NEW f, AtFile(f) PROVE f.open \in BOOLEAN
    BY <2>1, FileFields
  <2>2. CASE WriteHeader
    <3>1. PICK s \in Seq(Cell) : s = <<Header(frames, chans)>> /\ Len(s) <= ChunkSize
      BY <1>2, OneHeader
    <3>2. PICK r \in QWrite(file, s) :
             IF r.ok THEN file' = r.file /\ wpc' = "flush" /\ verdict' = verdict
             ELSE file' \in QClose(r.file) /\ CloseReturns("error")
      BY <2>2, <3>1 DEF WriteHeader
    <3>3. AtFile(r.file) /\ r.file.open = TRUE
      BY <1>2, <3>1, WriteGrows DEF Grows
    <3>4. CASE r.ok
      BY <3>2, <3>3, <3>4
    <3>5. CASE ~r.ok
      BY <2>1, <3>2, <3>3, <3>5, CloseGrows DEF Grows
    <3> QED BY <3>4, <3>5
  <2>3. CASE Flush
    <3>1. PICK r \in QFlush(file) :
             IF r.ok THEN file' \in QClose(r.file) /\ CloseReturns("whole")
             ELSE file' = r.file /\ CloseReturns("error")
      BY <2>3 DEF Flush
    <3>2. AtFile(r.file) /\ r.file.open = TRUE
      BY <1>2, FlushGrows DEF Grows
    <3>3. CASE r.ok
      BY <2>1, <3>1, <3>2, <3>3, CloseGrows DEF Grows
    <3>4. CASE ~r.ok
      BY <3>1, <3>2, <3>4
    <3> QED BY <3>3, <3>4
  <2> QED BY <2>2, <2>3
<1>4. OpenInv'
  BY <1>2, <1>3 DEF OpenInv, CloseReturns
<1>5. CASE wpc' = "flush"
  <2>1. file'.open = TRUE /\ verdict' = verdict
    BY <1>3, <1>5 DEF CloseReturns
  <2>2. Told' = Told
    BY <1>2, <1>5, <2>1 DEF Told
  <2> QED BY <1>1, <1>2, <1>4, <2>1, <2>2 DEF Unseen
<1>6. CASE wpc' # "flush" /\ caller = "callback"
  <2>1. \/ file'.open = FALSE /\ verdict' = "whole"
        \/ file'.open \in {TRUE, FALSE} /\ verdict' = "error"
    BY <1>3, <1>6 DEF CloseReturns
  <2>2. Told = "none" /\ frames = Stop
    BY <1>2, <1>6 DEF Told
  <2>3. CASE verdict' = "whole"
    <3>1. file'.open = FALSE /\ Told' = "complete"
      BY <2>1, <2>3 DEF Told
    <3> QED BY <1>1, <1>2, <1>4, <2>2, <3>1 DEF Callback!Next, Callback!Complete
  <2>4. CASE verdict' = "error"
    <3>1. file'.open \in {TRUE, FALSE} /\ Told' = "error"
      BY <2>1, <2>4 DEF Told
    <3> QED BY <1>1, <1>2, <1>4, <2>2, <3>1 DEF Callback!Next, Callback!GiveUp
  <2> QED BY <2>1, <2>3, <2>4
<1>7. CASE wpc' # "flush" /\ caller = "destructor"
  <2>1. file'.open \in {TRUE, FALSE} /\ verdict' = verdict /\ caller' = "destructor"
    BY <1>2, <1>3, <1>7 DEF CloseReturns
  <2>2. Told' = Told /\ Told # "none"
    BY <1>2, <1>7, <2>1 DEF Told
  <2>3. CASE file'.open = TRUE
    BY <1>1, <1>2, <1>4, <2>2, <2>3 DEF Unseen
  <2>4. CASE file'.open = FALSE
    BY <1>1, <1>2, <1>4, <2>2, <2>4 DEF Callback!Next, Callback!LetGo
  <2> QED BY <2>1, <2>3, <2>4
<1> QED BY <1>2, <1>5, <1>6, <1>7

LEMMA RestIsEnd ==
    ASSUME RenderInv, OpenInv, UNCHANGED pvars,
           MakeFails \/ (fin /\ Close) \/ Leave \/ Seek \/ Destroy \/ DestroyFile
    PROVE  OpenInv' /\ (Callback!Next \/ Unseen)
<1>1. Stop' = Stop
  BY SameLengths DEF pvars
<1>2. /\ UNCHANGED <<frames, chans>> /\ AtFile(file) /\ file.open \in BOOLEAN
      /\ chans \in {1, 2}
  BY FileFields DEF OpenInv, MakeFails, Close, Leave, Seek, Destroy, DestroyFile
<1>3. CASE MakeFails
  <2>1. /\ OpenInv' /\ file' = file /\ Told = "none" /\ Told' = "error"
    BY <1>2, <1>3 DEF OpenInv, MakeFails, Told
  <2> QED BY <1>1, <1>2, <2>1 DEF Callback!Next, Callback!GiveUp
<1>4. CASE fin /\ Close
  <2>1. /\ OpenInv' /\ file' = file /\ Told' = Told
    BY <1>2, <1>4 DEF OpenInv, Close, Told
  <2> QED BY <1>1, <1>2, <2>1 DEF Unseen
<1>5. CASE Leave
  <2>1. /\ OpenInv' /\ file' = file /\ Told = "none" /\ Told' = "early"
    BY <1>2, <1>5 DEF OpenInv, Leave, Told
  <2> QED BY <1>1, <1>2, <2>1 DEF Callback!Next, Callback!GiveUp
<1>6. CASE Seek
  <2>1. AtFile(file') /\ file'.open = file.open
    BY <1>2, <1>6, SeekGrows DEF Seek, Grows
  <2>2. OpenInv' /\ Told' = Told
    BY <1>2, <1>6, <2>1 DEF OpenInv, Seek, Told
  <2> QED BY <1>1, <1>2, <2>1, <2>2 DEF Unseen
<1>7. CASE Destroy
  <2>1. OpenInv' /\ file' = file /\ Told' = Told
    BY <1>2, <1>7 DEF OpenInv, Destroy, Told
  <2> QED BY <1>1, <1>2, <2>1 DEF Unseen
<1>8. CASE DestroyFile
  <2>1. /\ wpc = "file" /\ wpc' = "gone" /\ caller = "destructor" /\ caller' = caller
        /\ verdict' = verdict /\ verdict \in {"none", "whole", "error"}
    BY <1>8 DEF DestroyFile, OpenInv
  <2>2. Told' = Told /\ Told # "none"
    BY <2>1 DEF Told
  <2>3. CASE file.open = TRUE
    <3>1. AtFile(file') /\ ~file'.open
      BY <1>2, <1>8, <2>3, CloseGrows DEF DestroyFile, Grows
    <3>2. OpenInv' /\ file'.open = FALSE
      BY <1>2, <2>1, <3>1, FileFields DEF OpenInv
    <3> QED BY <1>1, <1>2, <2>2, <2>3, <3>2 DEF Callback!Next, Callback!LetGo
  <2>4. CASE file.open = FALSE
    <3>1. file' = file
      BY <1>8, <2>4 DEF DestroyFile
    <3>2. OpenInv'
      BY <1>2, <2>1, <3>1 DEF OpenInv
    <3> QED BY <1>1, <1>2, <2>2, <3>1, <3>2 DEF Unseen
  <2> QED BY <1>2, <2>3, <2>4
<1> QED BY <1>3, <1>4, <1>5, <1>6, <1>7, <1>8

LEMMA StepIsCallback ==
    ASSUME RenderInv, RenderInv', InTime, InTime', OpenInv, [RenderFileNext]_fvars
    PROVE  OpenInv' /\ (Callback!Next \/ Unseen)
<1>1. CASE RenderBuffer
  BY <1>1, BufferIsWritten
<1>2. CASE UNCHANGED pvars /\ Make
  <2>1. Stop' = Stop
    BY <1>2, SameLengths DEF pvars
  <2> QED BY <1>2, <2>1, MakeIsOpen DEF Callback!Next
<1>3. CASE UNCHANGED pvars /\ (WriteHeader \/ Flush)
  BY <1>3, CloseIsComplete
<1>4. CASE UNCHANGED pvars
           /\ (MakeFails \/ (fin /\ Close) \/ Leave \/ Seek \/ Destroy \/ DestroyFile)
  BY <1>4, RestIsEnd
<1>5. CASE UNCHANGED fvars
  <2>1. UNCHANGED pvars /\ UNCHANGED wvars
    BY <1>5 DEF fvars
  <2>2. Stop' = Stop
    BY <2>1, SameLengths DEF pvars
  <2>3. OpenInv' /\ Told' = Told
    BY <2>1 DEF wvars, OpenInv, Told
  <2> QED BY <2>1, <2>2, <2>3 DEF wvars, Unseen
<1> QED BY <1>1, <1>2, <1>3, <1>4, <1>5 DEF RenderFileNext, Work, EndEarly, Gone

(* A render of any song, on any disk, is a callback() as RenderJobs sees   *)
(* it, of as many frames as lie before the place where the player stops.   *)
THEOREM RenderIsCallback == RenderFileSpec => RefinesCallback
<1>1. RenderFileInit => OpenInv /\ Callback!Init
  <2> SUFFICES ASSUME RenderFileInit PROVE OpenInv /\ Callback!Init
    OBVIOUS
  <2>1. PICK old \in Seq(Cell) :
            file = [disk |-> old, pos |-> 0, buf |-> <<>>, lastWasWrite |-> FALSE,
                    open |-> FALSE, refused |-> FALSE]
    BY OldFileAssumption DEF RenderFileInit, WriterInit
  <2>2. <<>> \in Seq(Cell) /\ Len(old) \in Nat
    OBVIOUS
  <2>3. AtFile(file) /\ file.open = FALSE /\ file.pos = 0
    BY <2>1, <2>2 DEF AtFile, File
  <2>4. Stop \in Nat
    BY LengthsType DEF RenderFileInit, PlayerInit
  <2>5. /\ frames = 0 /\ chans = 1 /\ wpc = "make" /\ caller = "callback"
        /\ verdict = "none"
    BY DEF RenderFileInit, WriterInit
  <2> QED BY <2>3, <2>4, <2>5 DEF OpenInv, Told, Callback!Init
<1>2. RenderInv /\ RenderInv' /\ InTime /\ InTime' /\ OpenInv /\ [RenderFileNext]_fvars
         => OpenInv' /\ [Callback!Next]_<<Stop, file.open, frames, Told>>
  BY StepIsCallback DEF Unseen
<1> QED BY <1>1, <1>2, RenderInvariance, InTimeAlways, PTL
        DEF RenderFileSpec, RefinesCallback, Callback!Spec
===============================================================================
