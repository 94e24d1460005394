-------------------------------- MODULE Player --------------------------------
(***************************************************************************)
(* How long a song is: PlayerA (src/3rdparty/libvgm/player/playera.cpp)    *)
(* over the VGM engine, as RenderJob::make and callback use them.  A song  *)
(* is written in ticks of 44100 Hz and rendered at another rate; make      *)
(* computes its length beforehand, PlayerA finds its end by rendering.     *)
(***************************************************************************)
EXTENDS Integers

CONSTANTS
    Songs,         \* ticks to the end, ticks of the loop (0: none), and the
                   \* header's loop modifier and loop base
    SampleRates,   \* sample rates rendered at
    TickRate,      \* VGM's ticks per second (44100)
    CountLimit     \* a UINT32 counts modulo this (2^32)

ASSUME PlayerAssumption ==
    /\ Songs \subseteq [total : Nat, loop : Nat, modifier : Nat, base : Int]
    /\ \A s \in Songs : s.loop <= s.total
    /\ SampleRates \subseteq Nat \ {0}
    /\ TickRate \in Nat \ {0}
    /\ CountLimit \in Nat \ {0}

VARIABLES
    song, rate,            \* the song loaded, opt.sample_rate
    playSmpl,              \* the engine's position (_playSmpl)
    fadeStart, endStart,   \* _fadeSmplStart, _endSilenceStart
    fin                    \* PLAYSTATE_FIN

pvars == <<song, rate, playSmpl, fadeStart, endStart, fin>>

Unset == -1
LoopCount == 2
FadeDuration == 4
UnloopedTail_None == 0
UnloopedTail == 1

Tick2Sample(t) == (t * rate) \div TickRate
Sample2Tick(s) == (s * TickRate) \div rate

(* GetModifiedLoopCount of LoopCount.                                      *)
PlayLoops ==
    LET modified == IF song.modifier = 0 THEN LoopCount
                    ELSE (LoopCount * song.modifier + 8) \div 16
    IN IF modified <= song.base THEN 1 ELSE modified - song.base

TotalPlayTicks == song.total + song.loop * (PlayLoops - 1)

IsLooped == song.loop > 0
FadeSmpls == IF IsLooped THEN rate * FadeDuration ELSE 0
EndSilenceSmpls == IF IsLooped THEN 0 ELSE rate * UnloopedTail

(* make(): the frames the job is going to render, and the seconds of its   *)
(* progress range.                                                         *)
RenderSamples ==
    (Tick2Sample(TotalPlayTicks) + FadeSmpls + EndSilenceSmpls) % CountLimit
Duration == RenderSamples \div rate

(* The engine parses a command once its position in ticks has reached it;  *)
(* both conversions round down, and it advances by at least one sample.    *)
ReachedAt(t) ==
    LET s == Tick2Sample(t) IN IF Sample2Tick(s) >= t THEN s ELSE s + 1

(* The positions a buffer of n frames will cover.                          *)
Within(at, n) == playSmpl <= at /\ at < playSmpl + n

(* VGMPlayer::Render stops one sample after the end of the song.           *)
SongEnds(n) == ~IsLooped /\ Within(ReachedAt(song.total), n)
EngineFrames_NoAdvance(n) ==
    IF SongEnds(n) THEN ReachedAt(song.total) - playSmpl ELSE n
EngineFrames(n) ==
    IF SongEnds(n) THEN ReachedAt(song.total) - playSmpl + 1 ELSE n

(* One call of PlayerA::Render for n frames.  The loop that starts the     *)
(* fade, the end of the song or of the fade, and the end of the silence    *)
(* after it may all lie within one buffer.                                 *)
Rendered(n) ==
    LET count == EngineFrames(n)
        loopAt == ReachedAt(TotalPlayTicks)
        fade == IF IsLooped /\ fadeStart = Unset /\ Within(loopAt, n)
                THEN loopAt ELSE fadeStart
        faded == fade # Unset /\ Within(fade + FadeSmpls, count)
        end == IF SongEnds(n) THEN ReachedAt(song.total)
               ELSE IF faded /\ endStart = Unset THEN fade + FadeSmpls
               ELSE endStart
        over == end # Unset /\ Within(end + EndSilenceSmpls, count)
    IN [frames |-> IF over THEN end + EndSilenceSmpls - playSmpl ELSE count,
        playSmpl |-> playSmpl + count,
        fade |-> fade, end |-> end, fin |-> over]

PlayerInit ==
    /\ song \in Songs
    /\ rate \in SampleRates
    /\ playSmpl = 0
    /\ fadeStart = Unset
    /\ endStart = Unset
    /\ fin = FALSE

Play(r) ==
    /\ playSmpl' = r.playSmpl
    /\ fadeStart' = r.fade
    /\ endStart' = r.end
    /\ fin' = r.fin
    /\ UNCHANGED <<song, rate>>
===============================================================================
