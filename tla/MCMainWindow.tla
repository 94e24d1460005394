----------------------------- MODULE MCMainWindow -----------------------------
(* A small instance of MainWindow: a Mega Drive song with a 32X, whose      *)
(* chips need sorting, and a song for two YM2151.                           *)
EXTENDS MainWindow

CONSTANTS Mega, Arcade, Ensoniq

Psg == [type |-> 0, instance |-> 0]
Fm == [type |-> 2, instance |-> 0]
Pwm == [type |-> 17, instance |-> 0]
Opm(i) == [type |-> 3, instance |-> i]

MCSong == {Mega, Arcade}
MCChip == {Psg, Fm, Pwm, Opm(0), Opm(1)}
MCDevices == [s \in MCSong |->
    IF s = Mega THEN <<Psg, Fm, Pwm>> ELSE <<Opm(0), Opm(1)>>]
MCNumChannels == [c \in MCChip |-> IF c = Fm THEN 2 ELSE 1]
MCSmplRate == [c \in MCChip |->
    CASE c = Psg -> 223721 [] c = Fm -> 53267 [] c = Pwm -> 22000
      [] OTHER -> 111860]

(* A song for an ES5506 alone, of which libvgm has no working core.         *)
Otis == [type |-> 37, instance |-> 0]
SilentSong == {Ensoniq}
SilentChip == {Otis}
SilentDevices == [s \in SilentSong |-> <<Otis>>]
SilentNumChannels == [c \in SilentChip |-> 1]
SilentSmplRate == [c \in SilentChip |-> 0]
==============================================================================
