SPECIFICATION WindowSpec
CONSTANTS
    Mega = Mega
    Arcade = Arcade
    Ensoniq = Ensoniq
    NoSong = NoSong
    Song <- SilentSong
    Chip <- SilentChip
    Devices <- SilentDevices
    NumChannels <- SilentNumChannels
    SmplRate <- SilentSmplRate
    Rates = {44100, 48000}
INVARIANTS
    FallbackIsUsed
