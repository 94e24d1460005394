SPECIFICATION WindowSpec
CONSTANTS
    Mega = Mega
    Arcade = Arcade
    Ensoniq = Ensoniq
    NoSong = NoSong
    Song <- MCSong
    Chip <- MCChip
    Devices <- MCDevices
    NumChannels <- MCNumChannels
    SmplRate <- MCSmplRate
    Rates = {44100, 48000}
INVARIANTS
    WindowTypeOK
    ChannelsFollowChips
    NothingIsLost
    WindowShowsFile
    RateFollowsSettings
    ResetsEnd
PROPERTIES
    RowsChangeInReset
    EnabledSurvives
    CurrentChipStays
