SPECIFICATION SettingsSpec
CONSTANTS
    Instance = {a, b}
    MaxRate = 3
    DefaultRate = 2
    IntLimit = 5
    IniRate = {0, 1, 3, 4, 9, Missing, Invalid}
    Missing = Missing
    Invalid = Invalid
INVARIANTS
    SettingsTypeOK
    LastChangeWins
    RateIsShown
