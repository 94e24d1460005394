SPECIFICATION MuteSpec
CONSTANTS
    MCTypes = {"SN76496", "YM2413", "YM3812", "YM3526", "Y8950", "YM2612",
        "YM2151", "SEGAPCM", "RF5C68", "YM2203", "YM2608", "YM2610", "YMF262",
        "YMF271", "YMZ280B", "32X_PWM", "AY8910", "GB_DMG", "NES_APU",
        "YMW258", "uPD7759", "OKIM6258", "OKIM6295", "K051649", "K054539",
        "C6280", "C140", "C219", "K053260", "POKEY", "SCSP", "WSWAN",
        "VBOY_VSU", "SAA1099", "ES5503", "X1_010", "C352", "GA20"}
    Type <- MCTypes
    Chip <- MCChip
    Songs <- MCSongs
    Rows <- MCRows
    Voices <- MCVoices
INVARIANTS
    SoloIsAlone
    StemsAreTheMix
