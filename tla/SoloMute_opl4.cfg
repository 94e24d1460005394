SPECIFICATION MuteSpec
CONSTANTS
    MCTypes = {"YMF278B"}
    Type <- MCTypes
    Chip <- MCChip
    Songs <- MCSongs
    Rows <- MCRows
    Voices <- MCVoices
INVARIANTS
    SoloIsAlone
