\* Every text of up to six pieces, cut with every answer a segmenter may give.
SPECIFICATION ChunksSpec
CONSTANTS
    Texts <- AllTexts
    MaxText = 6
    MaxWords = 3
    Floor = 2
INVARIANTS
    ChunksTypeOK
    NothingLostOrRepeated
    TurnsAdvance
    WithinBudget
    TextBeforeTableProtectsIt
