\* A table shorter than the budget is cut row by row.
SPECIFICATION ChunksSpec
CONSTANTS
    Texts <- AllTexts
    MaxText = 4
    MaxWords = 4
    Floor = 4
INVARIANTS
    FittingTablesStayWhole
