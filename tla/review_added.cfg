SPECIFICATION Spec
CONSTANTS
    None = None
    OwnNumbers = {9}
    Students <- MCOneStudent
    Readings <- MCMore
    AddedItems <- MCAdded
    Quantities <- MCQuantities
    MaxRuns = 5
INVARIANTS
    AddedItemsSurvive UntouchedRowsAreAsRead EveryUnitIsPlanned
CHECK_DEADLOCK FALSE
