SPECIFICATION Spec
CONSTANTS
    None = None
    OwnNumbers = {9}
    Students <- MCTwoStudents
    Readings <- MCReadings
    AddedItems <- MCAdded
    Quantities <- MCQuantities
    MaxRuns = 4
INVARIANTS
    ApprovalsAreCurrent
    NothingVanishes
PROPERTIES
    NoChoiceIsLostSilently
    ChoicesSurviveRefresh
CHECK_DEADLOCK FALSE
