SPECIFICATION Spec
CONSTANTS
    None = None
    SingleInstance <- MCSingleInstance
    PlausibleMaximum <- MCPlausibleMaximum
    Lists <- MCLists
    Replacements <- MCReplacements
    Added <- MCAdded
    Entered <- MCEntered
    MaxReadings = 1
    MaxAdded = 1
    MaxTouches = 2
INVARIANTS
    RadioAndNumberAgree
    TickedStaysOut
    SentAsShown
    ConfirmedUnitsArePlanned
CHECK_DEADLOCK FALSE
