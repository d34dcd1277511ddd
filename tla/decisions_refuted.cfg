SPECIFICATION Spec
CONSTANTS
  None = None
  Stores <- Shops
  Requests <- SomeRequests
  MaxChoices = 2
CHECK_DEADLOCK FALSE
INVARIANTS
  RequiredItemsRemainCovered
  ApprovingLosesNothing
  ProposalCanBeSaved
  SubstitutesAreChosen
  SubstitutionsAreAsked
  AddOnsKeepEachBudget
