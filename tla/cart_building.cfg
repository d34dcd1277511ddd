SPECIFICATION Spec
CONSTANTS
  None = None
  Stores <- Shops
  CartQuestions <- SomeCarts
  PackQuestions <- SomePacks
  ShareQuestions <- SomeShares
CHECK_DEADLOCK FALSE
INVARIANTS
  PacksAreCheapest CentsAddUp UnitsReachTheChildren
  SingleStopClosesTheGaps CustomLeavesOutTheFewest
