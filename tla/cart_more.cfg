SPECIFICATION Spec
CONSTANTS
  None = None
  Stores <- Shops
  CartQuestions <- SomeCarts
  PackQuestions <- NoQuestions
  ShareQuestions <- NoQuestions
CHECK_DEADLOCK FALSE
INVARIANTS MergingLosesNothing SharedProductsAreMerged TradeoffsExplainGaps
