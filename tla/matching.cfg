SPECIFICATION Spec
CONSTANTS
  None = None
  AllowedCategories <- Categories
  StandardPackCounts <- PackCounts
  StandardContainerCounts <- ContainerCounts
  PaperCategories <- Paper
  ImpliedTerms <- Implies
  Lists <- SomeLists
  StudentCounts <- Students
  Offers <- Catalog
  Stores <- Shops
  SessionConfig <- Session
  MODEL_MAX_CONCURRENCY = 2
  Confidences = {6, 7}
INVARIANTS
  EveryUnitReachesANeed
  EveryLineIsHonoured
  UnjudgedIsNeverBought
  SilenceIsNoRefusal
PROPERTIES
  MatchingEnds
