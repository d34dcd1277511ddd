SPECIFICATION FairSpec
CONSTANTS
  Lists = 4
  Child = {1, 2, 3, 4}
  ChildOf <- OfTheirOwn
  Workers = 2
  MaxInterruptions = 1
CHECK_DEADLOCK FALSE
INVARIANT FailuresAreExplicit
PROPERTIES KeepsPromise ReadingEnds
