SPECIFICATION SearchSpec
CONSTANTS
  None = None
  Problems <- SmallProblems
  MaxEntries = 2
INVARIANT FindsTheBest
