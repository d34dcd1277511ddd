SPECIFICATION FairSpec
CONSTANTS
  MaxChild = 1
  g1 = g1
  g2 = g2
  None = None
  Whole = Whole
  Grade <- TwoGrades
  Kind <- BothKinds
  Form <- SectionForms
INVARIANT PlanReadsSavedLists
PROPERTY AlwaysBackToParent
