SPECIFICATION Spec
CONSTANTS
  MaxChild = 2
  g1 = g1
  g2 = g2
  None = None
  Whole = Whole
  Grade <- OneGrade
  Kind <- BothKinds
  Form <- OtherForms
INVARIANTS NoOrphans PlanIsCurrent ConfirmedUnlessReplacing ReachedStagesStand
