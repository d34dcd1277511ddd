SPECIFICATION Spec
CONSTANTS
  MaxChild = 2
  g1 = g1
  g2 = g2
  None = None
  Whole = Whole
  Grade <- TwoGrades
  Kind <- Students
  Form <- SectionForms
INVARIANTS
  PlanOnlyFromConfirmedLists
  NoReadListIsDropped
  PlanReadsTheStudentsGrade
  EveryListCanBeSupplied
PROPERTY GradedListsAreReadBySection
