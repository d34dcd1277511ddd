--------------------------- MODULE MCListWorkflow ---------------------------
(* Instances of ListWorkflow for TLC: one or two entries, one or two grades, *)
(* and the reports an inspection may give of a document.                     *)
EXTENDS ListWorkflow

CONSTANTS g1, g2

Report(grades, asks) == [grades |-> grades, asks |-> asks]

OneGrade   == {g1}
TwoGrades  == {g1, g2}
Students   == {"student"}
BothKinds  == {"student", "classroom"}

\* A document that names no grade; one section for g1; sections for both.
SectionForms == {Report({}, FALSE), Report({g1}, FALSE), Report({g1, g2}, TRUE)}
\* A document that names no grade, and one that is for another grade only.
OtherForms   == {Report({}, FALSE), Report({g2}, FALSE)}
=============================================================================
