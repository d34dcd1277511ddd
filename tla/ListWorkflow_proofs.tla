------------------------ MODULE ListWorkflow_proofs ------------------------
(***************************************************************************)
(* The safety invariants of ListWorkflow, proved for any number of entries, *)
(* any grades and any inspection reports.                                   *)
(***************************************************************************)
EXTENDS ListWorkflow, TLAPS

\* A list is organized only over confirmed readings.
OrganizedIsConfirmed == organized /\ replacing = None =>
  /\ structReady /\ extrReady /\ merge # "pending"
  /\ Present(extracted) # {}
  /\ \A c \in Present(extracted) : extracted[c].reviewed

\* Personalize and the plan are shown at a stage that was reached.
LateScreensReached == screen \in {"review", "plan"} => maxStage >= 3

\* Once extracted, the lists have been merged, none lost and none added.
ReadingsMerged == extrReady =>
  merge # "clear" /\ Present(extracted) = Present(unmerged)

\* Repeated items are asked about, and the banner leads to the question, only
\* before the lists are organized: an answer never changes a confirmed list.
MergeScreenEarly ==
  /\ replacing = None /\ "requirement_merge" \in {screen, listScreen} =>
       ~organized /\ merge \in {"clear", "pending"}
  /\ screen = "working" /\ ~organized => listScreen = "lists"

Structure == TypeOK /\ NoOrphans
Merging == ReadingsMerged /\ MergeScreenEarly
Flow == /\ PlanIsCurrent /\ ReachedStagesStand
        /\ OrganizedIsConfirmed /\ LateScreensReached
IInv == Structure /\ Merging /\ Flow

-----------------------------------------------------------------------------
(* Operators *)

\* Arriving at a screen keeps the types of the navigation state, never leaves
\* the reached stage below the stage of the screen shown, and raises it above
\* the limit only to that stage.
LEMMA ArriveFacts ==
  ASSUME maxStage \in 1..4,
         listScreen \in {"lists", "sections", "requirement_merge"},
         NEW s \in Screens, NEW confirmed \in BOOLEAN, NEW limit \in 1..4,
         Arrive(s, confirmed, limit)
  PROVE  /\ screen' = s /\ screen' \in Screens /\ maxStage' \in 1..4
         /\ listScreen' \in {"lists", "sections", "requirement_merge"}
         /\ s \in {"review", "plan"} => maxStage' >= 3
         /\ s \in {"intake", "lists", "sections", "requirement_merge"}
              \/ (s = "working" /\ ~confirmed)
            => maxStage' <= Higher(limit, 2) /\ maxStage' <= Higher(maxStage, 2)
  BY SMT DEF Arrive, ProgressScreen, StageOf, Screens, Lower, Higher

LEMMA WithoutFacts ==
  ASSUME NEW T, NEW f \in [Child -> T \cup {None}], NEW S
  PROVE  /\ Without(f, S) \in [Child -> T \cup {None}]
         /\ Present(Without(f, S)) = Present(f) \ S
         /\ S = {} => Without(f, S) = f
  BY SMT DEF Without, Present

LEMMA AllNoneFacts ==
  ASSUME NEW T
  PROVE  AllNone \in [Child -> T \cup {None}] /\ Present(AllNone) = {}
  BY SMT DEF AllNone, Present

\* Marking readings as outdated or unreviewed adds and removes none.
LEMMA MarkFacts ==
  ASSUME NEW f \in [Child -> Reading \cup {None}], NEW c \in Child
  PROVE  /\ Outdated(f, c) \in [Child -> Reading \cup {None}]
         /\ Present(Outdated(f, c)) = Present(f)
         /\ Unreviewed(f) \in [Child -> Reading \cup {None}]
         /\ Present(Unreviewed(f)) = Present(f)
<1>1. ASSUME NEW r \in Reading
      PROVE  /\ [r EXCEPT !.fresh = FALSE] \in Reading
             /\ [r EXCEPT !.reviewed = FALSE] \in Reading
  BY <1>1 DEF Reading
<1>2. None \notin Reading
  BY WorkflowConstants DEF Reading
<1>3. /\ Outdated(f, c) \in [Child -> Reading \cup {None}]
      /\ Present(Outdated(f, c)) = Present(f)
  <2>1. CASE f[c] = None
    BY <2>1 DEF Outdated
  <2>2. CASE f[c] # None
    <3>1. f[c] \in Reading
      BY <2>2
    <3>2. [f[c] EXCEPT !.fresh = FALSE] \in Reading
      BY <1>1, <3>1
    <3>3. PICK r \in Reading : Outdated(f, c) = [f EXCEPT ![c] = r]
      BY <2>2, <3>2 DEF Outdated
    <3>4. r # None
      BY <1>2
    <3>5. QED
      BY <2>2, <3>3, <3>4 DEF Present
  <2>3. QED
    BY <2>1, <2>2
<1>4. \A d \in Child : f[d] # None => [f[d] EXCEPT !.reviewed = FALSE] \in Reading
  BY <1>1
<1>5. /\ Unreviewed(f) \in [Child -> Reading \cup {None}]
      /\ Present(Unreviewed(f)) = Present(f)
  BY <1>2, <1>4 DEF Unreviewed, Present
<1>6. QED
  BY <1>3, <1>5

-----------------------------------------------------------------------------
(* Types, and no cache without its student and its list *)

\* The caches of the documents: what DropLayouts and DropReadings leave.
LEMMA DropFacts ==
  ASSUME TypeOK, NEW S \in SUBSET Child
  PROVE  /\ DropLayouts(S) =>
              /\ structures' \in [Child -> Form \cup {None}]
              /\ selections' \in [Child -> Grade \cup {None}]
              /\ scopes' \subseteq Child /\ structErr' \subseteq Child
              /\ Present(structures') = Present(structures) \ S
              /\ Present(selections') = Present(selections) \ S
         /\ DropReadings(S) =>
              /\ unmerged' \in [Child -> Reading \cup {None}]
              /\ extracted' \in [Child -> Reading \cup {None}]
              /\ extrErr' \subseteq Child
              /\ Present(unmerged') = Present(unmerged) \ S
              /\ Present(extracted') = Present(extracted) \ S
<1>1. /\ structures \in [Child -> Form \cup {None}]
      /\ selections \in [Child -> Grade \cup {None}]
      /\ scopes \subseteq Child /\ structErr \subseteq Child
      /\ unmerged \in [Child -> Reading \cup {None}]
      /\ extracted \in [Child -> Reading \cup {None}]
      /\ extrErr \subseteq Child
  BY DEF TypeOK
<1>2. /\ Without(structures, S) \in [Child -> Form \cup {None}]
      /\ Present(Without(structures, S)) = Present(structures) \ S
  BY <1>1, WithoutFacts
<1>3. /\ Without(selections, S) \in [Child -> Grade \cup {None}]
      /\ Present(Without(selections, S)) = Present(selections) \ S
  BY <1>1, WithoutFacts
<1>4. /\ Without(unmerged, S) \in [Child -> Reading \cup {None}]
      /\ Present(Without(unmerged, S)) = Present(unmerged) \ S
  BY <1>1, WithoutFacts
<1>5. /\ Without(extracted, S) \in [Child -> Reading \cup {None}]
      /\ Present(Without(extracted, S)) = Present(extracted) \ S
  BY <1>1, WithoutFacts
<1>6. QED
  BY <1>1, <1>2, <1>3, <1>4, <1>5 DEF DropLayouts, DropReadings

NavOK == /\ screen \in Screens /\ maxStage \in 1..4
         /\ listScreen \in {"lists", "sections", "requirement_merge"}

\* ArriveFacts for the arguments the actions give.
LEMMA ArriveKeepsNavOK ==
  ASSUME TypeOK, NEW s \in Screens, NEW limit \in 1..4,
         Arrive(s, FALSE, limit) \/ Arrive(s, TRUE, limit)
           \/ Arrive(s, organized, limit)
  PROVE  NavOK'
<1>1. /\ maxStage \in 1..4 /\ organized \in BOOLEAN
      /\ listScreen \in {"lists", "sections", "requirement_merge"}
      /\ FALSE \in BOOLEAN /\ TRUE \in BOOLEAN
  BY DEF TypeOK
<1>2. QED
  BY <1>1, ArriveFacts, Zenon DEF NavOK

\* A step that only changes the screen.
LEMMA VisitKeepsStructure ==
  ASSUME Structure, NEW s \in Screens, Visit(s)
  PROVE  Structure'
<1>1. /\ screen' \in Screens /\ maxStage' \in 1..4
      /\ listScreen' \in {"lists", "sections", "requirement_merge"}
  BY ArriveFacts DEF Structure, TypeOK, Visit, GoTo
<1>2. QED
  BY <1>1 DEF Structure, TypeOK, NoOrphans, Known, Present, Visit, setup, saved,
              layout, readings, progress

LEMMA SetCountKeepsStructure ==
  ASSUME Structure, NEW n \in Child, SetCount(n)
  PROVE  Structure'
<1> DEFINE gone == (n + 1)..count
<1>1. gone \in SUBSET Child
  BY WorkflowConstants DEF Structure, TypeOK, Child
<1>2. /\ draft' \in [Child -> Entry \cup {None}]
      /\ intake' \in [Child -> Entry \cup {None}]
      /\ Present(draft') = Present(draft) \ gone
      /\ Present(intake') = Present(intake) \ gone
  BY WithoutFacts DEF SetCount, Structure, TypeOK
<1>3. Known' = Known \ gone
  BY <1>2 DEF Known, Present
<1>4. DropLayouts(gone) /\ DropReadings(gone) /\ inputs' = inputs \ gone
  BY DEF SetCount
<1>5. /\ structures' \in [Child -> Form \cup {None}]
      /\ selections' \in [Child -> Grade \cup {None}]
      /\ scopes' \subseteq Child /\ structErr' \subseteq Child
      /\ unmerged' \in [Child -> Reading \cup {None}]
      /\ extracted' \in [Child -> Reading \cup {None}]
      /\ extrErr' \subseteq Child
      /\ Present(structures') = Present(structures) \ gone
      /\ Present(selections') = Present(selections) \ gone
      /\ Present(unmerged') = Present(unmerged) \ gone
      /\ Present(extracted') = Present(extracted) \ gone
  BY <1>1, <1>4, DropFacts DEF Structure
<1>6. /\ screen' \in Screens /\ maxStage' \in 1..4
      /\ listScreen' \in {"lists", "sections", "requirement_merge"}
      /\ organized' \in BOOLEAN /\ (plan' = None \/ plan' \subseteq Child)
  <2>1. CASE gone = {}
    BY <2>1 DEF SetCount, Structure, TypeOK, nav
  <2>2. CASE gone # {}
    <3>1. Arrive("intake", FALSE, 1) /\ organized' = FALSE /\ plan' = None
      BY <2>2 DEF SetCount
    <3>2. "intake" \in Screens /\ 1 \in 1..4
      BY DEF Screens
    <3>3. QED
      BY <3>1, <3>2, ArriveKeepsNavOK DEF NavOK, Structure
  <2>3. QED
    BY <2>1, <2>2
<1>7. TypeOK'
  BY <1>2, <1>4, <1>5, <1>6 DEF SetCount, Structure, TypeOK
<1>8. NoOrphans'
  BY <1>2, <1>3, <1>4, <1>5 DEF Structure, NoOrphans
<1>9. QED
  BY <1>7, <1>8 DEF Structure

LEMMA EditEntryKeepsStructure ==
  ASSUME Structure, NEW c \in Child, NEW e \in Entry, EditEntry(c, e)
  PROVE  Structure'
<1>1. /\ draft' \in [Child -> Entry \cup {None}]
      /\ Present(draft) \subseteq Present(draft')
  <2>1. e # None
    BY WorkflowConstants DEF Entry
  <2>2. QED
    BY <2>1 DEF EditEntry, Structure, TypeOK, Present
<1>2. CASE selections[c] = None
  BY <1>1, <1>2 DEF EditEntry, Structure, TypeOK, NoOrphans, Known, Present,
                    nav, saved, layout, readings, progress
<1>3. CASE selections[c] # None
  <2>1. Arrive("intake", FALSE, 2) /\ StartOver
        /\ selections' = Without(selections, {c}) /\ unmerged' = AllNone
    BY <1>3 DEF EditEntry
  <2>2. NavOK'
    <3>1. "intake" \in Screens /\ 2 \in 1..4
      BY DEF Screens
    <3>2. QED
      BY <2>1, <3>1, ArriveKeepsNavOK DEF Structure
  <2>3. /\ selections' \in [Child -> Grade \cup {None}]
        /\ Present(selections') \subseteq Present(selections)
        /\ unmerged' \in [Child -> Reading \cup {None}]
        /\ Present(unmerged') = {}
    <3>1. selections \in [Child -> Grade \cup {None}]
      BY DEF Structure, TypeOK
    <3>2. /\ selections' \in [Child -> Grade \cup {None}]
          /\ Present(selections') = Present(selections) \ {c}
      BY <2>1, <3>1, WithoutFacts
    <3>3. /\ unmerged' \in [Child -> Reading \cup {None}]
          /\ Present(unmerged') = {}
      BY <2>1, AllNoneFacts
    <3>4. QED
      BY <3>2, <3>3
  <2>4. TypeOK'
    BY <1>1, <1>3, <2>1, <2>2, <2>3
       DEF EditEntry, Structure, TypeOK, NavOK, StartOver, saved
  <2>5. NoOrphans'
    BY <1>1, <1>3, <2>3 DEF EditEntry, Structure, NoOrphans, Known, Present,
                            saved
  <2>6. QED
    BY <2>4, <2>5 DEF Structure
<1>4. QED
  BY <1>2, <1>3

LEMMA SetupKeepsStructure ==
  ASSUME Structure, ChangeBudgetMode \/ ContinueFromPreferences
  PROVE  Structure'
<1>1. /\ "intake" \in Screens /\ "lists" \in Screens /\ 3 \in 1..4
  BY DEF Screens
<1>2. CASE ChangeBudgetMode
  <2>1. NavOK'
    BY <1>1, <1>2, ArriveKeepsNavOK DEF ChangeBudgetMode, Structure
  <2>2. QED
    BY <1>2, <2>1 DEF ChangeBudgetMode, Structure, TypeOK, NavOK, NoOrphans,
       Known, Present, setup, saved, layout, readings
<1>3. CASE ContinueFromPreferences
  <2>1. NavOK'
    BY <1>1, <1>3, ArriveKeepsNavOK DEF ContinueFromPreferences, Structure
  <2>2. QED
    BY <1>3, <2>1 DEF ContinueFromPreferences, Structure, TypeOK, NavOK,
       NoOrphans, Known, Present, saved, layout, readings
<1>4. QED
  BY <1>2, <1>3

LEMMA ListsKeepStructure ==
  ASSUME Structure, OrganizeAll \/ OrganizeReplacement \/ Rebuild
  PROVE  Structure'
<1>1. "working" \in Screens /\ 2 \in 1..4
  BY DEF Screens
<1>2. NavOK'
  BY <1>1, ArriveKeepsNavOK DEF OrganizeAll, OrganizeReplacement, Rebuild,
                                Structure
<1>3. /\ AllNone \in [Child -> Form \cup {None}]
      /\ AllNone \in [Child -> Grade \cup {None}]
      /\ AllNone \in [Child -> Reading \cup {None}]
      /\ Present(AllNone) = {} /\ Known \subseteq Child
  BY AllNoneFacts DEF Known
<1>4. CASE OrganizeAll
  <2>1. TypeOK'
    BY <1>2, <1>3, <1>4 DEF OrganizeAll, StartOver, Structure, TypeOK, NavOK,
                            setup, NoChild
  <2>2. NoOrphans'
    BY <1>3, <1>4 DEF OrganizeAll, Structure, NoOrphans, Known, Present, setup
  <2>3. QED
    BY <2>1, <2>2 DEF Structure
<1>5. CASE OrganizeReplacement
  <2>1. /\ replacing \in Child
        /\ unmerged' = Outdated(unmerged, replacing)
        /\ extracted' = Outdated(extracted, replacing)
    BY <1>5 DEF OrganizeReplacement, Known
  <2>2. /\ unmerged' \in [Child -> Reading \cup {None}]
        /\ extracted' \in [Child -> Reading \cup {None}]
        /\ Present(unmerged') = Present(unmerged)
        /\ Present(extracted') = Present(extracted)
    BY <2>1, MarkFacts DEF Structure, TypeOK
  <2>3. TypeOK'
    BY <1>2, <1>3, <1>5, <2>2 DEF OrganizeReplacement, StartOver, Structure,
                                  TypeOK, NavOK, setup
  <2>4. NoOrphans'
    BY <1>5, <2>2 DEF OrganizeReplacement, Structure, NoOrphans, Known,
                      Present, setup
  <2>5. QED
    BY <2>3, <2>4 DEF Structure
<1>6. CASE Rebuild
  <2>1. TypeOK'
    BY <1>2, <1>3, <1>6 DEF Rebuild, Structure, TypeOK, NavOK, setup, saved,
                            readings, NoChild
  <2>2. NoOrphans'
    BY <1>3, <1>6 DEF Rebuild, Structure, NoOrphans, Known, Present, setup,
                      saved, readings
  <2>3. QED
    BY <2>1, <2>2 DEF Structure
<1>7. QED
  BY <1>4, <1>5, <1>6

LEMMA SectionsKeepStructure ==
  ASSUME Structure, SubmitSections \/ \E c \in Child : ReplaceUpload(c)
  PROVE  Structure'
<1>1. "working" \in Screens /\ "lists" \in Screens /\ 2 \in 1..4 /\ 4 \in 1..4
  BY DEF Screens
<1>2. NavOK'
  BY <1>1, ArriveKeepsNavOK DEF SubmitSections, ReplaceUpload, Structure
<1>3. CASE SubmitSections
  <2>1. /\ unmerged' \in [Child -> Reading \cup {None}]
        /\ Present(unmerged') = {}
    BY <1>3, AllNoneFacts DEF SubmitSections
  <2>2. \A c \in Child : NamesGrade(c) =>
          c \in Present(structures) /\ intake[c] \in Entry
    BY DEF NamesGrade, Structure, TypeOK, NoOrphans, Known, Present
  <2>3. selections' \in [Child -> Grade \cup {None}]
    BY <1>3, <2>2 DEF SubmitSections, Structure, TypeOK, Entry
  <2>4. Present(selections') \subseteq inputs
    BY <1>3, <2>2 DEF SubmitSections, Structure, NoOrphans, Present
  <2>5. TypeOK'
    BY <1>2, <1>3, <2>1, <2>3 DEF SubmitSections, StartOver, Structure, TypeOK,
       NavOK, setup, saved, Present
  <2>6. NoOrphans'
    BY <1>3, <2>1, <2>4 DEF SubmitSections, Structure, NoOrphans, Known,
       Present, setup, saved
  <2>7. QED
    BY <2>5, <2>6 DEF Structure
<1>4. CASE \E c \in Child : ReplaceUpload(c)
  <2>1. PICK c \in Child : ReplaceUpload(c)
    BY <1>4
  <2>2. /\ structures' \in [Child -> Form \cup {None}]
        /\ selections' \in [Child -> Grade \cup {None}]
        /\ scopes' \subseteq Child /\ structErr' \subseteq Child
        /\ unmerged' \in [Child -> Reading \cup {None}]
        /\ extracted' \in [Child -> Reading \cup {None}]
        /\ extrErr' \subseteq Child
        /\ Present(structures') = Present(structures) \ {c}
        /\ Present(selections') = Present(selections) \ {c}
        /\ Present(unmerged') = Present(unmerged) \ {c}
        /\ Present(extracted') = Present(extracted) \ {c}
    <3>1. DropLayouts({c}) /\ DropReadings({c}) /\ {c} \in SUBSET Child
      BY <2>1 DEF ReplaceUpload
    <3>2. QED
      BY <3>1, DropFacts DEF Structure
  <2>3. TypeOK'
    BY <1>2, <2>1, <2>2 DEF ReplaceUpload, StartOver, Structure, TypeOK,
       NavOK, setup
  <2>4. NoOrphans'
    BY <2>1, <2>2 DEF ReplaceUpload, Structure, NoOrphans, Known, Present,
       setup
  <2>5. QED
    BY <2>3, <2>4 DEF Structure
<1>5. QED
  BY <1>3, <1>4

LEMMA InspectKeepsStructure ==
  ASSUME Structure, Inspect
  PROVE  Structure'
<1> DEFINE pending == inputs \ Present(structures)
<1>0. PICK ok \in SUBSET pending : \E report \in [ok -> Form] :
        /\ structures' = [c \in Child |->
             IF c \in ok THEN report[c] ELSE structures[c]]
        /\ selections' = [c \in Child |->
             IF c \in ok /\ AutoSelects(report[c], intake[c].grade)
             THEN intake[c].grade ELSE selections[c]]
        /\ structErr' = inputs \cap (structErr \cup (pending \ ok))
  BY DEF Inspect
<1>1. PICK report \in [ok -> Form] :
        /\ structures' = [c \in Child |->
             IF c \in ok THEN report[c] ELSE structures[c]]
        /\ selections' = [c \in Child |->
             IF c \in ok /\ AutoSelects(report[c], intake[c].grade)
             THEN intake[c].grade ELSE selections[c]]
        /\ structErr' = inputs \cap (structErr \cup (pending \ ok))
  BY <1>0
<1>2. ok \subseteq inputs /\ ok \subseteq Child
  BY DEF Structure, TypeOK
<1>3. \A c \in ok : intake[c].grade \in Grade
  BY <1>2 DEF Structure, TypeOK, NoOrphans, Known, Entry
<1>4. /\ structures' \in [Child -> Form \cup {None}]
      /\ Present(structures') \subseteq inputs
  BY <1>1, <1>2 DEF Structure, TypeOK, NoOrphans, Present
<1>5. /\ selections' \in [Child -> Grade \cup {None}]
      /\ Present(selections') \subseteq inputs
  BY <1>1, <1>2, <1>3 DEF Structure, TypeOK, NoOrphans, Present
<1>6. structErr' \subseteq Child
  BY <1>1 DEF Structure, TypeOK
<1>7. TypeOK'
  BY <1>4, <1>5, <1>6 DEF Inspect, Structure, TypeOK, nav, setup, saved,
     readings, progress
<1>8. NoOrphans'
  BY <1>4, <1>5 DEF Inspect, Structure, NoOrphans, Known, Present, setup,
     saved, readings
<1>9. QED
  BY <1>7, <1>8 DEF Structure

LEMMA ExtractKeepsStructure ==
  ASSUME Structure, Extract
  PROVE  Structure'
<1> DEFINE readable == (inputs \cap Present(structures)) \ Present(unmerged)
<1>1. PICK ok \in SUBSET readable :
        /\ unmerged' = [c \in Child |->
             IF c \in ok THEN ReadNow(c) ELSE unmerged[c]]
        /\ extrErr' = structErr \cup (extrErr \cap inputs)
                                \cup (readable \ ok)
  BY DEF Extract
<1>2. \A c \in Child : ReadNow(c) \in Reading
  BY DEF ReadNow, Reading, Structure, TypeOK
<1>3. /\ unmerged' \in [Child -> Reading \cup {None}]
      /\ Present(unmerged') \subseteq inputs
  BY <1>1, <1>2 DEF Structure, TypeOK, NoOrphans, Present
<1>4. /\ extracted' \in [Child -> Reading \cup {None}]
      /\ Present(extracted') = Present(unmerged')
  <2>1. PICK c : c \in Child
    BY WorkflowConstants DEF Child
  <2>2. extracted' = Unreviewed(unmerged')
    BY DEF Extract
  <2>3. QED
    BY <1>3, <2>1, <2>2, MarkFacts
<1>5. extrErr' \subseteq Child /\ merge' \in {"clear", "pending", "answered", "settled"}
  BY <1>1 DEF Extract, Structure, TypeOK
<1>6. TypeOK'
  BY <1>3, <1>4, <1>5 DEF Extract, Structure, TypeOK, nav, setup, saved, layout
<1>7. NoOrphans'
  BY <1>3, <1>4 DEF Extract, Structure, NoOrphans, Known, Present, setup,
     saved, layout
<1>8. QED
  BY <1>6, <1>7 DEF Structure

LEMMA ReviewKeepsStructure ==
  ASSUME Structure,
         MergeSubmit \/ MergeNotNeeded \/ ReviewConfirm
  PROVE  Structure'
<1>1. "working" \in Screens /\ 3 \in 1..4 /\ 4 \in 1..4
  BY DEF Screens
<1>2. NavOK'
  BY <1>1, ArriveKeepsNavOK DEF MergeSubmit, MergeNotNeeded, ReviewConfirm,
                                GoTo, Structure
<1>3. CASE MergeSubmit
  <2>1. PICK c : c \in Child
    BY WorkflowConstants DEF Child
  <2>2. /\ extracted' \in [Child -> Reading \cup {None}]
        /\ Present(extracted') = Present(unmerged)
    BY <1>3, <2>1, MarkFacts DEF MergeSubmit, Structure, TypeOK
  <2>3. TypeOK'
    BY <1>2, <1>3, <2>2 DEF MergeSubmit, Structure, TypeOK, NavOK, setup,
       saved, layout
  <2>4. NoOrphans'
    BY <1>3, <2>2 DEF MergeSubmit, Structure, NoOrphans, Known, Present,
       setup, saved, layout
  <2>5. QED
    BY <2>3, <2>4 DEF Structure
<1>4. CASE MergeNotNeeded
  BY <1>2, <1>4 DEF MergeNotNeeded, Structure, TypeOK, NavOK, NoOrphans, Known,
     Present, setup, saved, layout, readings
<1>5. CASE ReviewConfirm
  <2>1. ASSUME NEW c \in Child, extracted[c] # None
        PROVE  [extracted[c] EXCEPT !.reviewed = TRUE] \in Reading
    <3>1. extracted[c] \in Reading
      BY <2>1 DEF Structure, TypeOK
    <3>2. QED
      BY <3>1 DEF Reading
  <2>2. None \notin Reading
    BY WorkflowConstants DEF Reading
  <2>3. extracted' = [c \in Child |->
          IF extracted[c] = None THEN None
          ELSE [extracted[c] EXCEPT !.reviewed = TRUE]]
    BY <1>5 DEF ReviewConfirm
  <2>4. /\ extracted' \in [Child -> Reading \cup {None}]
        /\ Present(extracted') = Present(extracted)
    BY <2>1, <2>2, <2>3 DEF Present
  <2>5. TypeOK'
    BY <1>2, <1>5, <2>4 DEF ReviewConfirm, Structure, TypeOK, NavOK, setup,
       saved, layout
  <2>6. NoOrphans'
    BY <1>5, <2>4 DEF ReviewConfirm, Structure, NoOrphans, Known, Present,
       setup, saved, layout
  <2>7. QED
    BY <2>5, <2>6 DEF Structure
<1>6. QED
  BY <1>3, <1>4, <1>5

\* The steps of the working screen that only record a decision.
LEMMA DecisionsKeepStructure ==
  ASSUME Structure, ConfirmIdentity \/ Build
  PROVE  Structure'
<1>1. CASE ConfirmIdentity
  BY <1>1 DEF ConfirmIdentity, Structure, TypeOK, NoOrphans, Known, Present,
     nav, setup, saved, layout, readings
<1>2. CASE Build
  <2>1. plan' \subseteq Child
    BY <1>2 DEF Build, Known
  <2>2. QED
    BY <1>2, <2>1 DEF Build, Structure, TypeOK, NoOrphans, Known, Present,
       nav, setup, saved, layout, readings
<1>3. QED
  BY <1>1, <1>2

\* The steps that only change the screen, and no step at all.
LEMMA MovesKeepStructure ==
  ASSUME Structure,
         \/ \E s \in Screens : Visit(s)
         \/ UNCHANGED vars
  PROVE  Structure'
<1>1. CASE \E s \in Screens : Visit(s)
  BY <1>1, VisitKeepsStructure
<1>2. CASE UNCHANGED vars
  BY <1>2 DEF vars, nav, setup, saved, layout, readings, progress, Structure,
     TypeOK, NoOrphans, Known, Present
<1>3. QED
  BY <1>1, <1>2

\* Which steps those are.
LEMMA MovesAreVisits ==
  ASSUME TypeOK,
         \/ \E s \in 1..4 : Banner(s)
         \/ BackToSetup \/ SectionsToStudents \/ SectionsBack
         \/ AskSections \/ AskMerge \/ AskReview \/ RouteResult
         \/ ReturnToLists \/ ReviewBack \/ BackToCart
  PROVE  \E s \in Screens : Visit(s)
<1>1. CASE \E s \in 1..4 : Banner(s)
  <2>1. PICK n \in 1..4 : Banner(n)
    BY <1>1
  <2>2. CASE n = 2
    <3>1. Visit(listScreen) /\ listScreen \in Screens
      BY <2>1, <2>2 DEF Banner, TypeOK, Screens
    <3>2. QED
      BY <3>1
  <2>3. CASE n # 2
    BY <2>1, <2>3 DEF Banner, Screens
  <2>4. QED
    BY <2>2, <2>3
<1>2. CASE ~ \E s \in 1..4 : Banner(s)
  BY <1>2 DEF BackToSetup, SectionsToStudents, SectionsBack, AskSections,
     AskMerge, AskReview, RouteResult, ReturnToLists, ReviewBack, BackToCart,
     Screens
<1>3. QED
  BY <1>1, <1>2

THEOREM StructureStep ==
  ASSUME Structure, [Next]_vars
  PROVE  Structure'
<1>1. TypeOK
  BY DEF Structure
<1>2. CASE Automatic
  BY <1>1, <1>2, InspectKeepsStructure, ExtractKeepsStructure,
     ReviewKeepsStructure, DecisionsKeepStructure, MovesKeepStructure,
     MovesAreVisits DEF Automatic
<1>3. CASE Parent
  BY <1>1, <1>3, SetCountKeepsStructure, EditEntryKeepsStructure,
     SetupKeepsStructure, ListsKeepStructure, SectionsKeepStructure,
     ReviewKeepsStructure, DecisionsKeepStructure, MovesKeepStructure,
     MovesAreVisits DEF Parent
<1>4. CASE UNCHANGED vars
  BY <1>4, MovesKeepStructure
<1>5. QED
  BY <1>2, <1>3, <1>4 DEF Next

THEOREM StructureInit ==
  ASSUME Init
  PROVE  Structure
<1>1. /\ AllNone \in [Child -> Entry \cup {None}]
      /\ AllNone \in [Child -> Form \cup {None}]
      /\ AllNone \in [Child -> Grade \cup {None}]
      /\ AllNone \in [Child -> Reading \cup {None}]
      /\ Present(AllNone) = {}
  BY AllNoneFacts
<1>2. TypeOK
  <2>1. 1 \in Child
    BY WorkflowConstants DEF Child
  <2>2. /\ draft \in [Child -> Entry \cup {None}]
        /\ intake \in [Child -> Entry \cup {None}]
        /\ structures \in [Child -> Form \cup {None}]
        /\ selections \in [Child -> Grade \cup {None}]
        /\ unmerged \in [Child -> Reading \cup {None}]
        /\ extracted \in [Child -> Reading \cup {None}]
    BY <1>1 DEF Init
  <2>3. /\ screen \in Screens /\ maxStage \in 1..4
        /\ listScreen \in {"lists", "sections", "requirement_merge"}
        /\ merge \in {"clear", "pending", "answered", "settled"}
    BY DEF Init, Screens
  <2>4. /\ structReady \in BOOLEAN /\ extrReady \in BOOLEAN
        /\ identityOk \in BOOLEAN /\ organized \in BOOLEAN
    BY DEF Init
  <2>5. /\ inputs \subseteq Child /\ scopes \subseteq Child
        /\ structErr \subseteq Child /\ extrErr \subseteq Child
        /\ replacing \in Child \cup {None} /\ plan = None
    BY DEF Init, NoChild
  <2>6. count \in Child
    BY <2>1 DEF Init
  <2>7. QED
    BY <2>2, <2>3, <2>4, <2>5, <2>6 DEF TypeOK
<1>3. NoOrphans
  BY <1>1 DEF Init, NoOrphans, Known, Present, NoChild
<1>4. QED
  BY <1>2, <1>3 DEF Structure

\* Every variable keeps its type, and no cached layout, section choice or
\* reading outlives the list it belongs to or the entry of its student.
THEOREM CachesBelong == Spec => [](TypeOK /\ NoOrphans)
<1>1. Init => Structure
  BY StructureInit
<1>2. Structure /\ [Next]_vars => Structure'
  BY StructureStep
<1>3. Structure => TypeOK /\ NoOrphans
  BY DEF Structure
<1>4. QED
  BY <1>1, <1>2, <1>3, PTL DEF Spec

-----------------------------------------------------------------------------
(* What a kept plan and a reached stage rest on.  ReachedStagesStand is not  *)
(* inductive: a stage is also reached by showing the working screen of an    *)
(* organized list, so "organized" has to carry the same promise, and the     *)
(* parent comes to confirm a review only at a stage that was reached.        *)

Stands == /\ structReady /\ extrReady /\ merge # "pending"
          /\ Present(extracted) # {}

FlowVars == <<replacing, organized, plan, structReady, extrReady, merge,
              intake, extracted, extrErr>>

\* After an edit that takes the journey back to the lists nothing is promised.
LEMMA BackAtListsFlow ==
  ASSUME plan' = None, ~organized', ~(maxStage' >= 3),
         screen' \notin {"review", "plan"}
  PROVE  Flow'
  BY DEF Flow, PlanIsCurrent, ReachedStagesStand, OrganizedIsConfirmed,
         LateScreensReached

\* How Arrive moves the reached stage, for the arguments the actions give.
LEMMA ArriveStages ==
  ASSUME TypeOK, NEW s \in Screens, NEW confirmed \in BOOLEAN,
         NEW limit \in 2..4, Arrive(s, confirmed, limit)
  PROVE  /\ screen' = s /\ maxStage' \in 1..4
         /\ s \in {"review", "plan"} => maxStage' >= 3
         /\ \/ s \in {"intake", "lists", "sections", "requirement_merge"}
            \/ s = "working" /\ ~confirmed
            => /\ maxStage' >= 3 => maxStage >= 3 /\ limit >= 3
  BY SMT DEF TypeOK, Arrive, ProgressScreen, StageOf, Screens, Lower, Higher

LEMMA VisitFlow ==
  ASSUME Structure, Flow, NEW s \in Screens, Visit(s),
         \/ s \in {"intake", "lists", "sections", "requirement_merge"}
         \/ maxStage >= 3
         \/ Stands
  PROVE  Flow'
<1>1. UNCHANGED FlowVars
  BY DEF Visit, setup, saved, layout, readings, progress, FlowVars
<1>2. /\ screen' = s /\ maxStage' \in 1..4
      /\ s \in {"review", "plan"} => maxStage' >= 3
      /\ s \in {"intake", "lists", "sections", "requirement_merge"}
           => (maxStage' >= 3 => maxStage >= 3)
  <2>1. Arrive(s, organized, 4) /\ organized \in BOOLEAN /\ 4 \in 2..4
    BY DEF Visit, GoTo, Structure, TypeOK
  <2>2. QED
    BY <2>1, ArriveStages DEF Structure
<1>3. PlanIsCurrent' /\ OrganizedIsConfirmed'
  BY <1>1 DEF FlowVars, Flow, PlanIsCurrent, OrganizedIsConfirmed, Known,
              Present
<1>4. ReachedStagesStand'
  BY <1>1, <1>2 DEF FlowVars, Flow, ReachedStagesStand, Stands, Present
<1>5. LateScreensReached'
  BY <1>2 DEF LateScreensReached
<1>6. QED
  BY <1>3, <1>4, <1>5 DEF Flow

LEMMA MovesFlow ==
  ASSUME Structure, Flow,
         \/ \E s \in 1..4 : Banner(s)
         \/ BackToSetup \/ SectionsToStudents \/ SectionsBack
         \/ AskSections \/ AskMerge \/ AskReview \/ RouteResult
         \/ ReturnToLists \/ ReviewBack \/ BackToCart
  PROVE  Flow'
<1>1. CASE \E s \in 1..4 : Banner(s)
  <2>1. PICK n \in 1..4 : Banner(n)
    BY <1>1
  <2>2. CASE n = 1
    BY <2>1, <2>2, VisitFlow DEF Banner, Screens
  <2>3. CASE n = 2
    <3>1. Visit(listScreen) /\ listScreen \in Screens
          /\ listScreen \in {"lists", "sections", "requirement_merge"}
      BY <2>1, <2>3 DEF Banner, Structure, TypeOK, Screens
    <3>2. QED
      BY <3>1, VisitFlow
  <2>4. CASE n \in {3, 4}
    <3>1. maxStage >= 3 /\ (Visit("review") \/ Visit("working"))
      BY <2>1, <2>4 DEF Banner, Structure, TypeOK
    <3>2. "review" \in Screens /\ "working" \in Screens
      BY DEF Screens
    <3>3. QED
      BY <3>1, <3>2, VisitFlow
  <2>5. QED
    BY <2>2, <2>3, <2>4
<1>2. CASE \/ BackToSetup \/ SectionsToStudents \/ SectionsBack
           \/ AskSections \/ AskMerge \/ ReturnToLists \/ ReviewBack
  <2>1. PICK s \in {"intake", "lists", "sections", "requirement_merge"} :
          Visit(s)
    BY <1>2 DEF BackToSetup, SectionsToStudents, SectionsBack, AskSections,
                AskMerge, ReturnToLists, ReviewBack
  <2>2. s \in Screens
    BY DEF Screens
  <2>3. QED
    BY <2>1, <2>2, VisitFlow
<1>3. CASE AskReview
  <2>1. Visit("review") /\ Stands /\ "review" \in Screens
    BY <1>3 DEF AskReview, Ready, Stands, Screens
  <2>2. QED
    BY <2>1, VisitFlow
<1>4. CASE RouteResult
  <2>1. Visit("plan") /\ "plan" \in Screens
    BY <1>4 DEF RouteResult, Screens
  <2>2. Stands
    BY <1>4 DEF RouteResult, Flow, PlanIsCurrent, Stands
  <2>3. QED
    BY <2>1, <2>2, VisitFlow
<1>5. CASE BackToCart
  <2>1. Visit("review") /\ maxStage >= 3 /\ "review" \in Screens
    BY <1>5 DEF BackToCart, Flow, LateScreensReached, Screens
  <2>2. QED
    BY <2>1, VisitFlow
<1>6. QED
  BY <1>1, <1>2, <1>3, <1>4, <1>5

LEMMA SetupFlow ==
  ASSUME Structure, Flow,
         \/ \E n \in Child : SetCount(n)
         \/ \E c \in Child, e \in Entry : EditEntry(c, e)
         \/ ChangeBudgetMode \/ ContinueFromPreferences
  PROVE  Flow'
<1>1. /\ "intake" \in Screens /\ "lists" \in Screens
      /\ FALSE \in BOOLEAN /\ organized \in BOOLEAN
      /\ 2 \in 2..4 /\ 3 \in 2..4 /\ TypeOK
  BY DEF Screens, Structure, TypeOK
<1>2. ASSUME NEW n \in Child, SetCount(n)
      PROVE  Flow'
  <2>1. CASE (n + 1)..count = {}
    <3>1. /\ intake \in [Child -> Entry \cup {None}]
          /\ extracted \in [Child -> Reading \cup {None}]
      BY DEF Structure, TypeOK
    <3>2. intake' = intake
      BY <1>2, <2>1, <3>1, WithoutFacts DEF SetCount
    <3>3. extracted' = extracted /\ extrErr' = extrErr
      BY <1>2, <2>1, <3>1, WithoutFacts DEF SetCount, DropReadings
    <3>4. UNCHANGED <<FlowVars, nav>>
      BY <1>2, <2>1, <3>2, <3>3 DEF SetCount, FlowVars
    <3>5. QED
      BY <3>4 DEF FlowVars, nav, Flow, PlanIsCurrent, ReachedStagesStand,
         OrganizedIsConfirmed, LateScreensReached, Known, Present
  <2>2. CASE (n + 1)..count # {}
    <3>1. Arrive("intake", FALSE, 1) /\ organized' = FALSE /\ plan' = None
      BY <1>2, <2>2 DEF SetCount
    <3>2. screen' = "intake" /\ maxStage' = 1
      BY <1>1, <3>1 DEF Arrive, ProgressScreen, StageOf, Lower, Higher, TypeOK
    <3>3. screen' \notin {"review", "plan"} /\ ~(maxStage' >= 3)
      BY <3>2
    <3>4. QED
      BY <3>1, <3>3, BackAtListsFlow
  <2>3. QED
    BY <2>1, <2>2
<1>3. ASSUME NEW c \in Child, NEW e \in Entry, EditEntry(c, e)
      PROVE  Flow'
  <2>1. CASE selections[c] = None
    BY <1>3, <2>1 DEF EditEntry, nav, saved, layout, readings, progress, Flow,
       PlanIsCurrent, ReachedStagesStand, OrganizedIsConfirmed,
       LateScreensReached, Known, Present
  <2>2. CASE selections[c] # None
    <3>1. Arrive("intake", FALSE, 2) /\ organized' = FALSE /\ plan' = None
      BY <1>3, <2>2 DEF EditEntry, StartOver
    <3>2. /\ screen' = "intake"
          /\ maxStage' >= 3 => maxStage >= 3 /\ 2 >= 3
      BY <1>1, <3>1, ArriveStages, Zenon
    <3>3. screen' \notin {"review", "plan"} /\ ~(maxStage' >= 3)
      BY <3>2
    <3>4. QED
      BY <3>1, <3>3, BackAtListsFlow
  <2>3. QED
    BY <2>1, <2>2
<1>4. ASSUME ChangeBudgetMode \/ ContinueFromPreferences
      PROVE  Flow'
  <2>1. /\ plan' = None
        /\ UNCHANGED <<replacing, organized, structReady, extrReady, merge,
                       extracted>>
    BY <1>4 DEF ChangeBudgetMode, ContinueFromPreferences, saved, layout,
                readings
  <2>2. /\ screen' \in {"intake", "lists"}
        /\ maxStage' >= 3 => maxStage >= 3
    BY <1>1, <1>4, ArriveStages DEF ChangeBudgetMode, ContinueFromPreferences
  <2>3. QED
    BY <2>1, <2>2 DEF Flow, PlanIsCurrent, ReachedStagesStand,
       OrganizedIsConfirmed, LateScreensReached, Present
<1>5. QED
  BY <1>2, <1>3, <1>4

LEMMA ListsFlow ==
  ASSUME Structure, Flow,
         \/ OrganizeAll \/ OrganizeReplacement \/ Rebuild \/ SubmitSections
         \/ \E c \in Child : ReplaceUpload(c)
  PROVE  Flow'
<1>1. CASE OrganizeAll \/ OrganizeReplacement \/ Rebuild \/ SubmitSections
  <2>1. Arrive("working", FALSE, 2) /\ ~organized' /\ plan' = None
    BY <1>1 DEF OrganizeAll, OrganizeReplacement, Rebuild, SubmitSections,
                StartOver
  <2>2. /\ "working" \in Screens /\ FALSE \in BOOLEAN /\ 2 \in 2..4 /\ TypeOK
    BY DEF Screens, Structure
  <2>3. /\ screen' = "working"
        /\ maxStage' >= 3 => maxStage >= 3 /\ 2 >= 3
    BY <2>1, <2>2, ArriveStages, Zenon
  <2>4. screen' \notin {"review", "plan"} /\ ~(maxStage' >= 3)
    BY <2>3
  <2>5. QED
    BY <2>1, <2>4, BackAtListsFlow
<1>2. CASE \E c \in Child : ReplaceUpload(c)
  <2>1. PICK c \in Child : ReplaceUpload(c)
    BY <1>2
  <2>2. replacing' # None /\ plan' = None /\ screen' = "lists"
    BY <2>1, WorkflowConstants DEF ReplaceUpload, StartOver, Arrive
  <2>3. QED
    BY <2>2 DEF Flow, PlanIsCurrent, ReachedStagesStand,
       OrganizedIsConfirmed, LateScreensReached
<1>3. QED
  BY <1>1, <1>2

LEMMA WorkingFlow ==
  ASSUME Structure, Flow, Inspect \/ Extract \/ ConfirmIdentity \/ Build
  PROVE  Flow'
<1>1. CASE Inspect
  <2>1. plan' = None /\ structReady'
        /\ UNCHANGED <<replacing, organized, extrReady, merge, extracted,
                       screen, maxStage>>
    BY <1>1 DEF Inspect, Working, nav, saved, readings, progress
  <2>2. QED
    BY <2>1 DEF Flow, PlanIsCurrent, ReachedStagesStand,
       OrganizedIsConfirmed, LateScreensReached, Present
<1>2. CASE Extract
  <2>1. plan' = None /\ ~extrReady
        /\ UNCHANGED <<replacing, organized, screen, maxStage>>
    BY <1>2 DEF Extract, Working, nav, saved
  <2>2. QED
    BY <2>1 DEF Flow, PlanIsCurrent, ReachedStagesStand,
       OrganizedIsConfirmed, LateScreensReached
<1>3. CASE ConfirmIdentity
  <2>1. UNCHANGED <<FlowVars, nav>>
    BY <1>3 DEF ConfirmIdentity, FlowVars, setup, saved, layout, readings
  <2>2. QED
    BY <2>1 DEF FlowVars, nav, Flow, PlanIsCurrent, ReachedStagesStand,
       OrganizedIsConfirmed, LateScreensReached, Known, Present
<1>4. CASE Build
  <2>1. /\ organized /\ structReady /\ extrReady /\ merge # "pending"
        /\ plan' = (Known \cap Present(extracted)) \ extrErr
        /\ UNCHANGED <<replacing, organized, structReady, extrReady, merge,
                       intake, extracted, extrErr, screen, maxStage>>
    BY <1>4 DEF Build, Buildable, Ready, nav, setup, saved, layout, readings
  <2>2. QED
    BY <2>1 DEF Flow, PlanIsCurrent, ReachedStagesStand,
       OrganizedIsConfirmed, LateScreensReached, Known, Present
<1>5. QED
  BY <1>1, <1>2, <1>3, <1>4

\* Confirming the review adds and removes no reading.
LEMMA ConfirmKeepsReadings ==
  ASSUME extracted \in [Child -> Reading \cup {None}], ReviewConfirm
  PROVE  /\ Present(extracted') = Present(extracted)
         /\ \A c \in Present(extracted') : extracted'[c].reviewed
<1>1. \A c \in Child : extracted[c] # None =>
        extracted'[c] \in Reading /\ extracted'[c].reviewed
  <2>1. ASSUME NEW c \in Child, extracted[c] # None
        PROVE  extracted'[c] \in Reading /\ extracted'[c].reviewed
    <3>1. extracted[c] \in Reading
      BY <2>1
    <3>2. extracted'[c] = [extracted[c] EXCEPT !.reviewed = TRUE]
      BY <2>1 DEF ReviewConfirm
    <3>3. QED
      BY <3>1, <3>2 DEF Reading
  <2>2. QED
    BY <2>1
<1>2. \A c \in Child : extracted[c] = None => extracted'[c] = None
  BY DEF ReviewConfirm
<1>3. None \notin Reading
  BY WorkflowConstants DEF Reading
<1>4. \A c \in Child : extracted[c] # None => extracted'[c] # None
  BY <1>1, <1>3
<1>5. Present(extracted') = Present(extracted)
  BY <1>2, <1>4 DEF Present
<1>6. QED
  BY <1>1, <1>5 DEF Present

LEMMA ReviewFlow ==
  ASSUME Structure, Merging, Flow,
         MergeSubmit \/ MergeNotNeeded \/ ReviewConfirm
  PROVE  Flow'
<1>1. "working" \in Screens /\ organized \in BOOLEAN /\ 4 \in 2..4 /\ TypeOK
  BY DEF Screens, Structure, TypeOK
<1>2. CASE MergeSubmit
  <2>1. /\ merge' # "pending" /\ screen = "requirement_merge"
        /\ merge \in {"pending", "answered"}
        /\ UNCHANGED <<replacing, organized, structReady, extrReady, intake,
                       unmerged, extrErr, plan>>
    BY <1>2 DEF MergeSubmit, setup, saved, layout
  <2>2. screen' = "working" /\ (~organized => (maxStage' >= 3 => maxStage >= 3))
    BY <1>1, <1>2, ArriveStages DEF MergeSubmit, GoTo
  <2>3. LateScreensReached'
    BY <2>2 DEF LateScreensReached
  <2>4. replacing = None =>
          /\ plan = None /\ ~organized /\ ~(maxStage >= 3)
    BY <2>1 DEF Merging, MergeScreenEarly, Flow, PlanIsCurrent,
                ReachedStagesStand
  <2>5. Present(extracted') = Present(unmerged)
    <3>1. PICK c : c \in Child
      BY WorkflowConstants DEF Child
    <3>2. unmerged \in [Child -> Reading \cup {None}]
      BY DEF Structure, TypeOK
    <3>3. extracted' = Unreviewed(unmerged)
      BY <1>2 DEF MergeSubmit
    <3>4. QED
      BY <3>1, <3>2, <3>3, MarkFacts
  <2>6. PlanIsCurrent'
    <3>1. CASE plan = None
      BY <2>1, <3>1 DEF PlanIsCurrent
    <3>2. CASE plan # None
      <4>1. /\ organized /\ structReady /\ extrReady
            /\ plan = (Known \cap Present(extracted)) \ extrErr
        BY <3>2 DEF Flow, PlanIsCurrent
      <4>2. Present(extracted') = Present(extracted)
        BY <2>5, <4>1 DEF Merging, ReadingsMerged
      <4>3. QED
        BY <2>1, <4>1, <4>2 DEF PlanIsCurrent, Known
    <3>3. QED
      BY <3>1, <3>2
  <2>7. ReachedStagesStand' /\ OrganizedIsConfirmed'
    BY <2>1, <2>2, <2>4 DEF ReachedStagesStand, OrganizedIsConfirmed
  <2>8. QED
    BY <2>3, <2>6, <2>7 DEF Flow
<1>3. CASE MergeNotNeeded
  <2>1. merge # "pending" /\ merge' = "settled"
        /\ UNCHANGED <<replacing, organized, structReady, extrReady, intake,
                       extracted, extrErr, plan>>
    BY <1>3 DEF MergeNotNeeded, setup, saved, layout, readings
  <2>2. screen' = "working" /\ (~organized => (maxStage' >= 3 => maxStage >= 3))
    BY <1>1, <1>3, ArriveStages DEF MergeNotNeeded, GoTo
  <2>3. QED
    BY <2>1, <2>2 DEF Flow, PlanIsCurrent, ReachedStagesStand,
       OrganizedIsConfirmed, LateScreensReached, Known, Present
<1>4. CASE ReviewConfirm
  <2>1. plan' = None /\ screen' = "working" /\ Present(extracted) # {}
        /\ UNCHANGED <<replacing, structReady, extrReady, merge>>
    BY <1>4 DEF ReviewConfirm, Arrive, saved, layout
  <2>2. replacing = None => structReady /\ extrReady /\ merge # "pending"
    BY <1>4 DEF ReviewConfirm, Flow, LateScreensReached, ReachedStagesStand
  <2>3. /\ Present(extracted') = Present(extracted)
        /\ \A c \in Present(extracted') : extracted'[c].reviewed
    BY <1>4, ConfirmKeepsReadings DEF Structure, TypeOK
  <2>4. PlanIsCurrent' /\ ReachedStagesStand' /\ LateScreensReached'
    BY <2>1, <2>2, <2>3 DEF PlanIsCurrent, ReachedStagesStand,
                            LateScreensReached
  <2>5. OrganizedIsConfirmed'
    BY <2>1, <2>2, <2>3 DEF OrganizedIsConfirmed
  <2>6. QED
    BY <2>4, <2>5 DEF Flow
<1>5. QED
  BY <1>2, <1>3, <1>4

-----------------------------------------------------------------------------
(* The questions about repeated items *)

\* Arriving at a screen makes the merge screen the target of the banner only
\* when it is the screen shown, and an unorganized working screen shows the
\* lists.
LEMMA ArriveTarget ==
  ASSUME NEW s \in Screens, NEW confirmed \in BOOLEAN, NEW limit,
         Arrive(s, confirmed, limit)
  PROVE  /\ screen' = s
         /\ listScreen' = "requirement_merge" =>
              s = "requirement_merge" \/ listScreen = "requirement_merge"
         /\ s = "working" /\ ~confirmed => listScreen' = "lists"
  BY DEF Arrive, ProgressScreen, StageOf, Screens

LEMMA VisitMerging ==
  ASSUME Structure, Merging, NEW s \in Screens, Visit(s),
         s = "requirement_merge" /\ replacing = None =>
           ~organized /\ merge \in {"clear", "pending"}
  PROVE  Merging'
<1>1. Arrive(s, organized, 4) /\ organized \in BOOLEAN
  BY DEF Visit, GoTo, Structure, TypeOK
<1>2. UNCHANGED <<replacing, organized, merge, extrReady, extracted, unmerged>>
  BY DEF Visit, saved, readings, progress
<1>3. /\ screen' = s
      /\ listScreen' = "requirement_merge" =>
           s = "requirement_merge" \/ listScreen = "requirement_merge"
      /\ s = "working" /\ ~organized => listScreen' = "lists"
  BY <1>1, ArriveTarget
<1>4. ReadingsMerged'
  BY <1>2 DEF Merging, ReadingsMerged, Present
<1>5. MergeScreenEarly'
  BY <1>2, <1>3 DEF Merging, MergeScreenEarly
<1>6. QED
  BY <1>4, <1>5 DEF Merging

LEMMA MovesMerging ==
  ASSUME Structure, Merging, Flow,
         \/ \E s \in 1..4 : Banner(s)
         \/ BackToSetup \/ SectionsToStudents \/ SectionsBack
         \/ AskSections \/ AskMerge \/ AskReview \/ RouteResult
         \/ ReturnToLists \/ ReviewBack \/ BackToCart
  PROVE  Merging'
<1>1. CASE \E s \in 1..4 : Banner(s)
  <2>1. PICK n \in 1..4 : Banner(n)
    BY <1>1
  <2>2. PICK s \in {"intake", "review", "working", listScreen} : Visit(s)
    BY <2>1 DEF Banner
  <2>3. s \in Screens
    BY DEF Structure, TypeOK, Screens
  <2>4. s = "requirement_merge" /\ replacing = None =>
          ~organized /\ merge \in {"clear", "pending"}
    BY <2>2 DEF Merging, MergeScreenEarly
  <2>5. QED
    BY <2>2, <2>3, <2>4, VisitMerging
<1>2. CASE AskMerge
  <2>1. Visit("requirement_merge") /\ merge = "pending"
        /\ "requirement_merge" \in Screens
    BY <1>2 DEF AskMerge, Screens
  <2>2. replacing = None => ~organized
    BY <2>1 DEF Flow, OrganizedIsConfirmed
  <2>3. QED
    BY <2>1, <2>2, VisitMerging
<1>3. CASE \/ BackToSetup \/ SectionsToStudents \/ SectionsBack
           \/ AskSections \/ AskReview \/ RouteResult
           \/ ReturnToLists \/ ReviewBack \/ BackToCart
  <2>1. PICK s \in {"intake", "lists", "sections", "review", "plan"} : Visit(s)
    BY <1>3 DEF BackToSetup, SectionsToStudents, SectionsBack, AskSections,
                AskReview, RouteResult, ReturnToLists, ReviewBack, BackToCart
  <2>2. s \in Screens /\ s # "requirement_merge"
    BY DEF Screens
  <2>3. QED
    BY <2>1, <2>2, VisitMerging
<1>4. QED
  BY <1>1, <1>2, <1>3

LEMMA SetupMerging ==
  ASSUME Structure, Merging,
         \/ \E n \in Child : SetCount(n)
         \/ \E c \in Child, e \in Entry : EditEntry(c, e)
         \/ ChangeBudgetMode \/ ContinueFromPreferences
  PROVE  Merging'
<1>1. /\ "intake" \in Screens /\ "lists" \in Screens
      /\ FALSE \in BOOLEAN /\ organized \in BOOLEAN
      /\ unmerged \in [Child -> Reading \cup {None}]
      /\ extracted \in [Child -> Reading \cup {None}]
  BY DEF Screens, Structure, TypeOK
<1>2. ASSUME NEW n \in Child, SetCount(n)
      PROVE  Merging'
  <2> DEFINE gone == (n + 1)..count
  <2>1. /\ unmerged' = Without(unmerged, gone)
        /\ extracted' = Without(extracted, gone)
        /\ UNCHANGED <<replacing, extrReady, merge>>
    BY <1>2 DEF SetCount, DropReadings
  <2>2. /\ Present(unmerged') = Present(unmerged) \ gone
        /\ Present(extracted') = Present(extracted) \ gone
    BY <1>1, <2>1, WithoutFacts
  <2>3. ReadingsMerged'
    BY <2>1, <2>2 DEF Merging, ReadingsMerged
  <2>4. screen = "intake" /\ screen' = "intake"
        /\ (listScreen' = "requirement_merge" =>
               listScreen = "requirement_merge")
        /\ (organized' => organized)
    <3>1. CASE gone = {}
      BY <1>2, <3>1 DEF SetCount, nav
    <3>2. CASE gone # {}
      <4>1. Arrive("intake", FALSE, 1) /\ ~organized' /\ screen = "intake"
        BY <1>2, <3>2 DEF SetCount
      <4>2. QED
        BY <1>1, <4>1, ArriveTarget
    <3>3. QED
      BY <3>1, <3>2
  <2>5. MergeScreenEarly'
    BY <2>1, <2>4 DEF Merging, MergeScreenEarly
  <2>6. QED
    BY <2>3, <2>5 DEF Merging
<1>3. ASSUME NEW c \in Child, NEW e \in Entry, EditEntry(c, e)
      PROVE  Merging'
  <2>1. CASE selections[c] = None
    BY <1>3, <2>1 DEF EditEntry, nav, saved, layout, readings, progress,
       Merging, ReadingsMerged, MergeScreenEarly, Present
  <2>2. CASE selections[c] # None
    BY <1>3, <2>2 DEF EditEntry, StartOver, Arrive, Merging, ReadingsMerged,
       MergeScreenEarly
  <2>3. QED
    BY <2>1, <2>2
<1>4. ASSUME ChangeBudgetMode \/ ContinueFromPreferences
      PROVE  Merging'
  <2>1. UNCHANGED <<replacing, organized, merge, extrReady, extracted,
                    unmerged>>
    BY <1>4 DEF ChangeBudgetMode, ContinueFromPreferences, saved, readings
  <2>2. PICK s \in {"intake", "lists"} : Arrive(s, organized, 3)
    BY <1>4 DEF ChangeBudgetMode, ContinueFromPreferences
  <2>3. screen' = s /\ (listScreen' = "requirement_merge" =>
                          listScreen = "requirement_merge")
    BY <1>1, <2>2, ArriveTarget
  <2>4. QED
    BY <2>1, <2>3 DEF Merging, ReadingsMerged, MergeScreenEarly, Present
<1>5. QED
  BY <1>2, <1>3, <1>4

LEMMA ListsMerging ==
  ASSUME Structure, Merging,
         \/ OrganizeAll \/ OrganizeReplacement \/ Rebuild \/ SubmitSections
         \/ \E c \in Child : ReplaceUpload(c)
  PROVE  Merging'
<1>1. CASE OrganizeAll \/ OrganizeReplacement \/ Rebuild \/ SubmitSections
  <2>1. Arrive("working", FALSE, 2) /\ ~organized'
    BY <1>1 DEF OrganizeAll, OrganizeReplacement, Rebuild, SubmitSections,
                StartOver
  <2>2. screen' = "working" /\ listScreen' = "lists"
    BY <2>1, ArriveTarget DEF Screens
  <2>3. MergeScreenEarly'
    BY <2>2 DEF MergeScreenEarly
  <2>4. \/ ~extrReady'
        \/ UNCHANGED <<extrReady, merge, extracted, unmerged>>
    BY <1>1 DEF OrganizeAll, OrganizeReplacement, Rebuild, SubmitSections,
                StartOver, readings
  <2>5. ReadingsMerged'
    BY <2>4 DEF Merging, ReadingsMerged, Present
  <2>6. QED
    BY <2>3, <2>5 DEF Merging
<1>2. CASE \E c \in Child : ReplaceUpload(c)
  <2>1. PICK c \in Child : ReplaceUpload(c)
    BY <1>2
  <2>2. replacing' # None /\ ~extrReady' /\ screen' = "lists"
    BY <2>1, WorkflowConstants DEF ReplaceUpload, StartOver, Arrive
  <2>3. QED
    BY <2>2 DEF Merging, ReadingsMerged, MergeScreenEarly
<1>3. QED
  BY <1>1, <1>2

LEMMA WorkingMerging ==
  ASSUME Structure, Merging, Inspect \/ Extract \/ ConfirmIdentity \/ Build
  PROVE  Merging'
<1>1. CASE Inspect \/ ConfirmIdentity \/ Build
  <2>1. UNCHANGED <<screen, listScreen, replacing, organized, merge, extrReady,
                    extracted, unmerged>>
    BY <1>1 DEF Inspect, ConfirmIdentity, Build, nav, saved, readings, progress
  <2>2. QED
    BY <2>1 DEF Merging, ReadingsMerged, MergeScreenEarly, Present
<1>2. CASE Extract
  <2>1. /\ screen = "working" /\ merge' # "clear"
        /\ extracted' = Unreviewed(unmerged')
        /\ UNCHANGED <<screen, listScreen, replacing, organized>>
    BY <1>2 DEF Extract, Working, nav, saved
  <2>2. MergeScreenEarly'
    BY <2>1 DEF Merging, MergeScreenEarly
  <2>3. Present(extracted') = Present(unmerged')
    <3>1. PICK c : c \in Child
      BY WorkflowConstants DEF Child
    <3>2. unmerged' \in [Child -> Reading \cup {None}]
      BY <1>2, StructureStep DEF Next, Automatic, Structure, TypeOK
    <3>3. QED
      BY <2>1, <3>1, <3>2, MarkFacts
  <2>4. QED
    BY <2>1, <2>2, <2>3 DEF Merging, ReadingsMerged
<1>3. QED
  BY <1>1, <1>2

LEMMA ReviewMerging ==
  ASSUME Structure, Merging, Flow,
         MergeSubmit \/ MergeNotNeeded \/ ReviewConfirm
  PROVE  Merging'
<1>1. /\ "working" \in Screens /\ organized \in BOOLEAN /\ TRUE \in BOOLEAN
      /\ unmerged \in [Child -> Reading \cup {None}]
      /\ extracted \in [Child -> Reading \cup {None}]
  BY DEF Screens, Structure, TypeOK
<1>2. CASE MergeSubmit \/ MergeNotNeeded
  <2>1. /\ screen = "requirement_merge" /\ merge' # "clear"
        /\ Arrive("working", organized, 4)
        /\ UNCHANGED <<replacing, organized, extrReady, unmerged>>
    BY <1>2 DEF MergeSubmit, MergeNotNeeded, GoTo, saved, readings
  <2>2. screen' = "working" /\ (~organized => listScreen' = "lists")
    BY <1>1, <2>1, ArriveTarget
  <2>3. MergeScreenEarly'
    BY <2>1, <2>2 DEF Merging, MergeScreenEarly
  <2>4. \/ extracted' = Unreviewed(unmerged)
        \/ extracted' = extracted
    BY <1>2 DEF MergeSubmit, MergeNotNeeded, readings
  <2>5. ReadingsMerged'
    <3>1. PICK c : c \in Child
      BY WorkflowConstants DEF Child
    <3>2. Present(Unreviewed(unmerged)) = Present(unmerged)
      BY <1>1, <3>1, MarkFacts
    <3>3. QED
      BY <2>1, <2>4, <3>2 DEF Merging, ReadingsMerged
  <2>6. QED
    BY <2>3, <2>5 DEF Merging
<1>3. CASE ReviewConfirm
  <2>1. /\ screen = "review" /\ organized' /\ Arrive("working", TRUE, 3)
        /\ UNCHANGED <<replacing, extrReady, merge, unmerged>>
    BY <1>3 DEF ReviewConfirm, saved
  <2>2. replacing = None => merge \notin {"clear", "pending"}
    BY <2>1 DEF Flow, LateScreensReached, ReachedStagesStand, Merging,
                ReadingsMerged
  <2>3. screen' = "working" /\ (listScreen' = "requirement_merge" =>
                                  listScreen = "requirement_merge")
    BY <1>1, <2>1, ArriveTarget
  <2>4. MergeScreenEarly'
    BY <2>1, <2>2, <2>3 DEF Merging, MergeScreenEarly
  <2>5. ReadingsMerged'
    BY <1>1, <1>3, <2>1, ConfirmKeepsReadings DEF Merging, ReadingsMerged
  <2>6. QED
    BY <2>4, <2>5 DEF Merging
<1>4. QED
  BY <1>2, <1>3

THEOREM MergingStep ==
  ASSUME IInv, [Next]_vars
  PROVE  Merging'
<1>1. Structure /\ Merging /\ Flow
  BY DEF IInv
<1>2. CASE Automatic
  BY <1>1, <1>2, MovesMerging, WorkingMerging, ReviewMerging DEF Automatic
<1>3. CASE Parent
  BY <1>1, <1>3, MovesMerging, SetupMerging, ListsMerging, WorkingMerging,
     ReviewMerging DEF Parent
<1>4. CASE UNCHANGED vars
  BY <1>1, <1>4 DEF vars, nav, saved, readings, progress, Merging,
     ReadingsMerged, MergeScreenEarly, Present
<1>5. QED
  BY <1>2, <1>3, <1>4 DEF Next

THEOREM FlowStep ==
  ASSUME IInv, [Next]_vars
  PROVE  Flow'
<1>1. Structure /\ Merging /\ Flow
  BY DEF IInv
<1>2. CASE Automatic
  BY <1>1, <1>2, MovesFlow, WorkingFlow, ReviewFlow DEF Automatic
<1>3. CASE Parent
  BY <1>1, <1>3, MovesFlow, SetupFlow, ListsFlow, WorkingFlow, ReviewFlow
     DEF Parent
<1>4. CASE UNCHANGED vars
  BY <1>1, <1>4 DEF vars, nav, setup, saved, layout, readings, progress, Flow,
     PlanIsCurrent, ReachedStagesStand, OrganizedIsConfirmed,
     LateScreensReached, Known, Present
<1>5. QED
  BY <1>2, <1>3, <1>4 DEF Next

THEOREM InductiveInvariant == Spec => []IInv
<1>1. Init => IInv
  <2>1. Init => Flow
    BY DEF Init, Flow, PlanIsCurrent, ReachedStagesStand,
           OrganizedIsConfirmed, LateScreensReached
  <2>2. Init => Merging
    BY DEF Init, Merging, ReadingsMerged, MergeScreenEarly
  <2>3. QED
    BY <2>1, <2>2, StructureInit DEF IInv
<1>2. IInv /\ [Next]_vars => IInv'
  BY StructureStep, MergingStep, FlowStep DEF IInv
<1>3. QED
  BY <1>1, <1>2, PTL DEF Spec

\* A kept result is always the result of the lists, readings and errors that
\* are saved now: no edit, replacement or rebuild leaves an outdated plan.
THEOREM KeptPlanIsCurrent == Spec => []PlanIsCurrent
<1>1. IInv => PlanIsCurrent
  BY DEF IInv, Flow
<1>2. QED
  BY <1>1, InductiveInvariant, PTL

\* The banner never offers Personalize or the plan over lists still to be
\* read or merged, unless a list replacement is pending.
THEOREM ReachedStages == Spec => []ReachedStagesStand
<1>1. IInv => ReachedStagesStand
  BY DEF IInv, Flow
<1>2. QED
  BY <1>1, InductiveInvariant, PTL

\* FR-12 as far as the code keeps it: without a pending replacement a plan is
\* built only from confirmed readings.
THEOREM ConfirmedPlans == Spec => []ConfirmedUnlessReplacing
<1>1. IInv => ConfirmedUnlessReplacing
  BY DEF IInv, Flow, PlanIsCurrent, OrganizedIsConfirmed,
         ConfirmedUnlessReplacing
<1>2. QED
  BY <1>1, InductiveInvariant, PTL
-----------------------------------------------------------------------------
(* A plan reads the lists as they were last handed in *)

\* Every reading kept was made from the list the student has now.
AllFresh(f) == \A c \in Child : f[c] # None => f[c].fresh

\* The student whose list is replaced has no list and so no reading: what a
\* replacement marks as outdated is gone already.
ReadingsAreOfSavedLists ==
  /\ replacing # None => replacing \notin inputs
  /\ AllFresh(unmerged) /\ AllFresh(extracted)

\* What the actions do to a cache of readings leaves no outdated one.
LEMMA FreshFacts ==
  ASSUME NEW f \in [Child -> Reading \cup {None}], AllFresh(f), NEW S
  PROVE  AllFresh(Without(f, S)) /\ AllFresh(AllNone)
         /\ AllFresh(Unreviewed(f))
<1>1. AllFresh(Without(f, S)) /\ AllFresh(AllNone)
  BY DEF AllFresh, Without, AllNone
<1>2. ASSUME NEW c \in Child, Unreviewed(f)[c] # None
      PROVE  Unreviewed(f)[c].fresh
  <2>1. f[c] # None /\ Unreviewed(f)[c] = [f[c] EXCEPT !.reviewed = FALSE]
    BY <1>2 DEF Unreviewed
  <2>2. f[c] \in Reading /\ f[c].fresh
    BY <2>1 DEF AllFresh
  <2>3. f[c] = [sel |-> f[c].sel, scoped |-> f[c].scoped,
                fresh |-> f[c].fresh, reviewed |-> f[c].reviewed]
    BY <2>2 DEF Reading
  <2>4. [f[c] EXCEPT !.reviewed = FALSE].fresh = f[c].fresh
    BY <2>3
  <2>5. QED
    BY <2>1, <2>2, <2>4
<1>3. QED
  BY <1>1, <1>2 DEF AllFresh

\* No step reads an outdated list or keeps a reading of one.
LEMMA FreshStep ==
  ASSUME IInv, IInv', ReadingsAreOfSavedLists, [Next]_vars
  PROVE  ReadingsAreOfSavedLists'
<1>1. /\ unmerged \in [Child -> Reading \cup {None}]
      /\ extracted \in [Child -> Reading \cup {None}]
      /\ unmerged' \in [Child -> Reading \cup {None}]
      /\ inputs \subseteq Child /\ replacing \in Child \cup {None}
      /\ Present(unmerged) \subseteq inputs /\ Present(extracted) \subseteq inputs
  BY DEF IInv, Structure, TypeOK, NoOrphans
<1>2. /\ replacing # None => replacing \notin inputs
      /\ AllFresh(unmerged) /\ AllFresh(extracted)
  BY DEF ReadingsAreOfSavedLists
<1>3. AllFresh(AllNone) /\ AllFresh(Unreviewed(unmerged))
  BY <1>1, <1>2, FreshFacts
<1>4. ASSUME UNCHANGED <<saved, readings>>
      PROVE  ReadingsAreOfSavedLists'
  BY <1>2, <1>4 DEF saved, readings, ReadingsAreOfSavedLists, AllFresh
<1>5. ASSUME UNCHANGED saved,
             unmerged' = unmerged \/ unmerged' = AllNone,
             extracted' = extracted \/ extracted' = Unreviewed(unmerged)
      PROVE  ReadingsAreOfSavedLists'
  BY <1>2, <1>3, <1>5 DEF saved, ReadingsAreOfSavedLists, AllFresh
<1>6. ASSUME NEW S, inputs' = inputs \ S,
             replacing' = replacing \/ replacing' \in S,
             DropReadings(S)
      PROVE  ReadingsAreOfSavedLists'
  <2>1. AllFresh(Without(unmerged, S)) /\ AllFresh(Without(extracted, S))
    BY <1>1, <1>2, FreshFacts
  <2>2. replacing' # None => replacing' \notin inputs'
    BY <1>2, <1>6
  <2>3. QED
    BY <1>6, <2>1, <2>2 DEF ReadingsAreOfSavedLists, AllFresh, DropReadings
<1>7. CASE Automatic
  <2>1. CASE Inspect \/ AskSections \/ AskMerge \/ AskReview \/ Build
               \/ RouteResult \/ MergeNotNeeded
    BY <1>4, <2>1 DEF Inspect, AskSections, AskMerge, AskReview, Build,
       RouteResult, MergeNotNeeded, Visit, readings, saved
  <2>2. CASE Extract
    <3>1. PICK ok \in SUBSET Child : unmerged' = [c \in Child |->
                   IF c \in ok THEN ReadNow(c) ELSE unmerged[c]]
      BY <1>1, <2>2 DEF Extract
    <3>2. AllFresh(unmerged')
      BY <1>2, <3>1 DEF AllFresh, ReadNow
    <3>3. extracted' = Unreviewed(unmerged') /\ UNCHANGED saved
      BY <2>2 DEF Extract
    <3>4. AllFresh(Unreviewed(unmerged'))
      BY <1>1, <3>2, FreshFacts
    <3>5. QED
      BY <1>2, <3>2, <3>3, <3>4 DEF ReadingsAreOfSavedLists, saved, AllFresh
  <2>3. QED
    BY <1>7, <2>1, <2>2 DEF Automatic
<1>8. CASE Parent
  <2>1. CASE \/ \E s \in 1..4 : Banner(s)
             \/ ChangeBudgetMode \/ ContinueFromPreferences \/ Rebuild
             \/ BackToSetup \/ SectionsToStudents \/ SectionsBack
             \/ ConfirmIdentity \/ ReturnToLists \/ ReviewBack \/ BackToCart
    BY <1>4, <2>1 DEF Banner, ChangeBudgetMode, ContinueFromPreferences,
       Rebuild, BackToSetup, SectionsToStudents, SectionsBack,
       ConfirmIdentity, ReturnToLists, ReviewBack, BackToCart, Visit
  <2>2. ASSUME NEW n \in Child, SetCount(n)
        PROVE  ReadingsAreOfSavedLists'
    <3>1. /\ inputs' = inputs \ ((n + 1)..count)
          /\ DropReadings((n + 1)..count) /\ replacing' = replacing
      BY <2>2 DEF SetCount
    <3>2. QED
      BY <1>6, <3>1
  <2>3. ASSUME NEW c \in Child, NEW e \in Entry, EditEntry(c, e)
        PROVE  ReadingsAreOfSavedLists'
    <3>1. UNCHANGED saved /\ extracted' = extracted
          /\ (unmerged' = unmerged \/ unmerged' = AllNone)
      BY <2>3 DEF EditEntry, readings
    <3>2. QED
      BY <1>5, <3>1
  <2>4. CASE OrganizeAll
    BY <1>3, <2>4 DEF OrganizeAll, ReadingsAreOfSavedLists, AllFresh
  <2>5. CASE OrganizeReplacement
    <3>1. /\ replacing # None /\ replacing' = None
          /\ unmerged' = Outdated(unmerged, replacing)
          /\ extracted' = Outdated(extracted, replacing)
      BY <2>5 DEF OrganizeReplacement
    <3>2. unmerged[replacing] = None /\ extracted[replacing] = None
      BY <1>1, <1>2, <3>1 DEF Present
    <3>3. unmerged' = unmerged /\ extracted' = extracted
      BY <3>1, <3>2 DEF Outdated
    <3>4. QED
      BY <1>2, <3>1, <3>3 DEF ReadingsAreOfSavedLists, AllFresh
  <2>6. CASE SubmitSections
    BY <1>5, <2>6 DEF SubmitSections
  <2>7. ASSUME NEW c \in Child, ReplaceUpload(c)
        PROVE  ReadingsAreOfSavedLists'
    <3>1. inputs' = inputs \ {c} /\ replacing' = c /\ DropReadings({c})
      BY <2>7 DEF ReplaceUpload
    <3>2. QED
      BY <1>6, <3>1
  <2>8. CASE MergeSubmit
    BY <1>5, <2>8 DEF MergeSubmit
  <2>9. CASE ReviewConfirm
    <3>1. /\ UNCHANGED <<saved, unmerged>>
          /\ extracted' = [c \in Child |->
               IF extracted[c] = None THEN None
               ELSE [extracted[c] EXCEPT !.reviewed = TRUE]]
      BY <2>9 DEF ReviewConfirm
    <3>2. ASSUME NEW c \in Child, extracted'[c] # None
          PROVE  extracted'[c].fresh
      <4>1. extracted[c] # None
            /\ extracted'[c] = [extracted[c] EXCEPT !.reviewed = TRUE]
        BY <3>1, <3>2
      <4>2. extracted[c] \in Reading /\ extracted[c].fresh
        BY <1>1, <1>2, <4>1 DEF AllFresh
      <4>3. extracted[c] = [sel |-> extracted[c].sel,
                            scoped |-> extracted[c].scoped,
                            fresh |-> extracted[c].fresh,
                            reviewed |-> extracted[c].reviewed]
        BY <4>2 DEF Reading
      <4>4. [extracted[c] EXCEPT !.reviewed = TRUE].fresh = extracted[c].fresh
        BY <4>3
      <4>5. QED
        BY <4>1, <4>2, <4>4
    <3>3. QED
      BY <1>2, <3>1, <3>2 DEF ReadingsAreOfSavedLists, saved, AllFresh
  <2>10. QED
    BY <1>8, <2>1, <2>2, <2>3, <2>4, <2>5, <2>6, <2>7, <2>8, <2>9 DEF Parent
<1>9. CASE UNCHANGED vars
  BY <1>4, <1>9 DEF vars
<1>10. QED
  BY <1>7, <1>8, <1>9 DEF Next

\* Whatever was replaced, removed, added again or chosen anew, a plan reads
\* only lists that are saved, each as it was last handed in.
THEOREM PlansReadSavedLists == Spec => []PlanReadsSavedLists
<1>1. Init => ReadingsAreOfSavedLists
  BY DEF Init, ReadingsAreOfSavedLists, AllFresh, AllNone
<1>2. IInv /\ IInv' /\ ReadingsAreOfSavedLists /\ [Next]_vars
        => ReadingsAreOfSavedLists'
  BY FreshStep
<1>3. IInv /\ ReadingsAreOfSavedLists => PlanReadsSavedLists
  <2>1. ASSUME IInv, ReadingsAreOfSavedLists, plan # None, NEW c \in plan
        PROVE  c \in inputs /\ extracted[c].fresh
    <3>1. c \in Present(extracted) /\ Present(extracted) \subseteq inputs
      BY <2>1 DEF IInv, Flow, PlanIsCurrent, Structure, NoOrphans
    <3>2. QED
      BY <2>1, <3>1 DEF ReadingsAreOfSavedLists, AllFresh, Present
  <2>2. QED
    BY <2>1 DEF PlanReadsSavedLists
<1>4. QED
  BY <1>1, <1>2, <1>3, InductiveInvariant, PTL DEF Spec
=============================================================================
