---------------------------- MODULE ListWorkflow ----------------------------
(***************************************************************************)
(* The session workflow of app.py from the setup screens to a built        *)
(* shopping plan: which screen is shown, which stages the banner offers,   *)
(* which caches of the supply lists are kept, and what every parent edit   *)
(* invalidates.                                                            *)
(*                                                                         *)
(* Children are the positions 1..MaxChild of the setup form.  `draft' is   *)
(* what the setup widgets hold, `intake' what _continue_from_preferences   *)
(* last committed.  A document is abstracted to its Form, what the         *)
(* structure inspection reports of it; a reading of a document to the      *)
(* grade its section choice was made for and to three facts: whether the   *)
(* classroom question had been answered, whether it was read from the list *)
(* the child has now, and whether the parent confirmed it.                 *)
(***************************************************************************)
EXTENDS Integers, FiniteSets

CONSTANTS MaxChild,    \* MAX_CHILDREN_PER_SESSION
          Grade,       \* the grades a parent may choose
          Kind,        \* the entry types on offer: "student", "classroom"
          Form,        \* inspection reports: [grades, asks]
          Whole,       \* the section choice of a reading of a whole document
          None         \* no value

Child == 1..MaxChild

\* A report names the grades of the document's sections; `asks' holds when
\* several sections, or sections without a grade, need the parent's choice.
ASSUME WorkflowConstants ==
  /\ MaxChild \in Nat \ {0}
  /\ Kind \subseteq {"student", "classroom"}
  /\ \A f \in Form : /\ DOMAIN f = {"grades", "asks"}
                     /\ f.asks \in BOOLEAN
  /\ Whole \notin Grade
  /\ None \notin Grade \cup {Whole} \cup Form \cup [kind : Kind, grade : Grade]
           \cup [sel : Grade \cup {Whole}, scoped : BOOLEAN,
                 fresh : BOOLEAN, reviewed : BOOLEAN]
           \cup Child

Entry   == [kind : Kind, grade : Grade]
Reading == [sel : Grade \cup {Whole}, scoped : BOOLEAN,
            fresh : BOOLEAN, reviewed : BOOLEAN]

Screens == {"intake", "lists", "working", "sections",
            "requirement_merge", "review", "plan"}

VARIABLES
  screen,      \* "plan" stands for the approval and summary screens
  maxStage,    \* max_stage_reached
  listScreen,  \* journey_stage_screen_2
  count, draft, intake,
  inputs,      \* the children with a saved list (list_inputs)
  replacing,   \* replace_list_child_id
  structures, selections, scopes, structErr, structReady,
  unmerged, extracted, extrErr, extrReady,
  merge,       \* requirement_merge_result and requirement_merge_resolved
  identityOk, organized,
  plan         \* the children whose lists the result read, or None

nav      == <<screen, maxStage, listScreen>>
setup    == <<count, draft, intake>>
saved    == <<inputs, replacing>>
layout   == <<structures, selections, scopes, structErr, structReady>>
readings == <<unmerged, extracted, extrErr, extrReady>>
progress == <<merge, identityOk, organized, plan>>
vars     == <<nav, setup, saved, layout, readings, progress>>

AllNone  == [c \in Child |-> None]
NoChild  == {}
Known    == {c \in Child : intake[c] # None}
Present(f) == {c \in Child : f[c] # None}
Without(f, S) == [c \in Child |-> IF c \in S THEN None ELSE f[c]]

-----------------------------------------------------------------------------
(* Screens, stages and the banner *)

\* SCREEN_PHASES, with the substitution main makes for an unconfirmed list.
ProgressScreen(s, confirmed) ==
  IF s = "working" /\ ~confirmed THEN "lists" ELSE s

StageOf(s) ==
  CASE s = "intake"                                     -> 1
    [] s \in {"lists", "sections", "requirement_merge"} -> 2
    [] s = "review"                                     -> 3
    [] OTHER                                            -> 4

Lower(a, b)  == IF a < b THEN a ELSE b
Higher(a, b) == IF a < b THEN b ELSE a

\* With a bug: a stage once reached is never taken back.
ArriveUnlimited(s, confirmed, limit) ==
  LET shown == ProgressScreen(s, confirmed)
  IN  /\ screen' = s
      /\ maxStage' = Higher(maxStage, StageOf(shown))
      /\ listScreen' = IF StageOf(shown) = 2 THEN shown ELSE listScreen

\* _limit_reached_stage(limit), the new screen, and the rerun that follows:
\* _screen_progress records the stage of the screen it draws.
Arrive(s, confirmed, limit) ==
  LET shown == ProgressScreen(s, confirmed)
  IN  /\ screen' = s
      /\ maxStage' = Higher(Lower(maxStage, limit), StageOf(shown))
      /\ listScreen' = IF StageOf(shown) = 2 THEN shown ELSE listScreen

GoTo(s) == Arrive(s, organized, 4)

\* A step that only changes the screen.
Visit(s) == GoTo(s) /\ UNCHANGED <<setup, saved, layout, readings, progress>>

Init ==
  /\ screen = "intake" /\ maxStage = 1 /\ listScreen = "lists"
  /\ count = 1 /\ draft = AllNone /\ intake = AllNone
  /\ inputs = NoChild /\ replacing = None
  /\ structures = AllNone /\ selections = AllNone /\ scopes = NoChild
  /\ structErr = NoChild /\ structReady = FALSE
  /\ unmerged = AllNone /\ extracted = AllNone
  /\ extrErr = NoChild /\ extrReady = FALSE
  /\ merge = "clear" /\ identityOk = FALSE /\ organized = FALSE
  /\ plan = None

\* A stage button of the banner.  Stage 4 is entered through "working": the
\* approval and summary screens go there when there is no result, and a kept
\* result leads from there to them.
Banner(stage) ==
  /\ stage <= maxStage
  /\ stage # StageOf(ProgressScreen(screen, organized))
  /\ Visit(CASE stage = 1 -> "intake"
            [] stage = 2 -> listScreen
            [] stage = 3 -> "review"
            [] stage = 4 -> "working")

-----------------------------------------------------------------------------
(* What an edit takes back *)

\* Everything known of the documents of the students in S.
DropLayouts(S) ==
  /\ structures' = Without(structures, S)
  /\ selections' = Without(selections, S)
  /\ scopes' = scopes \ S
  /\ structErr' = structErr \ S

\* With a bug: the readings before merging stay.
DropFinalReadings(S) ==
  /\ unmerged' = unmerged
  /\ extracted' = Without(extracted, S)
  /\ extrErr' = extrErr \ S

DropReadings(S) ==
  /\ unmerged' = Without(unmerged, S)
  /\ extracted' = Without(extracted, S)
  /\ extrErr' = extrErr \ S

\* With a bug: the plan stays.
StartOverKeepingPlan ==
  /\ extrReady' = FALSE /\ merge' = "clear" /\ organized' = FALSE
  /\ UNCHANGED plan

\* With a bug: the lists still count as confirmed.
StartOverKeepingConfirmation ==
  /\ extrReady' = FALSE /\ merge' = "clear"
  /\ plan' = None
  /\ UNCHANGED organized

\* The lists are to be read, merged and confirmed again; _invalidate_plan_state.
StartOver ==
  /\ extrReady' = FALSE /\ merge' = "clear" /\ organized' = FALSE
  /\ plan' = None

-----------------------------------------------------------------------------
(* Your students *)

\* The number of entries.  A removed entry takes its list, its caches and
\* everything built from them along.
SetCount(n) ==
  LET gone == (n + 1)..count
  IN  /\ screen = "intake" /\ n # count
      /\ count' = n
      /\ draft' = Without(draft, gone)
      /\ intake' = Without(intake, gone)
      /\ inputs' = inputs \ gone
      /\ DropLayouts(gone) /\ DropReadings(gone)
      /\ IF gone = {}
         THEN UNCHANGED <<nav, organized, plan>>
         ELSE /\ Arrive("intake", FALSE, 1)
              /\ organized' = FALSE /\ plan' = None
      /\ UNCHANGED <<replacing, structReady, extrReady, merge, identityOk>>

\* An entry's type or grade is chosen anew (a new type asks for the grade
\* again).  The section choice made for the old grade is dropped with what
\* was read through it.
EditEntry(c, e) ==
  /\ screen = "intake" /\ c <= count /\ draft[c] # e
  /\ draft' = [draft EXCEPT ![c] = e]
  /\ IF selections[c] = None
     THEN UNCHANGED <<nav, layout, readings, progress>>
     ELSE /\ selections' = Without(selections, {c})
          /\ unmerged' = AllNone
          /\ StartOver
          /\ Arrive("intake", FALSE, 2)
          /\ UNCHANGED <<structures, scopes, structErr, structReady,
                         extracted, extrErr, identityOk>>
  /\ UNCHANGED <<count, intake, saved>>

DraftComplete == \A c \in 1..count : draft[c] # None

\* Another kind of budget on the budget step.
ChangeBudgetMode ==
  /\ screen = "intake" /\ DraftComplete
  /\ plan' = None
  /\ Arrive("intake", organized, 3)
  /\ UNCHANGED <<setup, saved, layout, readings, merge, identityOk, organized>>

\* The last setup step commits the drafts and opens the lists.
ContinueFromPreferences ==
  /\ screen = "intake" /\ DraftComplete
  /\ intake' = draft
  /\ plan' = None /\ identityOk' = FALSE
  /\ Arrive("lists", organized, 3)
  /\ UNCHANGED <<count, draft, saved, layout, readings, merge, organized>>

-----------------------------------------------------------------------------
(* Their lists *)

\* "Organize my list" with an entry for every student.
OrganizeAll ==
  /\ screen = "lists" /\ replacing = None
  /\ inputs' = Known
  /\ structures' = AllNone /\ selections' = AllNone /\ scopes' = NoChild
  /\ structErr' = NoChild /\ structReady' = FALSE
  /\ unmerged' = AllNone /\ extracted' = AllNone
  /\ extrErr' = NoChild /\ identityOk' = FALSE
  /\ StartOver
  /\ Arrive("working", FALSE, 2)
  /\ UNCHANGED <<setup, replacing>>

Outdated(f, c) ==
  IF f[c] = None THEN f ELSE [f EXCEPT ![c].fresh = FALSE]

\* "Organize my list" when one student's list is being replaced: every other
\* student must still have a list, and keeps what was learnt from it.
OrganizeReplacement ==
  /\ screen = "lists" /\ replacing # None
  /\ replacing \in Known /\ Known \ {replacing} \subseteq inputs
  /\ inputs' = Known
  /\ unmerged' = Outdated(unmerged, replacing)
  /\ extracted' = Outdated(extracted, replacing)
  /\ replacing' = None
  /\ structReady' = FALSE /\ identityOk' = FALSE
  /\ StartOver
  /\ Arrive("working", FALSE, 2)
  /\ UNCHANGED <<setup, structures, selections, scopes, structErr, extrErr>>

\* "Rebuild using the saved entries": the layouts are inspected again, what
\* was read from the lists is kept.
Rebuild ==
  /\ screen = "lists" /\ replacing = None
  /\ inputs # NoChild /\ inputs = Known
  /\ structures' = AllNone /\ selections' = AllNone
  /\ structErr' = NoChild /\ structReady' = FALSE
  /\ identityOk' = FALSE /\ organized' = FALSE /\ plan' = None
  /\ Arrive("working", FALSE, 2)
  /\ UNCHANGED <<setup, saved, scopes, readings, merge>>

BackToSetup ==
  /\ screen = "lists"
  /\ Visit("intake")

-----------------------------------------------------------------------------
(* Choosing the part of a document *)

NamesGrade(c) == structures[c] # None /\ structures[c].grades # {}
Mismatch(c)   == NamesGrade(c) /\ intake[c].grade \notin structures[c].grades

\* section_resolution_needs_parent_screen, and its complement for a match.
NeedsParent(f, g) == f.grades # {} /\ (g \notin f.grades \/ f.asks)
AutoSelects(f, g) == g \in f.grades /\ ~f.asks

NeedsSectionScreen ==
  \E c \in Present(structures) :
     \/ NeedsParent(structures[c], intake[c].grade) /\ selections[c] = None
     \/ intake[c].kind = "classroom" /\ c \notin scopes

\* "Continue with these sections": the parent has resolved every document
\* that names a grade, and answered for every classroom.
SubmitSections ==
  /\ screen = "sections" /\ NeedsSectionScreen
  /\ selections' = [c \in Child |->
       IF NamesGrade(c) THEN intake[c].grade ELSE selections[c]]
  /\ scopes' = scopes \cup
       {c \in Present(structures) : intake[c].kind = "classroom"}
  /\ unmerged' = AllNone
  /\ StartOver
  /\ Arrive("working", FALSE, 2)
  /\ UNCHANGED <<setup, saved, structures, structErr, structReady,
                 extracted, extrErr, identityOk>>

\* "Upload another list": everything learnt from this student's list goes,
\* the lists screen will ask for this student only.  A document without a
\* section in its source language is refused here too; it is counted among
\* those for a grade of no student, of which a section may be chosen as well.
ReplaceUpload(c) ==
  /\ screen = "sections" /\ NeedsSectionScreen /\ Mismatch(c)
  /\ replacing' = c
  /\ inputs' = inputs \ {c}
  /\ DropLayouts({c}) /\ DropReadings({c})
  /\ structReady' = FALSE /\ identityOk' = FALSE
  /\ StartOver
  /\ Arrive("lists", FALSE, 4)
  /\ UNCHANGED setup

\* "Go to Your students to remove ..."
SectionsToStudents ==
  /\ screen = "sections" /\ NeedsSectionScreen /\ \E c \in Child : Mismatch(c)
  /\ Visit("intake")

\* The screen is left at once when nothing needs it any more; it is never
\* entered like that (AlwaysBackToParent would fail there), so no action.
SectionsBack ==
  /\ screen = "sections" /\ NeedsSectionScreen
  /\ Visit("lists")

-----------------------------------------------------------------------------
(* The working screen: one phase per action, as far as its caches require *)

Working == screen = "working" /\ inputs # NoChild /\ plan = None

\* The layouts of the lists without one are inspected; errors accumulate.
Inspect ==
  /\ Working /\ ~structReady
  /\ LET pending == inputs \ Present(structures)
     IN  \E ok \in SUBSET pending : \E report \in [ok -> Form] :
           /\ structures' = [c \in Child |->
                IF c \in ok THEN report[c] ELSE structures[c]]
           /\ selections' = [c \in Child |->
                IF c \in ok /\ AutoSelects(report[c], intake[c].grade)
                THEN intake[c].grade ELSE selections[c]]
           /\ structErr' = inputs \cap (structErr \cup (pending \ ok))
  /\ structReady' = TRUE
  /\ UNCHANGED <<nav, setup, saved, scopes, readings, progress>>

AskSections ==
  /\ Working /\ structReady /\ NeedsSectionScreen
  /\ Visit("sections")

ReadNow(c) == [sel      |-> IF selections[c] = None THEN Whole
                            ELSE selections[c],
               scoped   |-> c \in scopes,
               fresh    |-> TRUE,
               reviewed |-> FALSE]

Unreviewed(f) ==
  [c \in Child |-> IF f[c] = None THEN None
                   ELSE [f[c] EXCEPT !.reviewed = FALSE]]

\* The inspected lists without a reading are read; every reading is merged
\* anew, and repeated items may ask the parent for a decision.
Extract ==
  /\ Working /\ structReady /\ ~NeedsSectionScreen /\ ~extrReady
  /\ LET readable == (inputs \cap Present(structures)) \ Present(unmerged)
     IN  \E ok \in SUBSET readable :
           /\ unmerged' = [c \in Child |->
                IF c \in ok THEN ReadNow(c) ELSE unmerged[c]]
           /\ extrErr' = structErr \cup (extrErr \cap inputs)
                                   \cup (readable \ ok)
  /\ extracted' = Unreviewed(unmerged')
  /\ merge' \in IF Present(unmerged') = {} THEN {"settled"}
                ELSE {"pending", "settled"}
  /\ extrReady' = TRUE
  /\ UNCHANGED <<nav, setup, saved, layout, identityOk, organized, plan>>

Ready == Working /\ structReady /\ ~NeedsSectionScreen /\ extrReady

\* With a bug: repeated items that are settled are asked about again.
AskMergeAgain ==
  /\ Ready /\ merge # "clear"
  /\ Visit("requirement_merge")

AskMerge ==
  /\ Ready /\ merge = "pending"
  /\ Visit("requirement_merge")

\* A whole document whose stated grades do not match; without a layout the
\* reading itself may or may not state a grade.
MayWarn(c) ==
  /\ c \in Known \cap Present(extracted) /\ extracted[c].sel = Whole
  /\ structures[c] = None \/ Mismatch(c)
MustWarn(c) == MayWarn(c) /\ structures[c] # None

ConfirmIdentity ==
  /\ Ready /\ merge # "pending" /\ ~identityOk
  /\ \E c \in Child : MayWarn(c)
  /\ identityOk' = TRUE
  /\ UNCHANGED <<nav, setup, saved, layout, readings, merge, organized, plan>>

IdentityClear == identityOk \/ \A c \in Child : ~MustWarn(c)

AskReview ==
  /\ Ready /\ merge # "pending" /\ IdentityClear
  /\ Present(extracted) # {} /\ ~organized
  /\ Visit("review")

Buildable ==
  /\ Ready /\ merge # "pending" /\ IdentityClear
  /\ Present(extracted) # {} /\ organized

\* run_pipeline_from_confirmed_extractions: a recorded error wins over a
\* reading, a student without either is reported as failed.
Build ==
  /\ Buildable
  /\ plan' = (Known \cap Present(extracted)) \ extrErr
  /\ UNCHANGED <<nav, setup, saved, layout, readings, merge, identityOk,
                 organized>>

RouteResult ==
  /\ screen = "working" /\ inputs # NoChild /\ plan # None /\ plan # {}
  /\ Visit("plan")

\* Every stop of the working screen offers the way back to the lists: nothing
\* handed in, nothing readable, a warning, a failed build, no list in the
\* result.
StoppedAtWorking ==
  /\ screen = "working"
  /\ \/ inputs = NoChild
     \/ plan = {}
     \/ Ready /\ merge # "pending" /\ ~identityOk
              /\ \E c \in Child : MayWarn(c)
     \/ Ready /\ merge # "pending" /\ IdentityClear /\ Present(extracted) = {}
     \/ Buildable

ReturnToLists ==
  /\ StoppedAtWorking
  /\ Visit("lists")

-----------------------------------------------------------------------------
(* Repeated items, Personalize and the plan *)

\* "Continue with these choices".  The questions stay on record and the screen
\* can be entered and answered again, unless the items were all left out.
MergeSubmit ==
  /\ screen = "requirement_merge" /\ merge \in {"pending", "answered"}
  /\ extracted' = Unreviewed(unmerged)
  /\ merge' \in {"answered", "settled"}
  /\ GoTo("working")
  /\ UNCHANGED <<setup, saved, layout, unmerged, extrErr, extrReady,
                 identityOk, organized, plan>>

\* The screen was left with a decision to take that has gone since.
MergeNotNeeded ==
  /\ screen = "requirement_merge" /\ merge \in {"clear", "settled"}
  /\ merge' = "settled"
  /\ GoTo("working")
  /\ UNCHANGED <<setup, saved, layout, readings, identityOk, organized, plan>>

\* "Use these choices and build my shopping plan", with every required item
\* resolved.
ReviewConfirm ==
  /\ screen = "review" /\ Present(extracted) # {}
  /\ extracted' = [c \in Child |->
       IF extracted[c] = None THEN None
       ELSE [extracted[c] EXCEPT !.reviewed = TRUE]]
  /\ organized' = TRUE /\ plan' = None
  /\ Arrive("working", TRUE, 3)
  /\ UNCHANGED <<setup, saved, layout, unmerged, extrErr, extrReady,
                 merge, identityOk>>

\* "Back to lists", or no reading left to review.
ReviewBack ==
  /\ screen = "review"
  /\ Visit("lists")

BackToCart ==
  /\ screen = "plan"
  /\ Visit("review")

-----------------------------------------------------------------------------
\* The steps the app takes without the parent.
Automatic ==
  \/ Inspect \/ AskSections \/ Extract \/ AskMerge \/ AskReview \/ Build
  \/ RouteResult \/ MergeNotNeeded

Parent ==
  \/ \E s \in 1..4 : Banner(s)
  \/ \E n \in Child : SetCount(n)
  \/ \E c \in Child, e \in Entry : EditEntry(c, e)
  \/ ChangeBudgetMode \/ ContinueFromPreferences
  \/ OrganizeAll \/ OrganizeReplacement \/ Rebuild \/ BackToSetup
  \/ SubmitSections \/ SectionsToStudents \/ SectionsBack
  \/ \E c \in Child : ReplaceUpload(c)
  \/ ConfirmIdentity \/ ReturnToLists
  \/ MergeSubmit \/ ReviewConfirm \/ ReviewBack \/ BackToCart

Next == Automatic \/ Parent

Spec == Init /\ [][Next]_vars

\* Streamlit reruns the script after every change: what the app can do
\* without the parent it does.  A cart build may fail for ever.
FairSpec == Spec /\ WF_vars(Automatic /\ ~Build)

-----------------------------------------------------------------------------
(* Correctness *)

\* Every variable keeps its type.
TypeOK ==
  /\ screen \in Screens /\ maxStage \in 1..4
  /\ listScreen \in {"lists", "sections", "requirement_merge"}
  /\ count \in Child
  /\ draft \in [Child -> Entry \cup {None}]
  /\ intake \in [Child -> Entry \cup {None}]
  /\ inputs \subseteq Child /\ replacing \in Child \cup {None}
  /\ structures \in [Child -> Form \cup {None}]
  /\ selections \in [Child -> Grade \cup {None}]
  /\ scopes \subseteq Child
  /\ structErr \subseteq Child /\ extrErr \subseteq Child
  /\ structReady \in BOOLEAN /\ extrReady \in BOOLEAN
  /\ unmerged \in [Child -> Reading \cup {None}]
  /\ extracted \in [Child -> Reading \cup {None}]
  /\ merge \in {"clear", "pending", "answered", "settled"}
  /\ identityOk \in BOOLEAN /\ organized \in BOOLEAN
  /\ plan = None \/ plan \subseteq Child

\* No cache outlives its student or its list: the screens look the entry and
\* the saved list of every cached layout, choice and reading up by its key and
\* stop with a KeyError or StopIteration when there is none.
NoOrphans ==
  /\ inputs \subseteq Known /\ Known \subseteq Present(draft)
  /\ Present(structures) \subseteq inputs
  /\ Present(selections) \subseteq inputs
  /\ Present(unmerged) \subseteq inputs /\ Present(extracted) \subseteq inputs

\* A kept result is the result of what is saved now: the lists are organized
\* and read, and it holds exactly the readings without a recorded error.
PlanIsCurrent == plan # None =>
  /\ organized /\ structReady /\ extrReady /\ merge # "pending"
  /\ plan = (Known \cap Present(extracted)) \ extrErr

\* A plan reads a student's list as it was last handed in, never the list it
\* has replaced.
PlanReadsSavedLists == plan # None =>
  \A c \in plan : c \in inputs /\ extracted[c].fresh

\* As long as no replacement is pending, every list in a plan was confirmed on
\* the Personalize screen since it was read (FR-12).
ConfirmedUnlessReplacing == plan # None /\ replacing = None =>
  \A c \in plan : extracted[c].reviewed

\* Unless a replacement is pending, the banner offers Personalize and the plan
\* only over readings that are complete and merged.
ReachedStagesStand == maxStage >= 3 /\ replacing = None =>
  structReady /\ extrReady /\ merge # "pending" /\ Present(extracted) # {}

\* The parent has something to do: a screen with controls, or a stop of the
\* working screen.
ParentsTurn ==
  \/ screen \in {"intake", "lists", "review", "plan"}
  \/ screen = "sections" /\ NeedsSectionScreen
  \/ screen = "requirement_merge" /\ merge \in {"pending", "answered"}
  \/ StoppedAtWorking

\* The reruns always end: the screens never hand the session to one another
\* for ever, each finding that the other one is needed.
AlwaysBackToParent == []<>ParentsTurn

-----------------------------------------------------------------------------
(* What documents and comments of the repository say and the code does not  *)
(* keep: each is refuted by a run of its own.                                *)

\* "Build a plan only from user-confirmed extraction envelopes (FR-12)"
PlanOnlyFromConfirmedLists == plan # None =>
  \A c \in plan : extracted[c].reviewed

\* Lists that could not be organized "will not be read": a list that was read
\* is not reported as failed and left out of the plan.
NoReadListIsDropped == plan # None => Present(extracted) \cap extrErr = {}

\* BR-62: a plan uses the section matching the student's grade, or the one
\* the parent resolved for that grade.
PlanReadsTheStudentsGrade == plan # None =>
  \A c \in plan : extracted[c].sel \in {Whole, intake[c].grade}

\* BR-62 and the notice "choose the matching part of the supply list again":
\* a document that names grades is not read as a whole.
GradedListsAreReadBySection ==
  [][\A c \in Child : unmerged[c] = None /\ unmerged'[c] # None
                      /\ NamesGrade(c) => unmerged'[c].sel # Whole]_vars

\* "Paste or upload the list for each student": the lists screen has an entry
\* field for every student without a list.
EveryListCanBeSupplied == screen = "lists" /\ replacing # None =>
  replacing \in Known /\ Known \ {replacing} \subseteq inputs
=============================================================================
