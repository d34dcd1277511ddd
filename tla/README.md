# Verification of school-list-to-cart

The repository is a Streamlit program: `app.py` keeps one parent's session and
draws one screen at a time; the package `agent/` reads supply lists with a model,
merges and checks what it read, matches it against a catalog and builds the
cheapest shopping plan. This directory holds TLA+ modules translated from that
code, TLC configurations that check them on small instances, and proofs that
TLAPS checks for every instance.

## 1. Inventory

| Part | State it keeps | Operations | Interacts with | Correct when | Here |
| --- | --- | --- | --- | --- | --- |
| Lists workflow (`app.py`: setup, lists, sections, Personalize gate; `agent/sections.py`) | `screen`, `max_stage_reached`, `journey_stage_screen_2`, drafts and `intake`, `list_inputs`, layouts, section choices, readings, errors, merge result, confirmations, `result` | one per button and per phase of the working screen | reads lists through the extraction pool, hands confirmed envelopes to the pipeline | no cache outlives what it was made from; a plan is made of current, confirmed readings; the screens always return to the parent | `ListWorkflow` |
| Extraction pool (`agent/pipeline.py` 458-516, `app.py` 7024-7180) | tasks, threads, results, errors by child, progress count | submit, complete, fail, sequential fallback | calls `agent/extract.py`, reports progress to the screen | every list ends read or reported; only failed lists are repeated; it ends | `ReadingPool`, `ListReading` |
| Repeated items (`agent/requirement_merge.py`, `app.py` 12560-13260) | the controls of the merge screen, `requirement_merge_result`, `extracted_lists` | grouping by identity and section, defaults, variants; box, radio and numbers; merging once more in the pipeline | between reading and Personalize; called again by `run_pipeline` | no list line disappears; what the parent confirmed is what is bought | `RequirementMerge`, `MergeScreen` |
| Personalize (`agent/review.py`, `app.py` 8370-9176 and 13280-14100) | `review_items`, fingerprints, groups accepted and edited, parent-added items, controls that are kept | refresh after a new reading, edit, accept a group or all, add, submit, return | replaces `extracted_lists` by what was reviewed | a decision survives exactly as long as its line does; nothing required vanishes | `ReviewRows`, `PersonalizeReview` |
| Normalizing, aggregating (`agent/normalize.py`, `agent/aggregate.py`) | none (pure) | units, identities, brands and exclusions of several lines in one need, shares of the children | first step of the pipeline | every line is in one need, every child gets its units | `ShoppingNeeds`, `Matching` |
| Matching (`agent/match.py`) | none; a thread pool for batches of pairs | prefilter, batches, judgments, repetition of an invalid answer, substitution class | asks the model, hands candidates to the optimizer | what is bought was judged; a silent batch refuses nothing; it ends | `Matching` |
| Optimizer (`agent/optimize.py`) | none, but the memo of one search | package selection, orders, fees, tax, shares, store search, shopping modes, second trip | called by the pipeline for every candidate cart | the cart is the cheapest its mode allows; cents and units add up | `PackageSelection`, `CartCosts`, `StorePlans`, `StoreSearch`, `ShoppingModes`, `CartBuilding` |
| Consolidation (`agent/consolidate.py`) | none (pure) | merge needs whose only selected line is one product | after the optimizer, which is called again | every unit still reaches its child, nothing is lost | `Consolidation`, `CartBuilding` |
| Approval gate (`agent/gate.py`, `agent/approval_options.py`) | none (pure) | questions, joining and grouping, the price of a removal, options | its question ids key the saved answers | every difference from the list is asked about | `ApprovalGate`, `BudgetChoices`, `DecisionMaking` |
| Budget plans (`agent/budget_plans.py`) | none (pure) | actions, combinations that fit, the recommended one | the approval screen | the recommended plan leaves out the fewest | `BudgetChoices`, `DecisionMaking` |
| Add-ons (`agent/addons.py`) | the ticked items | feasible selections after the plan | the summary screen | they push nothing out, stay in the budget, and are in what is checked out | `BudgetChoices`, `DecisionMaking`, `PlanWorkflow` |
| Plan workflow (`app.py`: approval, summary, replans, checkout) | `result`, `approval_outcomes`, `stockout_skus`, `price_overrides`, `replan_omitted_source_ids`, `replan_forced_skus`, `addon_evaluation`, `checkout_confirmation` | save decisions, stockout, price change, ticks, checkout, return to the questions, back to cart | `replan_after_catalog_change`, `detect_cart_staleness`, add-ons | what is shown is in stock, at present prices, fully answered and as the parent answered | `PlanWorkflow` |
| Store scope (`agent/store_scope.py`), rules (`agent/rules.py`) | none; constants | radius and fulfilment of a store; thresholds | used by all of the purchase side | - | in `CartCosts`, `ShoppingModes`, `Rules` |
| Budget drafts (`app.py` 4994-5560) | draft amounts, the committed `intake` | edit, allocate, commit | the setup screens | what is committed is what is shown, and adds up | which edits take back what, in `ListWorkflow` |
| Provider and document extraction (`agent/provider.py`, `agent/extract.py`) | none; a lock around PDF rendering | structured calls with one retry | extraction and matching | - | external: outcomes are choices of the callers |
| Schema, decision log; catalog files; telemetry, demo data, styling, texts | declarations, fixed files, logs | - | - | - | not modelled: see section 8 |

What is hard here:

- The caches of a session outlive the edits that make them stale: a list
  replaced, a student removed, a grade changed while a question is open.
- Streamlit runs the script again after every click, so a step is a whole run of
  the script, and the screens hand the session to one another; a run can be cut
  off by the next click. The app saves the controls of screens that are not
  shown and puts them back, so a control outlives what it was shown for.
- Lists are read and pairs are judged by concurrent threads, whose results arrive in
  any order and may fail one by one.
- A catalog change replans under decisions a parent took for the previous plan.
- The optimizer is called many times for one plan, with and without one product or
  one item, and what is said of a choice (what it saves, what it costs) comes from
  a cart in which the other choices were not made.

`PROJECT.json` lists the hazards that bite hardest at their lines, with the
properties that are about them; section 7 names the others.

## 2. How the modules fit together

```
 session                                   purchase (all pure but the search and the calls)

 ListWorkflow --Extract--> ReadingPool     ShoppingNeeds <-- Matching --> CartCosts
   |   |  what a session     | implements     lines to needs    which products will do
   |   |  keeps              v
   |   |                  ListReading      Rules
   |   |                                     <- PackageSelection   packs of one store
   |   +-merging-> MergeScreen               <- CartCosts          orders, fees, tax, shares
   |                 | extends                    <- StorePlans        every choice of stores
   |               RequirementMerge                    <- StoreSearch      the search itself
   +-review---> PersonalizeReview            <- ShoppingModes (PackageSelection, StorePlans)
   |                 | extends                    <- Consolidation
   |               ReviewRows                          <- CartBuilding     asks the optimizer
   +-Build----> PlanWorkflow                           <- ApprovalGate
                  from the plan to checkout                 <- BudgetChoices
                                                                 <- DecisionMaking
```

- `ListWorkflow` and `PlanWorkflow` are the session seen from afar: `Extract` is one
  whole reading, `Build` one whole pipeline. What a reading can do in one step is
  stated in `ListReading` and implemented by `ReadingPool`.
- `MergeScreen` and `PersonalizeReview` look into two screens of `ListWorkflow`, each
  with all of its controls, for lists that may be replaced meanwhile.
- `StoreSearch` is the optimizer's search call by call. What it returns is
  `BestPlan` of `StorePlans`, a definition without any search; that is the
  property `FindsTheBest`, and the reason why every other module of the purchase
  side may use the definition.
- `CartBuilding` asks the optimizer questions and checks the answers;
  `DecisionMaking` builds a cart, asks the parent, and rebuilds it with what was
  ticked, answered and added. `PlanWorkflow` follows the same decisions through
  catalog changes, with a far simpler cart.

Each `MC` module gives small instances for TLC, each `_proofs` module extends its
module with TLAPS theorems. A definition whose comment begins "With a bug:" is
the form a plausible mistake would give to the definition that follows it; no
specification uses it, `PROJECT.json` ("mutants") names which property notices it.

## 3. What the modules say

### ListWorkflow

State. `screen`, `maxStage`, `listScreen` are the session's `screen`,
`max_stage_reached`, `journey_stage_screen_2`; `draft` and `intake` are the setup
widgets and what `_continue_from_preferences` commits from them; `inputs`,
`structures`, `selections`, `scopes`, `unmerged`, `extracted` are the dictionaries
keyed by child (`list_inputs`, `document_structures`, `document_selections`,
`classroom_quantity_scopes`, `unmerged_extracted_lists`, `extracted_lists`), kept as sets or
as functions with `None`; `structErr`, `extrErr` are `structure_errors` and
`extraction_errors`, `structReady`, `extrReady` the two `..._cache_ready` flags,
`identityOk` and `organized` are `list_identity_confirmed` and
`organized_list_confirmed`. `merge` joins
`requirement_merge_result` and `requirement_merge_resolved`: nothing merged,
questions open, questions answered, nothing to ask.

Steps. One action for each button that changes the session, and one for each
phase of the working screen (`_render_working`): inspecting layouts, asking for
sections, reading, asking about repeated items, confirming identities, asking
for the review, building, routing the result. A phase is an action of its own because
the session is saved between phases and the parent's click can come between
any two of them. `Arrive` is the transition all of them share: the cut of the reached
stage (`_limit_reached_stage`), the new screen, and what `_screen_progress`
records when the script runs again.

Abstractions. A document is the report its inspection gives (which grades its
sections name, and whether the parent has to choose); a reading is the section
it was read by and three facts that the properties tell apart: whether the
classroom question was answered, whether it is of the present list, whether the
parent confirmed it. `fresh` and `reviewed` are history. The items of a reading
and the edits on Personalize are in `MergeScreen` and `PersonalizeReview`; the
amounts of a budget are left out. `"plan"` stands for the approval and summary screens.

### ReadingPool and ListReading

`Submit` and `Take` are the executor's queue and its threads (at most
`MODEL_MAX_CONCURRENCY`, in the order of submission), `Finish` the end of a model
call, with either outcome, `Collect` one turn of the `as_completed` loop, `EndPool`
the choice of the lists for the fallback, `Retry` one turn of the fallback,
`Interrupt` the stop of the script at a report of progress when the parent has
acted, `BeginAgain` the next run of the working screen, after the executor has waited for its
threads. A reading is kept by list, a failure by child, as in the code.
`ListReading` has a set of lists read, a set failed and whether the outcome can be
seen; under the refinement mapping `failed` is the lists whose child has a failure.

### RequirementMerge and MergeScreen

`RequirementMerge` translates `consolidate_requirements`: rows that name one item are
grouped so that rows of one section are added and rows of several are compared
(`_section_scoped_groups`), each group is reconciled or becomes a question with a
default quantity and, where the wording, a detail or a descriptor differs, variants.
Rows are put into groups one by one (`JoinGroup`), each group under the key its question
has; where the code sorts, or lists values in the order they come up, `InOrder` takes each
element at its rank. `IsList` says what a list that was read is: each row has an id and
lines of its own and asks for at least one unit.
`MergeScreen` has the rows read, the requirements made of them, the controls of every
question ever shown (`identity`, `facts`, `choice`, `quantity`, `amounts`, `boxes`, each under the key
the code builds for it) and what was confirmed and planned. `Drawn` sets defaults
where `_render_requirement_merge` does; the actions are the callbacks (`UseControls`), another
reading, "Continue with these choices", items added on Personalize and the
pipeline's second merge (`BuildPlan`). `sent` is history.
`item` stands for all identity fields of a requirement; exclusions and notes are left out.

### ReviewRows and PersonalizeReview

`ReviewRows` has the pure functions of `agent/review.py`: the row of a line, the issues
that make it a question, groups of rows that look alike, conditions and exclusive
branches, the fingerprint of a list. A step of `PersonalizeReview` is one run of the
script: the callback of the control that was touched, then `_render_review` from its
first line for one view (`Page`), which reads the controls, brings the acknowledgements up
to date and saves the rows it showed. `held` is what `preserve_navigation_state`
saves and restores. A student's
list may be read again between two runs, or leave the session when its reading fails. `saw`, `told`,
`own` and `touched` are history.

### ShoppingNeeds and Matching

`ShoppingNeeds` converts a line's units (packs of counted items, containers, reams),
keys it, and joins lines into needs with brands, exclusions and a share for each
child, per student or for the class. `Matching` adds the prefilter, then a process
for each batch: it is asked, may be asked once more when its answer is invalid, is
answered for any of its pairs with any verdict and confidence, or fails; the
batches' answers are joined in the order they end, and classified into candidates, blocked
products and gaps. A text attribute is the set of its canonical words.

### The optimizer: PackageSelection, CartCosts, StorePlans, StoreSearch, ShoppingModes

`SelectPackages` is the dynamic program over packs, its ceiling on what is left over and the
fallback beyond the ceiling. `CartCosts` has orders, fulfilment, fees, waivers,
rounded tax, the largest-remainder shares and the sort key of a plan.
`StoreSearch` has one action for each part of a call of the nested function `search`: the memo
found or entered, the lower bound, a complete cart, the loop over stores, the
call, and the return, at which the caller subtracts what it had added. `memo` is the
`OrderedDict` with its eviction. `ShoppingModes` has the three modes: budget, single stop with
its second trip, custom with its limit of stores; the gaps and the trade-offs that explain them.

### Consolidation and CartBuilding

`OptimizeAndConsolidate` is the pipeline's sequence: optimize with preferred products,
widen them in custom mode, merge the needs that got one product, optimize again.
`CartBuilding` has an action for each kind of question: a cart, packs at one store,
shares of an amount.

### ApprovalGate, BudgetChoices, DecisionMaking

`ApprovalGate` translates `evaluate_gate` with the joining of questions that have
the same message and the grouping of more than six. `BudgetChoices` has the options of a
question, the budget actions, the combinations tried and the one recommended,
and the selections of add-ons. `DecisionMaking` is a session on
approval and summary: `RunPipeline`, `TickBudgetActions`, `AnswerQuestion`,
`OpenSummary`, `TickAddOns`; after each of them the cart is built anew with all
that was chosen, as the screen does at each run.

### PlanWorkflow

State. `result` is the pipeline's result, of which the candidates, the gated and
the proposed cart, the questions, the overspending and the budget actions are
kept; `outcomes`, `resolved`, `budgetActions`, `preserved`, `approved` are the
answers a session saves, `replanOmitted`, `replanForced` the two constraints
remembered for replans, `checkout` the confirmation; `ticked`, `evaluated` and `replanTicked` are the boxes of
the optional items (the `addon_...` keys of the present `approval_generation`), the selection
in `addon_evaluation` and `replan_selected_addon_ids`. History is `leftOut` (what the parent
has left out of the present plan), `own` (the answers he gave himself, as opposed to those the
app filled in) and `confirmedWith` (the optional items in the confirmed plan).

Steps. Confirming Personalize, building, routing by the open questions, saving
decisions (over a combined budget, over individual budgets), a product sold out,
a price changed, optional items ticked, checkout, the return from a question the summary calls
undecided to the approval (`_return_to_approval`), back to the cart, the banner. `Planned` runs the whole
pipeline in the order of the code: single needs are optimized, needs that got the
same product are bought together (`consolidate_selected_skus`), the result is
optimized again, and the gate is evaluated on it. The options of a question
are built when they are used, from the cart the code builds them from: the gated
cart on the approval screen and the present one in a stock change. That lines
are numbered anew in each cart, and found by number, is part of the model. So is that answers
are kept under the id of their question: a kept answer that is no option any more selects
nothing (`Selected`), leaves its question `Undecided` on the summary, and is replaced by the
recommended product on the approval screen, which says that the earlier decision still applies
(`Answers`, `app.py` 15714). Wherever the summary is drawn (`Draw`), a plan that has had no optional items
gets the recommended ones ticked.

Abstractions. A need is one unit of one item; costs are prices, without tax,
fees and packages. The optimizer takes the cheapest stocked product, by a fixed
preference when prices are equal; `SecondStore` says which products a plan with
one store leaves to its second trip. One kind of question about products stands for the
three of the gate; grouping of more than six questions, low-confidence matches,
and substitutions as a budget action are left out here; `DecisionMaking`
has them. An optional item has one product, bought as one unit, which the parent ticks or not;
a product of the second trip counts as missing to it. That a raised budget must not be below the old one is a guard of `Save`: the
code raises `ValueError`.

## 4. The runs

All of these finish without an error; the last one is refuted.

| Run | Instance | Shows |
| --- | --- | --- |
| `lists_one_entry` | one entry of either kind, two grades, documents without a grade, with one section, with two; 67,479 states | `PlanReadsSavedLists`: no plan from a list that was replaced; `AlwaysBackToParent`: the screens never hand the session around for ever |
| `lists_two_entries` | two entries of either kind, one grade, documents without a grade or for another one; 1,671,610 states | `NoOrphans`, `PlanIsCurrent`, `ConfirmedUnlessReplacing`, `ReachedStagesStand`: removing, editing and replacing one entry leaves of the other exactly what is still true |
| `reading_pool` | four lists, two threads, one interruption; 2,665 states | `FailuresAreExplicit`, `KeepsPromise` (refinement of `ListReading`), `ReadingEnds` |
| `repeats` | six lists with repeated items, one reading of another list, one added item, two uses of the controls; 93,516 states | `NoSectionGetsLess`, `SentAsConfirmed`, `EveryLineIsCarried`, `PlanKeepsTheMerge`: whatever was shown before, what the parent confirmed is what is merged, the rest gets the default of the present list, and no line is lost on the way to the plan |
| `review` | two students who share an unclear line, one line the school provides, one conditional line, one taken out on the merge screen, a second list that may be replaced; four runs of the script; 83,910 states | `ApprovalsAreCurrent`, `NothingVanishes`, `NoChoiceIsLostSilently`, `ChoicesSurviveRefresh`: what was accepted is what is planned, or a number a control of the row held by then; what is required is planned in full, or in a number entered for it earlier; decisions stay on the rows they were made for |
| `matching` | seven sets of lists of two students and a class of three, eight products, two batches at a time, confidences on both sides of the floor; 23,890 states | `EveryUnitReachesANeed`, `EveryLineIsHonoured`, `UnjudgedIsNeverBought`, `SilenceIsNoRefusal`, `MatchingEnds` |
| `store_search` | every assortment and two prices for three needs at two stores and two needs at three, with and without a limit of stores; a memo of two entries; 46,374 states | `FindsTheBest`: whatever is pruned, remembered or forgotten, the search ends with the first of all carts in the order of the sort key |
| `cart_building` | about 2,700 questions: carts of three or five needs in every mode, packs of one, eight and thirty under scarcity, shares of up to seven cents | `PacksAreCheapest`, `CentsAddUp`, `UnitsReachTheChildren`, `SingleStopClosesTheGaps`, `CustomLeavesOutTheFewest`; 5,356 states |
| `decisions` | some 150 requests over a budget, with doubtful and altered products, with optional items, with seven questions, with one question about two lines, with two questions about one need; two ticks or answers; 3,784 states | `EveryDoubtIsAsked`, `ChoicesLoseNothing`, `RecommendedIsFewest`, `NeedsAreAnsweredApart`, `RemovalsAreHonest`, `AddOnsKeepThePlan` |
| `plan_combined` | two needs that may meet in one product, both of which differ from the list, an optional item, a combined budget that price rises exceed, two catalog changes; 3,843 states | `SummaryIsCurrent`, `EveryQuestionAnswered`, `AnswersAreHonoured`, `ConfirmationOutlivesNoReplan` |
| `plan_per_child` | three needs of two students, individual budgets that are too small, one catalog change; 1,949 states | `AnswersAreHonoured` while lines are numbered anew and budgets are met student by student |
| `plan_reask` | the instance of `plan_combined` | `InvalidatedAnswersAreAskedAgain` refuted |

Why these bounds are enough:

- Lists. Caches of different children touch one another only through "another
  child" (a replacement keeps it, a reading of one resets all), so two entries
  show it; grades matter as the same or another, so two suffice; the reports cover
  every case of `section_resolution_needs_parent_screen`. The two dimensions are
  varied apart, two grades with one entry and two entries with one grade: together
  they take too long, and the safety part is proved for every size anyway.
  Nothing bounds the length of a session: the state space is finite.
- Pool. Four lists on two threads leave two waiting while one is collected out
  of order and one fails; one interruption suffices because it resets everything
  but its own count.
- Repeated items. The six lists are the cases of the code: sections that differ plausibly or
  not, a section that repeats itself, different products with a row that does not say
  which, different wording, a descriptor with a brand. One replacement leaves controls
  behind; two uses are the least for a control that changes another one.
- Personalize. A decision, its loss, its repetition and a submission are four runs. Two
  students are needed for rows that are decided together.
- Matching. Up to three needs are dealt to two batches, so that one of them has two needs and the
  progress of the other can overtake it; the confidences are those on both sides of the
  floor; a batch is asked at most twice, as in the code.
- Search. Three needs make two prefixes that reach the same subtotals in different orders; a memo
  of two entries forgets some of them; one store has fees that are waived for a dear pack, so that the
  cheapest next step may be wrong; three stores are needed for a limit of stores
  that is neither one nor all.
- Carts. Three stores, of which one is out of the radius, two needs of one item,
  stock that is short for one catalogue, quantities at which the ceiling is the half and the six
  units. With five needs, two stores can be needed and three insufficient.
- Decisions. Two ticks or answers suffice for two that were priced apart or contradict each other;
  seven altered items exceed the six that are not grouped.
- Plans. Three products for two needs, one shared, and three prices let a change make
  needs meet, part, swap products and exceed the budget, which is four: with a cheap plan the
  optional item is offered, after two rises the budget is asked about. `MaxChanges` of two is needed
  for a constraint that one change leaves behind and the next one uses, `MaxPlans`
  of two for what an earlier plan leaves to a later one. The third need of
  `plan_per_child` renumbers the lines behind it when it is removed. `plan_combined`
  and `plan_per_child` plan once because confirming Personalize a second time forgets
  every answer; what it does not forget is the subject of `plan_old_omission`.

Deadlock is checked where the parent can always do something or the module says when it is
done. It is not in `reading_pool` (a reading ends), `cart_building` (an answer is the end),
`review` and `repeats` (whose counts of runs and uses are bounded).

Further configurations are kept beside these and can be run in the same way, those
that refute several properties with `-continue`, or with one property at a time, since TLC names
only the first that a state violates:

| Configuration | Module | Shows |
| --- | --- | --- |
| `lists_refuted` | `MCListWorkflow` | two entries, two grades: refutes `PlanOnlyFromConfirmedLists`, `NoReadListIsDropped`, `PlanReadsTheStudentsGrade`, `EveryListCanBeSupplied`, `GradedListsAreReadBySection`; list one at a time to see each |
| `repeats_refuted` | `MCMergeScreen` | refutes `RadioAndNumberAgree`, `TickedStaysOut`, `SentAsShown`, `ConfirmedUnitsArePlanned` |
| `review_added` | `MCPersonalizeReview` | one student whose list may be read again with more units: refutes `AddedItemsSurvive`, `UntouchedRowsAreAsRead`, `EveryUnitIsPlanned` |
| `matching_more` | `MCMatching` | holds: `TypeOK`, `ApprovalsAreTheLastResort`, `ProgressIsTrue`; refutes `ReamsAreConverted` |
| `cart_more` | `MCCartBuilding` | the carts of `cart_building`; holds: `TradeoffsExplainGaps`; refutes `MergingLosesNothing`, `SharedProductsAreMerged` |
| `decisions_refuted` | `MCDecisionMaking` | refutes `RequiredItemsRemainCovered`, `ApprovingLosesNothing`, `ProposalCanBeSaved`, `SubstitutesAreChosen`, `SubstitutionsAreAsked`, `AddOnsKeepEachBudget` |
| `plan_refuted` | `MCPlanWorkflow` | the instance of `plan_combined`: refutes `CheckoutIsOfThisPlan`, `AnswersAreKept`, `ChoicesAreTheParents`, `OverspendIsGatedAgain`, `MajorIsApproved`, `NothingIsDropped`, `TicksSurvivePriceChanges`, and what `plan_reask` refutes |
| `plan_old_omission` | `MCPlanWorkflow` | two plans, two changes: refutes `NothingIsDropped`, `LeftOutStaysOut` |

With one constant or two changed, a configuration answers another question.
`NothingIsDropped` is refuted with the constants of `plan_per_child` as well (lines that
are renumbered), `FailuresAreExplicit` with those of `reading_pool` but `Lists = 2` and
`ChildOf <- Shared` (two lists of one child). With the constants of `review_added` but
`Students <- MCTwoStudents` and `Readings <- MCSharing`, `RefusalsAreExplained` is refuted, and
with two students, `Readings <- MCMeeting`, `Quantities <- MCMeetingQuantities` and `MaxRuns = 4`,
`PlanIsReviewed`; with `Readings <- MCTwice` and `MaxRuns = 7`, `ApprovalsAreOfWhatIsShown`. `ApprovalsAreCurrent` and `NothingVanishes`, which `review` checks, hold for `MCMore` and
`MCUnclearMore` in five runs and for `MCMeeting` and `MCSharing` in four, the first of them for `MCTwice` in
seven as well (1,780,000 states). With the constants of `store_search`,
`SubtotalsFollowChoices` holds. `TypeOK` of the workflows, the pool and the search
is proved, or holds under the configurations above, and so is `BestOnlyImproves`.

## 5. Fairness

- `ListWorkflow`: weak fairness of the steps the app takes without the parent.
  The script runs again after each change and a screen that finds something to do
  does it in that run, so these steps are not the parent's choice. `Build` is left
  out: a build can fail for ever, and the screen then offers the way back. Nothing is
  assumed of the parent.
- `ReadingPool`: the caller's next step, the taking of a waiting list by an idle
  thread, and the end of every model call. A call has a timeout, after which it is a
  failure; the executor's threads take what waits; the caller is one loop. The
  number of interruptions is bounded by `MaxInterruptions`: a parent who
  interrupts for ever is never shown the outcome. After an interruption the parent is
  taken to come back to the working screen.
- `Matching`: the main thread's next step and, for each batch, the end of its model call, for the
  same reasons. Nothing is assumed of what a call answers.
- The other modules assume nothing: in them the parent acts, or a computation is
  checked where it ends.

## 6. What is proved

The theorems hold for every value of the constants that satisfies the named
assumptions, which TLC evaluates in each run that uses them. `WorkflowConstants`, `PoolConstants`,
`PlanConstants` and `MatchingConstants` give the constants their types; `RowsAndNumbers`,
`StoresAssumption`, `QuestionsAssumption` and `ProblemsAssumption` say what a list, a store, a question
and a problem of the search are, and are discussed with the theorems that need them; `NoneIsNoNumber` and `NoneIsNoSelection` say that Python's
`None` is neither a number nor a selection of packs. A theorem that needs more has it as a
hypothesis of its own: `OneListEach`, `OneTrip`, `NoneIsNoPlan`.

`ListWorkflow_proofs`. The invariants the runs check are not inductive by
themselves. Their conjunction becomes inductive with four facts:
`ReadingsMerged` (once extracted, readings before and after merging are of the
same children), `MergeScreenEarly` (the question about repeated items can be
reached only before lists are confirmed, so an answer never changes a confirmed
list), `OrganizedIsConfirmed` (organized lists are read, merged and confirmed,
unless a replacement is pending) and `LateScreensReached` (the late screens are
shown only at a reached stage, so returning to Personalize by
`BackToCart` is covered by `ReachedStagesStand`). The proof goes in three layers, each
using the ones before: `CachesBelong` (`TypeOK` and `NoOrphans`), the merging of
readings, and the flow of confirmations and stages (`InductiveInvariant`). From them
follow `KeptPlanIsCurrent` (`PlanIsCurrent`), `ReachedStages`
(`ReachedStagesStand`) and `ConfirmedPlans` (`ConfirmedUnlessReplacing`). The
exception for a pending replacement cannot be dropped: `PlanOnlyFromConfirmedLists`
is refuted under `lists_refuted`. `PlansReadSavedLists` (`PlanReadsSavedLists`) needs one
fact more, `ReadingsAreOfSavedLists`: the student whose list is being replaced has no list,
so no reading of it is left when the new one comes, and every reading kept is of the list
the student has now. (`OrganizeReplacement` marks the old reading as outdated in case there
is one; the invariant says there never is.)

`ReadingPool_proofs`. `TypeCorrect` needs no further assumption. The other theorems assume
`OneListEach`, that no two lists are of one child, which holds in the app, where
`list_inputs` is keyed by child, and not in every call of `run_pipeline`:
two lists of one child are the counterexample (section 4). The invariant says what is recorded while
the pool runs (`Recorded`: a reading or a failure for exactly the lists collected),
that afterwards each list has one and not both (`Settled`), that lists to be
retried have failed (`Retries`) and that a collected list has ended (`Started`). From it
follow `NothingGoesMissing`, `NoSecondReading` (`OnlyFailedListsAreRetried`) and
`PoolKeepsPromise`: the pool
implements `ListReading`, each collected list mapping to its reading or failure,
`Return` to `Publish`, `BeginAgain` to `Abandon` and everything else to a stutter.

`PlanWorkflow_proofs`. `PlanInv` is inductive: `Screens` (what was last shown), `Catalog`,
`Fresh` (a result is what a build from the present prices and stock gives, and until the
summary the proposed cart is the one of the gate), `Accepted` (an approved cart is of the
present catalog and contradicts no answer), `Confirmed` (a confirmation that the parent has not gone
back behind is of the required cart in effect and of the optional items confirmed with it) and `Answered` (on the
summary the budget has been answered, and a question without a valid answer is one of which a
catalog change has kept an answer). None of the checked invariants is inductive alone: that a summary is in
stock (`CheckoutIsCurrent`) needs that each way back to the summary builds anew or applies answers to a cart
that is, and that a gate is passed (`GateIsPassed`) needs to know that only the working screen forgets the
answer about the budget, and that a return to the questions leads to a complete approval. From `PlanInv`
follow `CheckoutIsCurrent` (`SummaryIsCurrent`), `GateIsPassed` (`EveryQuestionAnswered`),
`ConfirmationIsOfThePlan` (`ConfirmationOutlivesNoReplan`) and, with `SessionTypes`, `PlanTypeCorrect`.
`GateIsPassed` does not say that every question has a valid answer on the summary: after a catalog change
it may not, which `plan_reask` shows.
`AnswersAreBought` (`AnswersAreHonoured`) has a premise: `OneTrip`, no product of a second store. With a second
trip line numbers start again, and two lines may share one, so that the proof has no unique line for an answer; TLC
finds no counterexample with `SecondStore <- FarSkus` in the instances of `plan_combined` with two or three
needs. The property is about the answers the parent gave himself (`own`) that are still
options; of the others the code keeps no promise (finding 1).

`Matching_proofs`. `MatchInv` is inductive: `SummedUp` (the needs are the aggregated lines),
`Dealt` (the batches are the cases of the prefilter, each need in one of them), `Asked` (a
batch's attempts and answer fit its stage), `Collected` (the answers gathered are those of the batches
gathered) and `Staged` (the progress is that of the batches answered; matching ends with all of them). From it
follow `BoughtIsJudged` (`UnjudgedIsNeverBought`), `GapsAreJudged`
(`SilenceIsNoRefusal`), `MatchingTypes` and the action property `ProgressIsNeverWrong` (`ProgressIsTrue`).
`LinesAreHonoured` (`EveryLineIsHonoured`) and `UnitsReachNeeds` (`EveryUnitReachesANeed`) are about the function
that rolls lines up, for lists of any length: each line joins exactly one need, which is at
least as strict, and the shares are the sums of what the lines ask for.

`MergeScreen_proofs` begins with what the functions of the merge return for any list. Putting
rows into groups keeps `Grouped`: every row is in a group (`HoldsAll`) and in one place
only (`HoldsOnce`), no two rows of a group are of one section (`OneOfEachSection`), and two
groups of one item share a section, which is why they are two (`GroupsMeet`). `MergedIs` says what
requirements a group becomes under any choices, `ConsolidatedStandsFor` what those of all
groups have in common: ids that differ, every line a source of one of them, and a shared
section between any two of one item.

For the screen it assumes `RowsAndNumbers`: the lists that are read are lists
(`IsList`), and what a parent adds or enters are rows and numbers. That a row asks for one unit or more is
checked by the schema (`agent/schema.py` 590); that ids differ is not, and comes from the
extraction. A line of the model is one line of the document: the code takes two of them
for one source when document, section, page, text and quantity agree (`agent/rules.py` 133),
and rows with such sources are of one section, so never in one group. The inductive invariant
`IInv` has three parts. `ControlsInv`: whatever list they were drawn for, the controls
hold answers and numbers (`Sound`), each control shown has a value (`Complete`), a number
of the first reading nobody confirmed is its default or zero (`Unconfirmed`), and before
the first use every number is its default (`Untouched`). `MergedInv`: what was merged, sent
and planned is a function of the list, the items added and the controls as they are now;
nothing changes the controls once the screen is answered except another reading, which also
takes back what was sent. `AddedInv`: what was added are the items a parent can add. From it
follow `ConfirmedIsMerged` (`SentAsConfirmed`), `LinesAreCarried` (`EveryLineIsCarried`),
`SectionsGetTheirShare` (`NoSectionGetsLess`: a group has at most one row of a section, and both its total
and its largest quantity are at least that row's) and `TheMergeIsKept` (`PlanKeepsTheMerge`: two
requirements of one item come of one group or of groups that share a section, so the second
merge puts no two of them together).

`CartBuilding_proofs` begins with what the optimizer's functions return. Shares (`SharesAreFair`): the
whole cents come to at most the amount, what is left is fewer cents than there are payers with a
remainder, and each of those gets one at most, the largest remainders first; so all is
paid and nobody is off by a cent. Plans (`PlanIs`): lines are shared by `SharesAreFair`, an order's tax
and fee again, and sums by child and by store of the same cents are exchanged (`SumByChildIs`,
`ChildrenPayAll`), which is why roundings made one by one still add up. Packs: after each
offer, the state kept for a number of units is the cheapest purchase that has it, of all
purchases of the offers so far (`StatesAreBest`; a state that one offer improves is an
extension of a best one, `OfferKeepsBest`); the ceiling is the half of the quantity or six units
(`CeilingIs`), and a cheapest purchase beyond it never needs more than the quantity plus
one pack (`FewerWillDo`), which bounds the table the code builds (`SelectedPackagesAre`).

From there it goes to answers. That `BestPlan` is of some assignment and that none
has a smaller key is `BestPlanIs`; `CustomIs` follows the search over scopes, `SingleStopCloses` the
first stop and its second trip, `CartOfModeIs` and `OptimizeIs` one call of the optimizer,
`CandidatesAnswer` and `ConsolidatedResult` the pipeline's sequence of calls. The invariant is
`AnswersInv` (`AnswersAreGiven`): an answer is the optimizer's to the question asked; what it
says of the answer are those lemmas. From it follow `PacksAreCheapestAlways`
(`PacksAreCheapest`), `CentsAddUpAlways` (`CentsAddUp`), `CustomLeavesOutTheFewestAlways`
(`CustomLeavesOutTheFewest`), `SingleStopClosesTheGapsAlways` (`SingleStopClosesTheGaps`) and
`UnitsReachTheChildrenAlways` (`UnitsReachTheChildren`). The last one lays the units of the lines side by side, and
those of the children under them: a line gives a child what their two stretches have in common. Cut at
the ends of the lines, a child's stretch is all there (`UnitsShared`), if the packs are enough (`SelectionCovers`).
Lines that serve some needs, joined with lines that serve others, serve both (`JoinedServe`): so it goes
from one assignment to a cart (`BuiltServes`), whatever the search chose (`BestPlanServes`, `ForSomeServes`), to
the second trip (`FirstStopServes`), to the cart of each mode (`ModeServes`) and the one the pipeline keeps
(`ConsolidatedServes`). That joins only if needs are of different lines, after merging as well: a need merged
has the lines of its group, and two that share one would be of the same group, of which only the first
is kept (`MergedApart`). Assumed are
`StoresAssumption` (a store is found under its id, its fees are amounts, and no set of stores is
`None`, from which `allowed` tells one) and `QuestionsAssumption`: skus are unique, a pack has a unit and costs a
cent, stock is a number (all of the catalogue's 162 offers, `data/catalog.json`); a need asks for
one unit or more, each of its children's shares is one or more and they add up to it
(`agent/aggregate.py` 184, 228); no line is in two needs, or twice in the lists: each goes into one group
(232), and its id is stamped with its child and list (`agent/pipeline.py` 552). `NoneIsNoPlan`, that a cart built is not `None`, is a hypothesis of the theorems that
need it and no assumption, because it is about all carts and TLC could not evaluate it.

`StoreSearch_proofs` shows that the search of the code, call by call, ends with `BestPlan`
(`FindsTheBestAlways`), for any number of needs and stores and a cache of any size. `FindsTheBest` speaks of
the last state only; what is inductive is `SearchInv` (`SearchInvariant`). `PathInv`: the choices made
serve the first needs, and the subtotals, added to and subtracted from in place, are theirs.
`LoopsInv`: each call under way has the stores left that it has not tried. `BestInv`: the best so far is
a cart that was asked for. `CoverInv`: each assignment is no better than the best so far, or is
still ahead of a call under way. `MemoInv`: an entry of the cache is of a call under way,
or no assignment that has the same subtotals and no smaller prefix is better than the best so far. The entry is
made before the call has searched, which is why `MemoInv` needs both halves; what the cache evicts only loses
entries, so its size does not matter. One lemma for each action keeps the invariant. They rest on three facts about carts:
the bound is no more than any completion costs (`BoundHolds`: rounded tax never falls as
a subtotal grows, stores are only added, and fees, which may be waived, are left out), so what is cut off is dearer (`HopelessIs`);
of two beginnings with the same subtotals, any completion of the one with the smaller prefix of skus comes first
(`MixedIsNoWorse`), since fees, tax and orders depend on subtotals only; and two assignments
never have the same sort key (`KeysDiffer`), so that the first found is the only best. The last needs
that no product is sold at two stores, which `IsProblem` asks for and `ProblemsAssumption` requires of
the problems: a sku of the catalogue is one offer of one store. That this is what the
optimizer passes to its search is proved too (`QuestionsAreProblems`): the needs that any set of eligible
stores can serve, with what is sold for them there, are a problem, for all catalogues, lists and
wishes. `SearchTypes` adds that the cache never exceeds its size.

`FiniteFacts` has what those proofs share. The library's induction theorems take an operator
as a parameter, which the provers cannot instantiate; here an induction is over a finite
set instead: of the sets for which a statement fails one contains no other, and for that one it holds
(`SmallestSubset`). In this way it proves that a fold over a finite set has a value, and
one only, whatever the order in which the library takes the elements (`UnfoldsAgree`,
`UnfoldsExist`), what sums are made of and how they are exchanged (`SumsSwap`), and that the elements of a
finite set that are in an order have ranks, one for each (`RanksAre`).

Only model-checked:

- the liveness properties (`AlwaysBackToParent`, `ReadingEnds`, `MatchingEnds`), which are out of
  the prover's reach;
- the properties of `DecisionMaking`, which compare several carts that were built with and
  without something;
- the properties of `PersonalizeReview`. In `ChoicesSurviveRefresh` two corners are out of the instance: a
  line that asks for nothing, and a branch that was held back before the reading that removes the other
  branch;
- `AnswersAreHonoured` for carts of two trips, see above.

## 7. Findings

One disagreement is a run of its own and is described with its lines in `PROJECT.json`:

1. `plan_reask`: a kept answer that a catalog change has made impossible counts as an answer, since answers
   are found by the id of the question (`app.py` 14399). The summary is shown at once, with a warning
   beside the question that it still needs a decision, and with a product the parent did not choose. Going
   back from there (`_return_to_approval`) shows the recommended product with the words
   "Your earlier decision still applies", without a choice, and saving records it
   (`app.py` 15714; `AnswersAreKept`, `ChoicesAreTheParents`).

The others are refuted by the further configurations of section 4 and cases named there. In the session:

2. "Upload another list" leaves Personalize reachable by the
   banner; confirming the remaining lists there counts for all, the next reading
   replaces the confirmed readings, and they are planned without a review
   (`PlanOnlyFromConfirmedLists`, `app.py` 11629).
3. An error of an earlier reading survives the successful
   re-reading of the list and drops it from the plan (`NoReadListIsDropped`, 14606).
4. "Rebuild using the saved entries" keeps readings made
   for an earlier grade (`PlanReadsTheStudentsGrade`, 6577).
5. A grade changed while the questions about repeated items are open drops the section choice, and
   the document is read as a whole (`GradedListsAreReadBySection`, 12862).
6. The student whose list is being replaced is removed: the lists screen shows no field that can
   be filled (`EveryListCanBeSupplied`, 6508).
7. On the merge screen a radio is set to the default of a new list while its number is kept
   (`RadioAndNumberAgree`, 12707); that number, shown but never confirmed, is not what is
   sent (`SentAsShown`, 13190, against the caption at 12897); and numbers entered after the box was ticked put
   the item back into the cart (`TickedStaysOut`, 12565).
8. On Personalize, an edit that makes two students' rows the same joins a row nobody
   decided to a decision made (`PlanIsReviewed`, 13631); items the parent added are lost when
   a list is read again after a submission (`AddedItemsSurvive`, 8753); the controls of a replaced line are put
   back (`UntouchedRowsAreAsRead`, 8570), so that a line read again with more units keeps the number
   entered for the old one and fewer are bought than it asks for (`EveryUnitIsPlanned`), and a decision may
   count for a row whose number it never showed (`ApprovalsAreOfWhatIsShown`, 13606); a submission may be refused with nothing
   left to decide on the screen (`RefusalsAreExplained`, 8459).

On the purchase side:

9. A ream is converted to sheets, also where the catalog counts packs
   (`ReamsAreConverted`, `agent/normalize.py` 243).
10. Merging two needs that can share only part of a stock makes a gap of what was in the
    cart (`MergingLosesNothing`, `agent/consolidate.py` 278).
11. With single stop or a limit of stores, budget actions said to keep all required items lose
    some, and so does the approval of what is in the cart
    (`RequiredItemsRemainCovered`, `ApprovingLosesNothing`, `app.py` 3435).
12. A question about two lines is taken as answered when a tick settles one of them
    (`SubstitutesAreChosen`, 2953). Two products proposed for one need are two questions; when both are approved,
    the last one is built alone (3396) and the save is refused, as contradicting the other answer (3056, 16300),
    although every recommendation was approved as proposed (`ProposalCanBeSaved`; FR-28: approval is "a single click").
    Approving one of them alone is offered at no cost, and yet the whole need becomes that product, at another price. Optional items that were changed are asked about nowhere
    and respect only the combined budget (`SubstitutionsAreAsked`, `AddOnsKeepEachBudget`,
    `agent/addons.py` 303, 83).
13. After a catalog change, an answer about one item is taken for another one that a
    rebuilt plan buys as the same product or under the same line number (`MajorIsApproved`);
    what was left out of an earlier plan is dropped from a later
    one by a stock change, and what was left out of this one comes back with a price
    change (`NothingIsDropped`, `LeftOutStaysOut`, `app.py` 7416, 18225); a rise in price of a product the
    parent chose takes the plan over its budget without a question (`OverspendIsGatedAgain`,
    `agent/pipeline.py` 1041); a price change unticks optional items, or ticks those of an older stock
    change (`TicksSurvivePriceChanges`, 7243). An optional item ticked after checkout changes the total
    beside the old confirmation (`CheckoutIsOfThisPlan`, 16901, 18357).
14. Lists of one child share a failure; the successful retry of one takes
    back the failure of the other (`agent/pipeline.py` 484).
15. Needs are merged once. The cart built after that weighs stores anew, and a need so far bought elsewhere
    may be bought as the product others were just merged for: it is a line of its own, although it could be merged
    (`SharedProductsAreMerged`, `agent/pipeline.py` 1231; FR-14 and BR-13 ask for it without exception). In `MeetingLate`, two needs of five folders
    share a pack of ten; without the second pack the order at that store is no longer free of
    fees, and a third need moves there.
16. An item added on Personalize is merged with the list's own row by the pipeline, where nobody is
    asked, and the larger quantity is planned instead of the sum when the sum is implausible
    (`ConfirmedUnitsArePlanned`, `agent/pipeline.py` 592): of a list that asks for eight folders in one section and
    four in another, eight are confirmed, for twelve are more than the ten of `agent/rules.py` 175; three more are
    added, and eight are planned instead of eleven.

Hazards that no module covers: stock is revalidated line by line, so that two lines of one
product may sell more than there is (`agent/pipeline.py` 1257; stock is all or nothing in
`PlanWorkflow`); raising a budget to less than it was raises `ValueError`, which the approval screen
does not catch (`app.py` 1661; a guard of `Save`); answers to conditional questions are
kept by the position of the question (`agent/review.py` 662).

## 8. What is not modelled

- Model calls, document decoding and file reading are external:
  their outcomes are nondeterministic. The repetition inside a reading's provider call
  (`agent/provider.py` 231) is part of that outcome; the lock around the rendering of
  pages is held for one page, and no other lock is taken inside it.
- A document without a section in its source language is refused like one for a grade of no student, of which
  the parent could in addition pick a section by hand (`ReplaceUpload`, `app.py` 11967).
- The words "general product wording", which stand for a row that says nothing of the kind, are `None` in
  `RequirementMerge` (`agent/requirement_merge.py` 744).
- Items that no store has stay on Personalize without controls (`app.py` 13669, 14074) and are left out of
  `PersonalizeReview`.
- The fifty candidates of `agent/budget_plans.py` are never reached, two lists of one child are only in the
  counterexample of finding 14, and `AddOnsKeepThePlan` is of a combined budget.
- The inspection of layouts, which groups lists of one document and has no fallback, is one
  step of `ListWorkflow` with any outcome.
- Amounts of a budget in the setup screens: drafts, allocation to entries and their commit.
- Texts: wording of questions, explanations, notes on what was reconciled, the local
  judge's vocabulary. Where a message decides which questions are one (`_deduplicate`), the model compares what
  the message is made of.
- Schema and decision log are declarations and an append-only record; telemetry, demo
  data, styling and texts have no state that another part depends on.
- No component is called modelled in full: each leaves out some texts or a presentation that
  keeps state of its own (which dialog is open, which card is expanded).

## 9. Plan

Done: the session (`ListWorkflow`, `ReadingPool` with `ListReading`, `MergeScreen`,
`PersonalizeReview`, `PlanWorkflow`), the purchase side (`ShoppingNeeds`, `Matching`, the optimizer with
its search, `Consolidation`, `ApprovalGate`, `BudgetChoices`, `DecisionMaking`), and the proofs of
`ListWorkflow`, `ReadingPool`, `PlanWorkflow`, `Matching`, `MergeScreen`, `CartBuilding` and `StoreSearch`.

Next, in this order, most consequential first:

1. Theorems: `ApprovalsAreCurrent`, `NothingVanishes` and `ChoicesSurviveRefresh` of `PersonalizeReview` for
   every instance, and `AnswersAreHonoured` without `OneTrip`.
2. Compositions: `ListWorkflow` with `ReadingPool` at `Extract`, and with `PlanWorkflow`
   at `Build`, each shown to implement the other's view; `MergeScreen` and
   `PersonalizeReview` in one session, with lists replaced between the two.
3. `BudgetDrafts`: amounts edited, allocated and committed; the inspection pool.
