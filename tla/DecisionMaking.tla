--------------------------- MODULE DecisionMaking ---------------------------
(* From a built cart to the one the parent checks out with: the pipeline    *)
(* builds the cart, its questions, the ways to meet the budget and the      *)
(* offer of optional items (agent/pipeline.py, run_pipeline); on the        *)
(* approval screen the parent ticks budget actions and answers questions;   *)
(* the summary adds optional items.                                         *)
EXTENDS BudgetChoices

CONSTANTS
  Stores,      \* the stores, a function of their ids
  Requests,    \* records of matches, offers, config, allocations and optional items
  MaxChoices   \* bound: the ticks and answers that are given one by one

VARIABLES
  asked,       \* the request the session makes
  built,       \* what the pipeline answers, or None
  ticked,      \* the budget actions that are ticked
  answers,     \* the answers to the questions, a function of their ids
  cart,        \* the cart with both; None when the ticks contradict each other
  addOns,      \* the evaluation of the optional items that are ticked, or None
  approved     \* whether the approval screen is left
vars == <<asked, built, ticked, answers, cart, addOns, approved>>

Shop == [offers |-> asked.offers, stores |-> Stores, config |-> asked.config]

Init ==
  /\ asked \in Requests
  /\ built = None /\ ticked = {} /\ answers = <<>> /\ cart = None
  /\ addOns = None /\ approved = FALSE

\* The questions, those that are grouped one by one.
VisibleInterrupts(batch) == UNION {IF i.grouped = {} THEN {i} ELSE i.grouped : i \in batch}

\* What a question may be answered: another product, or, for a line, nothing.
OptionsOf(i, line, choices) ==
  LET buy == {[sources |-> c.sources, sku |-> c.sku, delta |-> c.delta] : c \in choices}
      leave == {[sources |-> line.sources, sku |-> None, delta |-> a.delta] :
                  a \in {b \in i.alternatives : b.answer = "omit"}}
  IN  IF choices = {} \/ line = None THEN buy ELSE buy \cup leave

OptionsFor(i, made, matches) ==
  IF i.kind = "budget_exceeded" THEN {}
  ELSE OptionsOf(i, LineForInterrupt(i.lines, made),
                 BuildCatalogApprovalChoices(i.lines, i.sources, made, matches, Shop))

\* Questions about lines are presented by what they cost, those of a group
\* together.
LINE_QUESTIONS == <<"attribute_choice", "brand_lock_break", "major_substitution">>
Rank(i, batch) ==
  LET group == CHOOSE g \in batch : IF g.grouped = {} THEN g = i ELSE i \in g.grouped
      kind == CHOOSE k \in DOMAIN LINE_QUESTIONS : LINE_QUESTIONS[k] = i.kind
  IN  <<-group.impact, kind, -i.impact, i.sku>>

Position(i, batch) ==
  LET about == {j \in VisibleInterrupts(batch) : j.sku # None}
  IN  IF i.sku = None THEN 0
      ELSE Cardinality({j \in about : Less(Rank(j, batch), Rank(i, batch))})

\* All that is built for a cart: its questions, their options and the plans.
Answer(matches, made, batch) ==
  [matches |-> matches, cart |-> made, batch |-> batch,
   options |-> {[id |-> i.id, at |-> Position(i, batch), sources |-> i.sources,
                 options |-> OptionsFor(i, made, matches)] : i \in VisibleInterrupts(batch)},
   eligible |-> AddOnsEligible(made, asked.optional),
   analysis |-> IF asked.allocations # None THEN None
                ELSE BuildBudgetAnalysis(made, matches, Shop)]

AnswerFor(matches, made) ==
  Answer(matches, made, EvaluateGate(made, matches, asked.offers, Stores, asked.config,
                                     asked.allocations))

AnswerWith(final) ==
  AnswerFor(final.matches, DecorateOptimization(final.result, final.matches))

RunPipeline ==
  /\ built = None
  /\ built' = AnswerWith(OptimizeAndConsolidate(asked.matches, asked.offers, Stores,
                                                asked.config))
  /\ cart' = built'.cart
  /\ UNCHANGED <<asked, ticked, answers, addOns, approved>>

----------------------------------------------------------------------------
OnApproval == built # None /\ ~approved
Actions == built.analysis.substitutions \cup built.analysis.omissions

\* With a bug: answers stay whatever is ticked.
ReconcileNothing(ticks, given) == given

\* A tick resolves the questions that share a source with it.
ReconcileInterruptSelections(ticks, given) ==
  [id \in {q.id : q \in {p \in built.options :
                         /\ p.id \in DOMAIN given
                         /\ \A a \in ticks : ToSet(a.sources) \cap p.sources = {}}} |->
     given[id]]

OmittedBy(given) == {given[id].sources : id \in {q \in DOMAIN given : given[q].sku = None}}
PositionOf(id) == (CHOOSE q \in built.options : q.id = id).at

\* Of the answers about one need, that to the question presented last counts.
ForcedBy(given) ==
  LET buying(s) == {id \in DOMAIN given : given[id].sku # None /\ given[id].sources = s}
      last(s) == Least(buying(s), LAMBDA id : <<-PositionOf(id)>>)
  IN  [s \in {t \in {given[id].sources : id \in DOMAIN given} : buying(t) # {}} |->
         {given[last(s)].sku}]
OmittedNow == OmittedBy(answers) \cup Sources(OfKind("omit", ticked))
ForcedNow == ForcedBy(answers) @@ SkusIn(ticked)

\* The cart with what is ticked and what is answered.
ApplyApprovalOutcomes(ticks, given) ==
  CartOfChoices(ticks, OmittedBy(given), ForcedBy(given), built.cart, built.matches, Shop)

Choose(ticks, given) ==
  /\ ticked' = ticks
  /\ answers' = ReconcileInterruptSelections(ticks, given)
  /\ cart' = ApplyApprovalOutcomes(ticks, answers')
  /\ UNCHANGED <<asked, built, addOns, approved>>

MayChoose == OnApproval /\ Cardinality(ticked) + Cardinality(DOMAIN answers) < MaxChoices

\* The ticks after one more budget action, or one less.
OneMoreOrLess ==
  {ticked \cup {a} : a \in IF MayChoose THEN Actions \ ticked ELSE {}}
    \cup {ticked \ {a} : a \in ticked}

\* The ticks of a whole way to meet the budget.
Strategies ==
  {IF p = None THEN built.analysis.preferred ELSE p.actions :
     p \in {built.analysis.recommended} \cup built.analysis.alternatives}

\* The parent ticks a budget action, takes a tick away, or takes a strategy.
TickBudgetActions ==
  /\ OnApproval /\ built.analysis # None
  /\ \E ticks \in OneMoreOrLess \cup Strategies : Choose(ticks, answers)

\* The parent answers a question that no tick resolves.
AnswerQuestion ==
  /\ MayChoose
  /\ \E question \in {q \in built.options : q.id \notin DOMAIN answers} :
       \E option \in question.options :
         /\ \A a \in ticked : ToSet(a.sources) \cap question.sources = {}
         /\ Choose(ticked, question.id :> option @@ answers)

\* Answers the cart does not honour.
ApprovalSelectionContradictions ==
  {id \in DOMAIN answers :
     LET skus == {l.sku : l \in LinesOf(cart, answers[id].sources)}
     IN  IF answers[id].sku = None THEN skus # {} ELSE answers[id].sku \notin skus}

----------------------------------------------------------------------------
Evaluate(selected) ==
  EvaluateAddOnSelection(selected, asked.optional, cart, OmittedNow, ForcedNow,
                         built.matches, Shop)

\* The decisions are saved when every question is answered or resolved and
\* they agree; the summary ticks the optional items that fit.
OpenSummary ==
  /\ OnApproval
  /\ cart # None
  /\ \A q \in built.options :
       \/ q.options = {} \/ q.id \in DOMAIN answers
       \/ \E a \in ticked : ToSet(a.sources) \cap q.sources # {}
  /\ ApprovalSelectionContradictions = {}
  /\ approved' = TRUE
  /\ addOns' =
       IF built.eligible /\ IsComplete(cart) /\ OmittedNow = {}
       THEN Evaluate(RecommendAffordableAddOns(asked.optional, cart, OmittedNow, ForcedNow,
                                               built.matches, Shop))
       ELSE None
  /\ UNCHANGED <<asked, built, ticked, answers, cart>>

AddOnsWithout(i) == addOns.selected \ {i}
AddOnsWith(i) == addOns.selected \cup {i}

\* The parent ticks an optional item, or takes its tick away; all; or none.
TickAddOns ==
  /\ addOns # None
  /\ \E selected \in {IF i \in addOns.selected THEN AddOnsWithout(i) ELSE AddOnsWith(i) :
                        i \in DOMAIN asked.optional} \cup {{}, DOMAIN asked.optional} :
       addOns' = Evaluate(selected)
  /\ UNCHANGED <<asked, built, ticked, answers, cart, approved>>

Next ==
  RunPipeline \/ TickBudgetActions \/ AnswerQuestion \/ OpenSummary \/ TickAddOns
Spec == Init /\ [][Next]_vars

\* What is checked out: with the optional items when they are feasible.
EffectiveCart ==
  IF addOns # None /\ AddOnSelectionIsFeasible(addOns, asked.config.budget)
  THEN addOns.cart ELSE cart
----------------------------------------------------------------------------
GapsOf(made) == ToSet(UnfulfilledGaps(made))
Kept(made) == GapsOf(made) \subseteq GapsOf(built.cart)
Omissions == {a \in ticked : a.kind = "omit"}

\* Whatever the cart changes of what was asked for is asked about, with all
\* the lines it is about, however questions are joined and grouped; so are a
\* need with doubtful products only, and a budget that is exceeded (FR-26).
EveryDoubtIsAsked ==
  built # None =>
    LET asks == VisibleInterrupts(built.batch)
    IN  /\ \A l \in ToSet(SelectedLines(built.cart)) :
             l.substitution = "major" =>
               \E i \in asks : i.sku = l.sku /\ l.id \in i.lines /\ ToSet(l.sources) \subseteq i.sources
        /\ \A m \in ToSet(built.matches) :
             m.all = {} /\ m.blocked # {} =>
               \E i \in asks : i.kind = "low_confidence" /\ m.need.label \in i.told
        /\ built.cart.withinBudget = FALSE => \E i \in built.batch : i.kind = "budget_exceeded"

\* In budget mode, what is ticked and answered leaves out what it says it
\* leaves out and no more, although each choice was priced alone (FR-29).
ChoicesLoseNothing == asked.config.mode = "budget" /\ cart # None => Kept(cart)

\* The same in every mode: "All required items remain covered", the approval
\* screen says of ticks that are substitutions.
RequiredItemsRemainCovered ==
  cart # None /\ answers = <<>> /\ Omissions = {} => Kept(cart)

\* The recommended plan leaves out as few items as will do: no ticks that
\* leave out fewer, and lose nothing else, meet the budget; and none without
\* omissions when substitutions are said not to reach it (BR-04, E-19, E-20).
RecommendedIsFewest ==
  cart # None /\ answers = <<>> /\ built.analysis # None =>
    LET r == built.analysis.recommended
    IN  cart.landed <= cart.budget /\ GapsOf(cart) = GapsOf(built.cart) /\ ~built.analysis.reaches
          => r # None /\ Cardinality(Omissions) >= Cardinality(r.unmet)

\* In budget mode, answers that were offered, given in any order and with any
\* ticks, make a cart that honours each of them, the product chosen is bought,
\* what is left out is not; an answer is contradicted, and saving refused,
\* only by another answer about the same need, which is honoured (FR-29, FR-32).
NeedsAreAnsweredApart ==
  cart # None /\ asked.config.mode = "budget" =>
    \A id \in ApprovalSelectionContradictions :
      \E other \in DOMAIN answers \ ApprovalSelectionContradictions :
        answers[other].sources = answers[id].sources

\* What is proposed can be approved as it is: answering every question with
\* the product in the cart is no contradiction (FR-28: "both a single click").
ProposalCanBeSaved ==
  cart # None /\ asked.config.mode = "budget" /\ ticked = {} =>
    \A id \in ApprovalSelectionContradictions :
      answers[id].sku \notin {l.sku : l \in LinesOf(built.cart, answers[id].sources)}

\* Approving what is in the cart takes nothing out of it, in any mode.
ApprovingLosesNothing == ticked = {} /\ answers # <<>> => Kept(cart)

\* When decisions are saved, every product of the cart that changes what was
\* asked for is one the parent chose.
SubstitutesAreChosen ==
  approved =>
    \A l \in ToSet(SelectedLines(cart)) :
      ChangesOf(built.matches, l.sources, l.sku) # {} =>
        \/ \E id \in DOMAIN answers : answers[id].sku = l.sku /\ answers[id].sources = l.sources
        \/ \E a \in ticked : a.sku = l.sku /\ a.sources = l.sources

\* What the parent is told leaving an item out saves is saved at least.
RemovalsAreHonest ==
  asked.config.mode # "custom" /\ ticked = {} =>
    \A id \in {q \in DOMAIN answers : answers[q].sku = None} :
      DOMAIN answers = {id} => cart.landed - built.cart.landed <= answers[id].delta

\* Optional items, in whatever selection, never push anything out of the cart
\* or the cart over the budget, and leave the answers as they are (BR-05).
AddOnsKeepThePlan ==
  addOns # None =>
    /\ Kept(EffectiveCart)
    /\ asked.config.budget # None => EffectiveCart.landed <= asked.config.budget
    /\ \A l \in ToSet(SelectedLines(cart)) : LinesOf(EffectiveCart, l.sources) # {}
    /\ \A id \in DOMAIN answers :
         {l.sku : l \in LinesOf(EffectiveCart, answers[id].sources)} = {answers[id].sku}

\* Nor any entry's part of it over the entry's budget.
AddOnsKeepEachBudget ==
  addOns # None /\ asked.allocations # None =>
    DOMAIN PerEntryBudgetOverages(EffectiveCart, asked.allocations)
      \subseteq DOMAIN PerEntryBudgetOverages(cart, asked.allocations)

\* An optional item that changes what was asked for is bought only when the
\* parent was asked about it (BR-01, FR-26).
SubstitutionsAreAsked ==
  addOns # None =>
    \A l \in ToSet(SelectedLines(EffectiveCart)) :
      ChangesOf(asked.optional, l.sources, l.sku) = {}
=============================================================================
