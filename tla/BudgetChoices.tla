--------------------------- MODULE BudgetChoices ---------------------------
(* What the parent may choose: other products for a line, items to leave    *)
(* out, ways to meet the budget, and optional items to add; that is,        *)
(* agent/approval_options.py, agent/budget_plans.py and agent/addons.py.    *)
(* A shop is the record of what the cart was built from: offers, stores and *)
(* config.                                                                  *)
EXTENDS ApprovalGate

\* A cart of some of the needs, some of them to be met by given products.
CartWith(omitted, forced, matches, shop) ==
  OptimizeCart(Needs(SelectSeq(matches, LAMBDA m : m.need.sources \notin omitted)),
               shop.offers, shop.stores, shop.config, forced @@ PreferredSkus(matches))

LinesOf(result, sources) == {l \in ToSet(SelectedLines(result)) : l.sources = sources}

----------------------------------------------------------------------------
LineForInterrupt(lineIds, result) ==
  LET lines == SelectedLines(result)
      k == SelectInSeq(lines, LAMBDA l : l.id \in lineIds)
  IN  IF k = 0 THEN None ELSE lines[k]

OfferWithinOverageCeiling(need, offer) ==
  LET packs == (need.quantity + offer.size - 1) \div offer.size
  IN  packs * offer.size <= need.quantity + AllowedOverage(need.quantity)

\* The products offered for a match: those within the overage ceiling if any.
OfferedFor(match, line, offers) ==
  LET pool == IF line = None THEN match.blocked ELSE match.all
      compliant == {sku \in pool : \E o \in offers :
                      o.sku = sku /\ OfferWithinOverageCeiling(match.need, o)}
  IN  IF compliant = {} THEN pool ELSE compliant

IsCurrent(sku, line) == line # None /\ line.sku = sku

\* A choice and the cart with it; none when that cart is not complete.
ChoiceOf(sku, sources, line, made, result) ==
  IF IsCurrent(sku, line) \/ IsComplete(made)
  THEN {[sku |-> sku, sources |-> sources, current |-> IsCurrent(sku, line),
         price |-> MapThenSumSet(LAMBDA l : l.cost, LinesOf(made, sources)),
         delta |-> made.landed - result.landed]}
  ELSE {}

ChoicesFor(line, sourceIds, result, matches, shop) ==
  LET asked == {m \in ToSet(matches) : IF line = None THEN ToSet(m.need.sources) = sourceIds
                                      ELSE m.need.sources = line.sources}
  IN  UNION {UNION {ChoiceOf(sku, m.need.sources, line,
                             IF IsCurrent(sku, line) THEN result
                             ELSE CartWith({}, m.need.sources :> {sku}, matches, shop),
                             result) :
                      sku \in OfferedFor(m, line, shop.offers)} : m \in asked}

\* The products a line, or a need without a line, may be changed to, each
\* with what the whole cart then costs.
BuildCatalogApprovalChoices(lineIds, sourceIds, result, matches, shop) ==
  ChoicesFor(LineForInterrupt(lineIds, result), sourceIds, result, matches, shop)

\* The items that may be left out, and what the cart then costs.
BuildRequiredItemRemovalChoices(result, matches, shop) ==
  {[item |-> n.item, sources |-> n.sources, allocatedTo |-> n.allocatedTo,
    delta |-> CartWith({n.sources}, <<>>, matches, shop).landed - result.landed] :
     n \in {m.need : m \in {o \in ToSet(matches) : Bought(result, o)}}}

----------------------------------------------------------------------------
\* Budget actions: an item left out, or bought as another product.
Action(kind, need, sku, delta) ==
  [kind |-> kind, item |-> need.item, sources |-> need.sources,
   allocatedTo |-> need.allocatedTo, sku |-> sku, delta |-> delta]

OmissionActions(result, matches, shop) ==
  {Action("omit", c, None, c.delta) :
     c \in {d \in BuildRequiredItemRemovalChoices(result, matches, shop) : d.delta < 0}}

SubstitutionActions(result, matches, shop) ==
  LET lineIds(need) == {l.id : l \in LinesOf(result, need.sources)}
      cheaper(choices) == {c \in choices : ~c.current /\ c.delta < 0}
  IN  UNION {{Action("substitute", m.need, c.sku, c.delta) :
                c \in cheaper(BuildCatalogApprovalChoices(lineIds(m.need), ToSet(m.need.sources),
                                                          result, matches, shop))} :
               m \in {n \in ToSet(matches) : Bought(result, n)}}

\* Of each item's substitutions, the one that saves the most.
PreferredSubstitutions(substitutions) ==
  {Least({b \in substitutions : b.sources = a.sources}, LAMBDA b : <<b.delta, b.sku>>) :
     a \in substitutions}

Sources(actions) == {a.sources : a \in actions}
OfKind(kind, actions) == {a \in actions : a.kind = kind}
SkusIn(actions) ==
  [s \in Sources(actions) |-> {a.sku : a \in {b \in actions : b.sources = s}} \ {None}]

\* With a bug: an item left out is asked for as no product at all.
CartOfChoicesForcing(actions, omitted, forced, result, matches, shop) ==
  CartWith(omitted, SkusIn(actions) @@ forced, matches, shop)

\* Two products for one line cannot be had, the parent is told; without any
\* choice the cart stays as it is.
CartOfChoices(actions, omitted, forced, result, matches, shop) ==
  LET swaps == OfKind("substitute", actions)
  IN  IF \E a, b \in swaps : a # b /\ a.sources = b.sources THEN None
      ELSE IF actions = {} /\ omitted = {} /\ forced = <<>> THEN result
      ELSE CartWith(omitted \cup Sources(OfKind("omit", actions)), SkusIn(swaps) @@ forced,
                    matches, shop)

ApplyBudgetActions(actions, result, matches, shop) ==
  CartOfChoices(actions, {}, <<>>, result, matches, shop)

----------------------------------------------------------------------------
\* Items that fewer children need less of are left out first.
OmissionRank(a) ==
  <<Cardinality(DOMAIN a.allocatedTo), SumFunction(a.allocatedTo), a.item>> \o a.sources

Saving(a) == Max({-a.delta, 0})

RanksOf(actions) ==
  LET ranked == SetToSortSeq(actions, LAMBDA a, b : Less(OmissionRank(a), OmissionRank(b)))
  IN  FlattenSeq([k \in DOMAIN ranked |-> OmissionRank(ranked[k])])

\* With a bug: every bundle of as many omissions as there are is tried first.
BundlesMost(omissions, n) == kSubset(Cardinality(omissions) + 1 - n, omissions)

\* The sets of so many omissions that are tried: those that save the most.
Bundles(omissions, n) ==
  LET key(b) == <<-MapThenSumSet(Saving, b)>> \o RanksOf(b)
      all == kSubset(n, omissions)
  IN  {b \in all : Cardinality({c \in all : Less(key(c), key(b))}) < BUDGET_PLAN_CANDIDATE_LIMIT}

PlanWith(actions, exact) ==
  IF exact.budget # None /\ exact.landed > exact.budget THEN None
  ELSE [actions |-> actions, landed |-> exact.landed, unmet |-> OfKind("omit", actions)]

\* A whole way to meet the budget, or None when it does not.
PlanFromActions(actions, result, matches, shop) ==
  PlanWith(actions, ApplyBudgetActions(actions, result, matches, shop))

\* The first of some sets, in order, that has a member.
FirstNonempty(sets) ==
  LET k == SelectInSeq(sets, LAMBDA s : s # {}) IN IF k = 0 THEN {} ELSE sets[k]

\* Every preferred substitution, then as few omissions as will do.
FeasiblePlans(preferred, omissions, result, matches, shop) ==
  FirstNonempty([n \in 1..Cardinality(omissions) |->
                   {PlanFromActions(preferred \cup b, result, matches, shop) :
                      b \in Bundles(omissions, n)} \ {None}])

PlanKey(plan, budget) ==
  <<Cardinality(plan.unmet),
    MapThenSumSet(LAMBDA a : Cardinality(DOMAIN a.allocatedTo), plan.unmet),
    budget - plan.landed>> \o RanksOf(plan.unmet)

\* The plan that keeps the largest item the recommended one leaves out, and
\* leaves out others until the budget is met.
FirstPlanWith(others, preferred, result, matches, shop) ==
  FirstNonempty([k \in DOMAIN others |->
                   {PlanFromActions(preferred \cup ToSet(SubSeq(others, 1, k)),
                                    result, matches, shop)} \ {None}])

PreservingLargest(recommended, preferred, omissions, result, matches, shop) ==
  LET rank(a) == <<-Saving(a)>> \o OmissionRank(a)
  IN  FirstPlanWith(SetToSortSeq(omissions \ recommended.unmet,
                                 LAMBDA a, b : Less(rank(a), rank(b))),
                    preferred, result, matches, shop)

\* The first plan is recommended, and two more are alternatives.
WithPlans(stub, plans, result, matches, shop) ==
  LET next == ToSet(SubSeq(plans, 2, Min({1 + BUDGET_ALTERNATIVE_PLAN_COUNT, Len(plans)})))
  IN  IF plans = <<>> THEN stub
      ELSE [stub EXCEPT
              !.recommended = plans[1],
              !.alternatives =
                 next \cup (IF Cardinality(next) = BUDGET_ALTERNATIVE_PLAN_COUNT THEN {}
                            ELSE PreservingLargest(plans[1], stub.preferred, stub.omissions,
                                                   result, matches, shop))]

InPlanOrder(plans, budget) ==
  SetToSortSeq(plans, LAMBDA p, q : Less(PlanKey(p, budget), PlanKey(q, budget)))

\* When substitutions are not enough: what to leave out as well.
WithOmissions(stub, result, matches, shop) ==
  IF stub.reaches THEN stub
  ELSE WithPlans(stub,
                 InPlanOrder(FeasiblePlans(stub.preferred, stub.omissions, result, matches, shop),
                             result.budget),
                 result, matches, shop)

WithoutOmissions(substitutions, omissions, preferred, substituted, budget) ==
  [substitutions |-> substitutions, omissions |-> omissions, preferred |-> preferred,
   substituted |-> substituted.landed, reaches |-> substituted.landed <= budget,
   recommended |-> None, alternatives |-> {}]

AnalysisFrom(substitutions, preferred, result, matches, shop) ==
  WithOmissions(WithoutOmissions(substitutions, OmissionActions(result, matches, shop), preferred,
                                 ApplyBudgetActions(preferred, result, matches, shop),
                                 result.budget),
                result, matches, shop)

AnalysisOf(substitutions, result, matches, shop) ==
  AnalysisFrom(substitutions, PreferredSubstitutions(substitutions), result, matches, shop)

\* With a budget that is exceeded: what would save, and whether substitutions
\* are enough; else what to leave out, the recommended way and others.
BuildBudgetAnalysis(result, matches, shop) ==
  IF result.budget = None THEN None
  ELSE IF result.landed <= result.budget THEN None
  ELSE AnalysisOf(SubstitutionActions(result, matches, shop), result, matches, shop)

----------------------------------------------------------------------------
\* Optional items are a sequence of matches with, for each, whether the line
\* needs a look before it is bought.

\* They are offered when all that is required is bought and at most 90 % of
\* the budget is spent.
AddOnsEligible(result, optional) ==
  /\ optional # <<>> /\ IsComplete(result)
  /\ result.budget # None =>
       result.landed * 100 <= result.budget * OPTIONAL_ITEM_HEADROOM_PERCENT

\* The cart with some optional items; base is the cart without.
EvaluateAddOnSelection(selected, optional, base, omitted, forced, matches, shop) ==
  LET added == At(optional, LAMBDA i : i \in selected)
      kept == SelectSeq(matches, LAMBDA m : m.need.sources \notin omitted)
  IN  [selected |-> selected,
       cart |-> IF selected = {} THEN base
                ELSE OptimizeCart(Needs(kept \o added), shop.offers, shop.stores, shop.config,
                                  PreferredSkus(added) @@ forced @@ PreferredSkus(matches)),
       review |-> {i \in selected : optional[i].review}]

\* With a bug: what cannot be bought does not stand in the way.
AddOnSelectionIsFeasibleWithGaps(evaluation, budget) ==
  /\ evaluation.review = {}
  /\ budget # None => evaluation.cart.landed <= budget

AddOnSelectionIsFeasible(evaluation, budget) ==
  /\ evaluation.review = {}
  /\ evaluation.cart.gaps = <<>>
  /\ budget # None => evaluation.cart.landed <= budget

\* Ticked beforehand: each in turn, while the cart stays feasible.
RecommendAffordableAddOns(optional, base, omitted, forced, matches, shop) ==
  FoldLeft(LAMBDA selected, i :
             IF AddOnSelectionIsFeasible(
                  EvaluateAddOnSelection(selected \cup {i}, optional, base, omitted, forced,
                                         matches, shop), shop.config.budget)
             THEN selected \cup {i} ELSE selected,
           {}, [i \in DOMAIN optional |-> i])
=============================================================================
