---------------------------- MODULE PlanWorkflow ----------------------------
(* The shopping plan, from the confirmed cart to the simulated checkout: the *)
(* gate that asks the parent, the answers, the optional items offered beside *)
(* the plan, and the plan being rebuilt when stock or a price changes        *)
(* (src/app.py, src/agent/pipeline.py and src/agent/addons.py).              *)
(*                                                                           *)
(* A need is one required item of one student, bought as one unit.  The      *)
(* optimizer takes the cheapest stocked product of each need; tax, fees and  *)
(* packages belong to other modules.  leftOut, own and confirmedWith are     *)
(* history variables.                                                        *)
EXTENDS Integers, FiniteSets, FiniteSetsExt, Functions

CONSTANTS
  Need, Sku,
  Payer,       \* who has a budget: every child, or the family as a whole
  Order,       \* the position of a need in the lists
  Item,        \* its canonical item and product definition
  PaidBy,      \* the budget it counts towards
  Candidates,  \* the products judged suitable for it
  Major,       \* the pairs of a need and a product that need an approval
  Preference,  \* how equally priced products are ordered
  SecondStore, \* products that "single store when possible" leaves to a
               \* second trip when the first store has another
  Wanted,      \* the carts Personalize may confirm
  AddOn,       \* the optional items of the lists
  AddOnSku,    \* the product of each
  AddOnOrder,  \* the position of each in the lists
  Price, FirstPrice, Budget,
  PerChild,    \* individual budgets rather than a combined one
  MaxChanges, MaxPlans, None

Group == (SUBSET Need) \ {{}}
Line  == [sku : Sku, cost : Nat]

PartialFunction(D, R) == UNION {[X -> R] : X \in SUBSET D}

\* What the pipeline returns, see Result.
PipelineResult ==
  [can : PartialFunction(Group, SUBSET Sku),
   gated : PartialFunction(Group, Line), cart : PartialFunction(Group, Line),
   asked : PartialFunction(Sku, [line : Nat, needs : Group]),
   over : BOOLEAN, actions : SUBSET Group, eligible : BOOLEAN]

\* None is not a cart nor a result, and no product has the name of another
\* answer.
ASSUME PlanConstants ==
  /\ IsFiniteSet(Need)
  /\ Sku \cap {"approve", "omit", "plan", "raise", "budget"} = {}
  /\ \A groups \in SUBSET Group : None \notin [groups -> Line]
  /\ None \notin PipelineResult
  /\ Order \in [Need -> Nat] /\ PaidBy \in [Need -> Payer]
  /\ \A m, n \in Need : Order[m] = Order[n] => m = n
  /\ Candidates \in [Need -> SUBSET Sku] /\ Major \subseteq Need \X Sku
  /\ Preference \in [Sku -> Nat] /\ SecondStore \subseteq Sku
  /\ \A s, t \in Sku : Preference[s] = Preference[t] => s = t
  /\ Wanted \subseteq (SUBSET Need) \ {{}}
  /\ Price \subseteq Nat \ {0} /\ FirstPrice \in [Sku -> Price]
  /\ Budget \in [Payer -> Nat] /\ PerChild \in BOOLEAN
  /\ IsFiniteSet(Payer)
  /\ IsFiniteSet(AddOn) /\ \A S \in SUBSET AddOn : None # S
  /\ AddOnSku \in [AddOn -> Sku] /\ AddOnOrder \in [AddOn -> Nat]
  /\ ~PerChild => \E p \in Payer : Payer = {p}
  /\ MaxChanges \in Nat /\ MaxPlans \in Nat \ {0}

VARIABLES
  screen,        \* "working" | "approval" | "summary" | "review"
  shown,         \* the last screen of the banner's fourth stage
  stockouts, price, changes,
  plans, units,  \* how many carts were confirmed, and what the last one asks
  result,        \* the pipeline's result, or None
  outcomes,      \* the saved answer to each question of the gate
  resolved,      \* the questions a budget choice has made moot
  budgetActions, \* the items left out to meet a combined budget
  preserved,     \* the answers a replan has kept
  approved,      \* the cart the parent approved, or None
  replanOmitted, replanForced,  \* constraints remembered for replans
  budget,        \* the budget of every payer
  checkout,      \* the confirmed total cost, or None
  ticked,        \* the optional items whose boxes are ticked, or None
  evaluated,     \* those the summary has evaluated (addon_evaluation)
  replanTicked,  \* those remembered for replans
  leftOut,       \* what the parent has left out of the present plan
  own,           \* the answers the parent gave himself, with what they were
                 \* about
  confirmedWith  \* the optional items of the confirmed plan; None when the
                 \* parent has gone back to the questions

catalog == <<stockouts, price, changes>>
answers == <<outcomes, resolved, budgetActions, preserved, approved>>
replans == <<replanOmitted, replanForced>>
addOns  == <<ticked, evaluated, replanTicked>>
history == <<leftOut, own>>
order   == <<checkout, confirmedWith>>
vars == <<screen, shown, catalog, plans, units, result, answers, replans,
          addOns, budget, order, history>>

-----------------------------------------------------------------------------
(* Carts.  A purchase need is a set of needs that are bought together, known *)
(* by their source ids; a cart gives each one a product and what it costs.   *)

IsCart(cart) == DOMAIN cart \subseteq Group /\ cart \in [DOMAIN cart -> Line]

NoCart == [g \in {} |-> None]

Keep(f, S) == Restrict(f, DOMAIN f \cap S)

Skus(cart) == {cart[g].sku : g \in DOMAIN cart}
Bought(cart) == UNION DOMAIN cart

Cost(cart) == SumFunction([g \in DOMAIN cart |-> cart[g].cost])

\* per_entry_landed_costs: a shared package is paid by units consumed.
EntryCost(cart, c) ==
  SumFunction([g \in DOMAIN cart |->
                 (cart[g].cost \div Cardinality(g))
                   * Cardinality({n \in g : PaidBy[n] = c})])

\* session.budget_total
Total(b) == SumFunction(b)

Overages(cart, b) == {c \in Payer : EntryCost(cart, c) > b[c]}

Cheaper(s, t, p) ==
  p[s] < p[t] \/ (p[s] = p[t] /\ Preference[s] <= Preference[t])

FirstTrip(S) == IF S \subseteq SecondStore THEN S ELSE S \ SecondStore

Best(S, p) == CHOOSE s \in FirstTrip(S) : \A t \in FirstTrip(S) : Cheaper(s, t, p)

\* optimize_cart: a need without a stocked candidate is left as a gap.
Optimize(groups, may, p) ==
  [g \in {h \in groups : may[h] # {}} |->
     [sku |-> Best(may[g], p), cost |-> p[Best(may[g], p)] * Cardinality(g)]]

\* Lines are numbered anew in every cart, and the second trip of a cart
\* starts again from one.
First(g) == Min({Order[n] : n \in g})
SameTrip(cart, g, h) ==
  (cart[g].sku \in SecondStore) = (cart[h].sku \in SecondStore)
LineNumber(cart, g) ==
  Cardinality({h \in DOMAIN cart : SameTrip(cart, g, h) /\ First(h) <= First(g)})
LinesAt(cart, i) == {g \in DOMAIN cart : LineNumber(cart, g) = i}

\* The line a line id finds: that of the first trip when both have one.
LineAt(cart, i) ==
  CHOOSE g \in LinesAt(cart, i) :
    cart[g].sku \notin SecondStore
      \/ \A h \in LinesAt(cart, i) : cart[h].sku \in SecondStore

-----------------------------------------------------------------------------
(* The pipeline: needs for one product are bought together, and the gate     *)
(* asks about the budget and about the products that differ.                 *)

Singles(needs) == {{n} : n \in needs}

\* consolidate_selected_skus, applied to the preliminary cart of single needs.
Together(cart, n) ==
  {m \in Bought(cart) : Item[m] = Item[n] /\ cart[{m}].sku = cart[{n}].sku}

Consolidated(needs, may, p) ==
  LET first == Optimize(Singles(needs), may, p)
      joint == {Together(first, n) : n \in Bought(first)}
      all   == joint \cup Singles(needs \ Bought(first))
  IN  [g \in all |->
         IF Cardinality(g) = 1 THEN may[g]
         ELSE {first[{n}].sku : n \in g}]

\* _line_interrupts and _deduplicate: one question for each product, with the
\* number of its first line and the needs it is about.
Differs(cart, g) == \E n \in g : <<n, cart[g].sku>> \in Major

Questions(cart) ==
  LET about(s) == {g \in DOMAIN cart : cart[g].sku = s /\ Differs(cart, g)}
  IN  [s \in {t \in Skus(cart) : about(t) # {}} |->
         [line  |-> Min({LineNumber(cart, g) : g \in about(s)}),
          needs |-> UNION about(s)]]

\* _optimize_and_consolidate, evaluate_gate and build_budget_analysis.  The
\* removal of any line is a budget action of a combined budget; optional
\* items are offered when nothing is missing and a tenth of the budget is left.
Result(needs, may, p, b) ==
  LET can  == Consolidated(needs, may, p)
      cart == Optimize(DOMAIN can, can, p)
  IN  [can     |-> can,
       gated   |-> cart,    \* the cart the questions are about
       cart    |-> cart,    \* proposed_cart
       asked   |-> Questions(cart),
       over    |-> Overages(cart, b) # {},
       actions |-> IF Overages(cart, b) # {} /\ ~PerChild
                   THEN DOMAIN cart ELSE {},
       eligible |-> DOMAIN cart = DOMAIN can /\ 100 * Cost(cart) <= 90 * Total(b)]

NoResult == result = None

\* The ids of the gate's questions; budget_exceeded has one of its own.
Ids(r) == DOMAIN r.asked \cup (IF r.over THEN {"budget"} ELSE {})

-----------------------------------------------------------------------------
(* Approval options, as the screens build them from a cart                   *)

\* The purchase need an option is about: that of the line the number finds.
Target(r, cart, s) ==
  LET i == r.asked[s].line
  IN  IF LinesAt(cart, i) = {} THEN r.asked[s].needs ELSE LineAt(cart, i)

\* build_catalog_approval_choices: without another complete cart only the
\* current product is offered, beside leaving the item out.
OptionsFor(r, cart, s) ==
  LET g == Target(r, cart, s)
  IN  IF LinesAt(cart, r.asked[s].line) = {} THEN {"approve", "omit"}
      ELSE {"omit", cart[g].sku} \cup
           (IF \A h \in DOMAIN r.can : r.can[h] # {} THEN r.can[g] ELSE {})

Recommended(r, cart, s) ==
  IF LinesAt(cart, r.asked[s].line) = {} THEN "approve"
  ELSE cart[Target(r, cart, s)].sku

\* _selected_approval_options: an answer that is no option here selects none.
Selected(r, cart, out) ==
  {s \in DOMAIN out \cap DOMAIN r.asked : out[s] \in OptionsFor(r, cart, s)}

\* _selected_requirement_constraints
Omitted(r, cart, out, acts) ==
  (acts \cap r.actions) \cup
  {Target(r, cart, s) : s \in {t \in Selected(r, cart, out) : out[t] = "omit"}}

ForcedBy(r, cart, out) == {s \in Selected(r, cart, out) : out[s] \in Sku}

Forced(r, cart, out) ==
  [g \in {Target(r, cart, s) : s \in ForcedBy(r, cart, out)} |->
     out[CHOOSE s \in ForcedBy(r, cart, out) : Target(r, cart, s) = g]]

Override(f, g) == [x \in DOMAIN f |-> IF x \in DOMAIN g THEN {g[x]} ELSE f[x]]

\* _apply_approval_outcomes and evaluate_per_entry_budget_adjustments, with
\* the options built when the result arrived (approval_presentations_cache).
Adjusted(r, omit, force, p) ==
  Optimize(DOMAIN r.can \ omit, Override(r.can, force), p)

Apply(r, out, acts, p) ==
  LET omit  == Omitted(r, r.gated, out, acts)
      force == Forced(r, r.gated, out)
  IN  IF omit = {} /\ DOMAIN force = {} THEN r.cart
      ELSE Adjusted(r, omit, force, p)

\* The cart the summary shows.
EffectiveCart ==
  IF approved # None THEN approved
  ELSE Apply(result, outcomes, budgetActions, price)

\* approval_selection_contradictions: answers the cart does not honour.
Contradicted(r, cart, out) ==
  {s \in Selected(r, r.gated, out) :
     LET g == Target(r, r.gated, s)
     IN  \/ out[s] = "omit" /\ g \in DOMAIN cart
         \/ out[s] \in Sku /\ ~(g \in DOMAIN cart /\ cart[g].sku = out[s])}

\* The questions the summary says still need a decision: the saved answer is
\* none of the options of the present plan.
Undecided ==
  (DOMAIN result.asked \ resolved) \ Selected(result, result.gated, outcomes)

-----------------------------------------------------------------------------
(* Optional items *)

\* donation_offer_is_visible: all that is required is in the plan.
Offered == result.eligible /\ DOMAIN EffectiveCart = DOMAIN result.can

AddOnSkus(S) == {AddOnSku[x] : x \in S}
AddOnCost(S, p) == SumFunction([x \in S |-> p[AddOnSku[x]]])

\* addon_selection_is_feasible, for the plan with these items bought as well.
\* A product of a second trip is a gap to it.
Feasible(S) ==
  /\ AddOnSkus(S) \cap stockouts = {}
  /\ (Skus(EffectiveCart) \cup AddOnSkus(S)) \cap SecondStore = {}
  /\ Cost(EffectiveCart) + AddOnCost(S, price) <= Total(budget)

\* recommend_affordable_addons: each item is added, in order, that is feasible
\* with those before it.
IsRecommended(S) ==
  \A x \in AddOn :
    x \in S <=> Feasible({y \in S : AddOnOrder[y] < AddOnOrder[x]} \cup {x})

\* The optional items in the plan: those ticked, if they fit together.
AddOnsBought ==
  IF Offered /\ ticked # None /\ Feasible(ticked) THEN ticked ELSE {}

TotalCost == Cost(EffectiveCart) + AddOnCost(AddOnsBought, price)

-----------------------------------------------------------------------------
Init ==
  /\ screen = "review" /\ shown = "working"
  /\ stockouts = {} /\ price = FirstPrice /\ changes = 0
  /\ plans = 0 /\ units = {} /\ result = None
  /\ outcomes = NoCart /\ resolved = {} /\ budgetActions = {}
  /\ preserved = {} /\ approved = None
  /\ replanOmitted = {} /\ replanForced = NoCart
  /\ budget = Budget /\ checkout = None
  /\ ticked = None /\ evaluated = {} /\ replanTicked = {}
  /\ leftOut = {} /\ own = NoCart /\ confirmedWith = None

Show(s) == screen' = s /\ shown' = s

\* "Use these choices and build my shopping plan" forgets the earlier plan
\* and its answers, but not what was remembered for replans.
ReviewConfirm ==
  /\ screen = "review" /\ plans < MaxPlans
  /\ plans' = plans + 1 /\ units' \in Wanted
  /\ result' = None /\ approved' = None /\ checkout' = None
  /\ outcomes' = NoCart /\ resolved' = {} /\ budgetActions' = {}
  /\ leftOut' = {} /\ own' = NoCart /\ confirmedWith' = None
  /\ Show("working")
  /\ UNCHANGED <<catalog, preserved, replans, addOns, budget>>

\* With a bug: the question about the budget is not waited for.
RouteToProducts(r, out) ==
  /\ outcomes' = Keep(out, Ids(r))
  /\ Show(IF DOMAIN r.asked \subseteq DOMAIN out THEN "summary" ELSE "approval")

\* Where the app goes with a result: to the questions without an answer.
RouteTo(r, out) ==
  /\ outcomes' = Keep(out, Ids(r))
  /\ Show(IF Ids(r) \subseteq DOMAIN out THEN "summary" ELSE "approval")

\* A screen is drawn.  The summary offers the optional items: the boxes of a
\* plan that has not had any are set to the recommended ones.
Draw(boxes, before) ==
  LET offers == screen' = "summary" /\ Offered'
  IN  /\ IF offers /\ boxes = None
         THEN ticked' \in SUBSET AddOn /\ IsRecommended(ticked)'
         ELSE ticked' = boxes
      /\ evaluated' = IF screen' # "summary" THEN before
                      ELSE IF offers THEN ticked' ELSE {}

\* The candidates of the needs to be planned for, with what is sold out, was
\* left out or is forced taken into account.
Matches(needs, omit, force, out) ==
  [g \in Singles(needs) \ omit |->
     {s \in Candidates[CHOOSE n \in needs : g = {n}] \ out :
        g \in DOMAIN force => s = force[g]}]

Planned(omit, force, out, p) ==
  Result({n \in units : {n} \notin omit}, Matches(units, omit, force, out),
         p, budget)

\* The cart is built and the session is routed by its questions.
Build ==
  /\ screen = "working" /\ NoResult
  /\ result' = Planned({}, NoCart, stockouts, price)
  /\ RouteTo(result', outcomes)
  /\ approved' = None /\ budgetActions' = {} /\ resolved' = {}
  /\ preserved' = {}
  /\ UNCHANGED <<catalog, plans, units, replans, budget, order, history>>
  /\ Draw(None, {}) /\ UNCHANGED replanTicked

\* The working screen finds the result a catalog change has left it.
Route ==
  /\ screen = "working" /\ ~NoResult
  /\ RouteTo(result, outcomes)
  /\ own' = Keep(own, DOMAIN outcomes')
  /\ UNCHANGED <<catalog, plans, units, result, resolved, budgetActions,
                 preserved, approved, replans, budget, order, leftOut>>
  /\ Draw(ticked, evaluated) /\ UNCHANGED replanTicked

-----------------------------------------------------------------------------
(* The approval screen *)

\* What the parent may have selected for every question about a product that
\* no budget choice has made moot.  A preserved answer is not asked again; if
\* it is no option any more the recommended one takes its place.
Answers(r, moot) ==
  LET ids == DOMAIN r.asked \ moot
  IN  {out \in [ids -> Sku \cup {"approve", "omit"}] :
         \A s \in ids :
           /\ out[s] \in OptionsFor(r, r.gated, s)
           /\ s \in preserved =>
                out[s] = IF s \in Selected(r, r.gated, outcomes)
                         THEN outcomes[s] ELSE Recommended(r, r.gated, s)}

WithBudget(r, out, answer) ==
  [i \in DOMAIN out \cup (IF r.over THEN {"budget"} ELSE {}) |->
     IF i = "budget" THEN answer ELSE out[i]]

\* The needs a set of answers and removals leaves out, and the needs the
\* parent was asked about: the whole plan, when the budget was the question.
LeaveOut(r, out, removed) ==
  UNION (Omitted(r, r.gated, out, {}) \cup removed)
DecidedOn(r) ==
  IF r.over THEN UNION DOMAIN r.can
  ELSE UNION {Target(r, r.gated, s) : s \in DOMAIN r.asked \ preserved}

\* The answers the parent has given himself: those just given, and those of
\* before that have not been replaced by the recommended product.
Given(r, out) ==
  LET kept == {s \in preserved \cap DOMAIN own \cap DOMAIN out :
                 own[s].answer \in OptionsFor(r, r.gated, s)}
  IN  [s \in (DOMAIN out \ preserved) \cup kept |->
         IF s \in kept THEN own[s]
         ELSE [answer |-> out[s], needs |-> r.asked[s].needs]]

\* With a bug: the proposed cart is kept instead of the one the parent approved.
SavedProposed(r, out, answer, moot, acts, removed, cart) ==
  /\ Contradicted(r, cart, out) = {}
  /\ outcomes' = WithBudget(r, out, answer)
  /\ resolved' = moot /\ budgetActions' = acts
  /\ approved' = r.cart /\ preserved' = {}
  /\ leftOut' = LeaveOut(r, out, removed) \cup (leftOut \ DecidedOn(r))
  /\ own' = Given(r, out)
  /\ Show("summary")
  /\ UNCHANGED <<catalog, plans, units, replans, order>>

Saved(r, out, answer, moot, acts, removed, cart) ==
  /\ Contradicted(r, cart, out) = {}
  /\ outcomes' = WithBudget(r, out, answer)
  /\ resolved' = moot /\ budgetActions' = acts
  /\ approved' = cart /\ preserved' = {}
  /\ leftOut' = LeaveOut(r, out, removed) \cup (leftOut \ DecidedOn(r))
  /\ own' = Given(r, out)
  /\ Show("summary")
  /\ UNCHANGED <<catalog, plans, units, replans, order>>

\* "Save decisions and continue".  Over a combined budget the parent leaves
\* items out or raises the budget to what the plan costs.
Save(acts, raise) ==
  /\ screen = "approval" /\ ~(PerChild /\ result.over)
  /\ acts \subseteq result.actions
  /\ raise => result.over /\ acts = {}
  /\ LET moot == {s \in DOMAIN result.asked :
                    result.asked[s].needs \cap UNION acts # {}}
     IN  \E out \in Answers(result, moot) :
           LET cart == Apply(result, out, acts, price)
           IN  /\ Saved(result, out, IF raise THEN "raise" ELSE "plan", moot,
                        acts, acts, cart)
               /\ raise => \A c \in Payer : EntryCost(cart, c) >= budget[c]
               /\ budget' = IF raise THEN [c \in Payer |-> EntryCost(cart, c)]
                            ELSE budget
  /\ UNCHANGED result
  /\ Draw(ticked, evaluated) /\ UNCHANGED replanTicked

\* Over individual budgets the parent unchecks items of the students who are
\* over, and accepts what remains; the approved cart becomes the proposed one.
SavePerEntry(removed) ==
  /\ screen = "approval" /\ PerChild /\ result.over
  /\ \A g \in removed :
       g \in DOMAIN result.cart
         /\ \E n \in g : PaidBy[n] \in Overages(result.cart, budget)
  /\ LET moot == {s \in DOMAIN result.asked : result.asked[s].needs \in removed}
     IN  \E out \in Answers(result, moot) :
           LET cart == Adjusted(result,
                         Omitted(result, result.gated, out, {}) \cup removed,
                         Forced(result, result.gated, out), price)
           IN  /\ Saved(result, out, "raise", moot, {}, removed, cart)
               /\ budget' = [c \in Payer |->
                    IF c \in Overages(cart, budget) THEN EntryCost(cart, c)
                    ELSE budget[c]]
               /\ result' = [result EXCEPT !.cart = cart]
  /\ Draw(ticked, evaluated) /\ UNCHANGED replanTicked

-----------------------------------------------------------------------------
(* The summary, and catalog changes *)

\* The products the approval screen may show, whatever is selected there.
Shown(r) ==
  IF screen = "summary" THEN Skus(EffectiveCart) \cup AddOnSkus(AddOnsBought)
  ELSE Skus(r.cart) \cup
       (Sku \cap UNION {OptionsFor(r, r.gated, s) : s \in DOMAIN r.asked})

\* With a bug: the approved cart survives a replan.
ReplanKeepingCart(new, out) ==
  /\ result' = new
  /\ outcomes' = Keep(out, DOMAIN new.asked)
  /\ preserved' = DOMAIN out \cap DOMAIN new.asked
  /\ resolved' = {} /\ checkout' = None /\ confirmedWith' = None
  /\ own' = Keep(own, DOMAIN outcomes')
  /\ ticked' = replanTicked' /\ evaluated' = {}
  /\ Show("working")
  /\ changes' = changes + 1
  /\ UNCHANGED <<plans, units, budgetActions, budget, leftOut, approved>>

\* With a bug: the checkout confirmation survives a replan.
ReplanKeepingCheckout(new, out) ==
  /\ result' = new
  /\ outcomes' = Keep(out, DOMAIN new.asked)
  /\ preserved' = DOMAIN out \cap DOMAIN new.asked
  /\ approved' = None /\ resolved' = {}
  /\ own' = Keep(own, DOMAIN outcomes')
  /\ ticked' = replanTicked' /\ evaluated' = {}
  /\ Show("working")
  /\ changes' = changes + 1
  /\ UNCHANGED <<plans, units, budgetActions, budget, leftOut, order>>

\* _store_replan_transition: answers to questions still asked are kept, but
\* for the one about the budget.  The boxes of optional items are those
\* remembered for replans.
Replan(new, out) ==
  /\ result' = new
  /\ outcomes' = Keep(out, DOMAIN new.asked)
  /\ preserved' = DOMAIN out \cap DOMAIN new.asked
  /\ approved' = None /\ resolved' = {}
  /\ checkout' = None /\ confirmedWith' = None
  /\ own' = Keep(own, DOMAIN outcomes')
  /\ ticked' = replanTicked' /\ evaluated' = {}
  /\ Show("working")
  /\ changes' = changes + 1
  /\ UNCHANGED <<plans, units, budgetActions, budget, leftOut>>

\* A product is marked out of stock.  The choices in force are turned into
\* constraints, through options built anew from the present cart, and are
\* added to those of earlier replans.
StockOut(s) ==
  /\ screen \in {"approval", "summary"} /\ changes < MaxChanges
  /\ s \in Shown(result)
  /\ stockouts' = stockouts \cup {s}
  /\ LET gone  == {i \in Selected(result, result.cart, outcomes) :
                     outcomes[i] = s}
         out   == Keep(outcomes, DOMAIN outcomes \ gone)
         now   == Forced(result, result.cart, out)
         force == [g \in DOMAIN replanForced \cup DOMAIN now |->
                     IF g \in DOMAIN now THEN now[g] ELSE replanForced[g]]
     IN  /\ replanTicked' = evaluated
         /\ replanOmitted' = replanOmitted
              \cup Omitted(result, result.cart, out, budgetActions)
         /\ replanForced' = Keep(force, {g \in DOMAIN force : force[g] # s})
         /\ Replan(Planned(replanOmitted', replanForced', stockouts', price), out)
  /\ UNCHANGED price

\* A price changes: the plan is rebuilt with the answers, but without any of
\* the constraints, and with the optional items of the last stock change.
PriceChange(s, p) ==
  /\ screen = "summary" /\ changes < MaxChanges
  /\ s \in Shown(result) /\ p # price[s]
  /\ price' = [price EXCEPT ![s] = p]
  /\ UNCHANGED <<stockouts, replans, replanTicked>>
  /\ Replan(Planned({}, NoCart, stockouts, price'), outcomes)

\* detect_cart_staleness
Stale(cart) ==
  {g \in DOMAIN cart : \/ cart[g].sku \in stockouts
                       \/ cart[g].cost # price[cart[g].sku] * Cardinality(g)}

\* The plan on the screen is confirmed; its optional items are priced anew
\* whenever the summary is drawn, so they are never stale.
CheckOut ==
  /\ screen = "summary" /\ Stale(EffectiveCart) = {}
  /\ checkout' = TotalCost /\ confirmedWith' = AddOnsBought
  /\ UNCHANGED <<screen, shown, catalog, plans, units, result, answers,
                 replans, addOns, budget, history>>

\* A box is ticked or cleared, or all are.  The confirmation stays.
TickAddOns(S) ==
  /\ screen = "summary" /\ Offered /\ S # ticked
  /\ S \in {{}, AddOn} \/ \E x \in AddOn : S \ {x} = ticked \ {x}
  /\ ticked' = S /\ evaluated' = S
  /\ UNCHANGED <<screen, shown, catalog, plans, units, result, answers,
                 replans, replanTicked, budget, order, history>>

\* _return_to_approval, offered beside a question that needs a decision.  The
\* confirmation stays here too.
ReturnToApproval ==
  /\ screen = "summary" /\ Undecided # {}
  /\ Show("approval")
  /\ confirmedWith' = None
  /\ UNCHANGED <<catalog, plans, units, result, answers, replans, addOns,
                 budget, checkout, history>>

\* "Back to cart" takes the confirmation back; the banner does not.
BackToCart ==
  /\ screen = "summary"
  /\ screen' = "review" /\ checkout' = None /\ confirmedWith' = None
  /\ UNCHANGED <<shown, catalog, plans, units, result, answers, replans,
                 addOns, budget, history>>

Banner ==
  /\ \/ screen \in {"approval", "summary"} /\ screen' = "review"
     \/ screen = "review" /\ ~NoResult /\ screen' = shown
  /\ UNCHANGED <<shown, catalog, plans, units, result, answers, replans,
                 addOns, budget, order, history>>

-----------------------------------------------------------------------------
Next ==
  \/ ReviewConfirm \/ Build \/ Route
  \/ \E acts \in SUBSET Group, raise \in BOOLEAN : Save(acts, raise)
  \/ \E removed \in SUBSET Group : SavePerEntry(removed)
  \/ \E s \in Sku : StockOut(s)
  \/ \E s \in Sku, p \in Price : PriceChange(s, p)
  \/ \E S \in SUBSET AddOn : TickAddOns(S)
  \/ CheckOut \/ ReturnToApproval \/ BackToCart \/ Banner

Spec == Init /\ [][Next]_vars

-----------------------------------------------------------------------------
(* Properties *)

\* The type of a result, in a form that can be evaluated.
IsResult(r) ==
  /\ DOMAIN r.can \subseteq Group /\ \A g \in DOMAIN r.can : r.can[g] \subseteq Sku
  /\ IsCart(r.gated) /\ IsCart(r.cart)
  /\ DOMAIN r.asked \subseteq Sku
  /\ \A s \in DOMAIN r.asked : r.asked[s].line \in Nat /\ r.asked[s].needs \in Group
  /\ r.over \in BOOLEAN /\ r.actions \subseteq Group /\ r.eligible \in BOOLEAN

\* The state of the plan's screens: the types of the session values.
TypeOK ==
  /\ screen \in {"working", "approval", "summary", "review"}
  /\ shown \in {"working", "approval", "summary"}
  /\ stockouts \subseteq Sku /\ price \in [Sku -> Price]
  /\ changes \in 0..MaxChanges /\ plans \in 0..MaxPlans
  /\ units \subseteq Need
  /\ result # None => IsResult(result)
  /\ DOMAIN outcomes \subseteq Sku \cup {"budget"}
  /\ \A i \in DOMAIN outcomes :
       outcomes[i] \in Sku \cup {"approve", "omit", "plan", "raise"}
  /\ resolved \subseteq Sku /\ preserved \subseteq Sku
  /\ budgetActions \subseteq Group
  /\ approved # None => IsCart(approved)
  /\ replanOmitted \subseteq Group
  /\ DOMAIN replanForced \subseteq Group
  /\ \A g \in DOMAIN replanForced : replanForced[g] \in Sku
  /\ budget \in [Payer -> Nat]
  /\ checkout = None \/ checkout \in Nat
  /\ leftOut \subseteq Need
  /\ ticked = None \/ ticked \subseteq AddOn
  /\ evaluated \subseteq AddOn /\ replanTicked \subseteq AddOn
  /\ confirmedWith = None \/ confirmedWith \subseteq AddOn
  /\ DOMAIN own \subseteq Sku
  /\ \A s \in DOMAIN own :
       own[s].answer \in Sku \cup {"approve", "omit"} /\ own[s].needs \in Group

OnSummary == screen = "summary"

\* BR-12: whatever has changed in the catalog, the plan on the summary is of
\* products in stock at their present price, so checkout is never refused.
SummaryIsCurrent == OnSummary => Stale(EffectiveCart) = {}

\* FR-31: on the summary every question has an answer that is one of its
\* options, or is moot; without a cart the parent has approved since, it may
\* instead have had an answer that the last catalog change has kept, which is
\* then listed there as undecided.
EveryQuestionAnswered ==
  OnSummary =>
    /\ result.over => "budget" \in DOMAIN outcomes
    /\ approved # None => Undecided = {}
    /\ Undecided \subseteq preserved

\* The plan on the summary honours an answer: its need gets that product, or
\* none when it was left out.
Honoured(s, answer) ==
  LET g == Target(result, result.gated, s)
      bought == g \in DOMAIN EffectiveCart
  IN  CASE answer = "omit" -> ~bought
        [] answer = "approve" -> TRUE
        [] OTHER -> bought /\ EffectiveCart[g].sku = answer

\* What the parent has answered himself, and can still be had, is saved as he
\* gave it and is what the plan on the summary buys, also after replans and
\* after further questions that did not ask for it again.
AnswersAreHonoured ==
  OnSummary =>
    \A s \in DOMAIN own :
      own[s].answer \in OptionsFor(result, result.gated, s) =>
        outcomes[s] = own[s].answer /\ Honoured(s, own[s].answer)

\* A confirmation on the summary is for the required part of the plan shown
\* there, with the optional items that were in it, at present prices, unless
\* the parent has gone back to the questions after it.
ConfirmationOutlivesNoReplan ==
  OnSummary /\ checkout # None /\ confirmedWith # None =>
    checkout = Cost(EffectiveCart) + AddOnCost(confirmedWith, price)

\* FR-35: a confirmation on the summary is for the plan the summary shows.
CheckoutIsOfThisPlan ==
  OnSummary /\ checkout # None => checkout = TotalCost

\* FR-32: "re-ask only what the change invalidated": what the parent answered
\* and cannot have any more is asked again before the plan is shown.
InvalidatedAnswersAreAskedAgain == OnSummary => Undecided = {}

\* FR-32: what the parent answered about a question that is still asked is
\* what the plan buys, also when it is no option there any more.
AnswersAreKept ==
  OnSummary =>
    \A s \in DOMAIN own : Honoured(s, own[s].answer)

\* FR-31, FR-32: every choice on the summary is one the parent has made.
ChoicesAreTheParents ==
  OnSummary => DOMAIN result.asked \subseteq DOMAIN own \cup resolved

\* FR-32: "Preserve every prior parent decision that remains valid": a change
\* of a price leaves the optional items ticked.
TicksSurvivePriceChanges ==
  [][ changes' # changes /\ stockouts' = stockouts /\ OnSummary
        => ticked' = AddOnsBought ]_vars

\* E-30: a plan rebuilt since the parent last approved one is gated again when
\* it costs more than the budget.
OverspendIsGatedAgain ==
  OnSummary /\ approved = None => Overages(EffectiveCart, budget) = {}

\* BR-01: no major substitution is in the plan that the parent did not choose
\* for the need that gets it.
MajorIsApproved ==
  OnSummary =>
    \A g \in DOMAIN EffectiveCart :
      \A n \in g : <<n, EffectiveCart[g].sku>> \in Major =>
        \E s \in DOMAIN own :
          own[s].answer = EffectiveCart[g].sku /\ n \in own[s].needs

\* FR-29: "The agent never removes a required item to fit a budget on its own
\* initiative": what is missing from the plan was left out by the parent, of
\* this plan, or is sold out.
NothingIsDropped ==
  OnSummary =>
    \A n \in units \ Bought(EffectiveCart) :
      n \in leftOut \/ Candidates[n] \subseteq stockouts

\* FR-32: what the parent left out of the plan stays out when it is rebuilt.
LeftOutStaysOut == OnSummary => leftOut \cap Bought(EffectiveCart) = {}
=============================================================================
