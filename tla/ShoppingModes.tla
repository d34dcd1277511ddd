--------------------------- MODULE ShoppingModes ---------------------------
(* The cart of each shopping mode: the last part of agent/optimize.py, from *)
(* _stores_in_scope to optimize_cart.  stores is a function of the stores'  *)
(* ids; config adds mode, allowed (stores, or None), maxStores and budget   *)
(* to what CartCosts takes; skusFor gives the products that will do for the *)
(* sources of a need.                                                       *)
EXTENDS PackageSelection, StorePlans

IsConfig(config) ==
  /\ {"mode", "maxStores", "preference", "allowed", "radius", "tax", "budget"}
       \subseteq DOMAIN config
  /\ Wants(config) /\ config.maxStores \in Nat \cup {None}

StoresInScope(stores, config) ==
  {s \in DOMAIN stores : config.allowed = None \/ s \in config.allowed}

EligibleStores(stores, config) ==
  {s \in StoresInScope(stores, config) : StoreSupportsFulfillment(stores[s], config)}

\* The products that will do for a need.
WillDo(need, skusFor) ==
  IF need.sources \in DOMAIN skusFor THEN skusFor[need.sources] ELSE {}

\* For each need, the packs of each store that can serve it.
CandidateSelections(needs, offers, eligible, skusFor) ==
  [i \in DOMAIN needs |->
     RestrictValues(
       [s \in eligible |->
          SelectPackages(needs[i], {o \in offers : /\ o.store = s
                                                   /\ o.sku \in WillDo(needs[i], skusFor)})],
       LAMBDA selection : selection # None)]

Labels(needs) == [i \in DOMAIN needs |-> needs[i].label]

\* Everything at one store, or None when it lacks something.
SingleStorePlan(needs, candidates, s, stores, config) ==
  IF \E i \in DOMAIN needs : s \notin DOMAIN candidates[i] THEN None
  ELSE BuildPlan([i \in DOMAIN needs |-> [need |-> needs[i], sel |-> candidates[i][s]]],
                 stores, config)

LandedOf(plan) == IF plan = None THEN None ELSE plan.landed

\* What one store would deliver, and what all of it would cost there.
Tradeoff(needs, candidates, s, stores, config) ==
  [store |-> s, items |-> Labels(At(needs, LAMBDA i : candidates[i] # <<>>)),
   alternative |-> LandedOf(SingleStorePlan(needs, candidates, s, stores, config))]

\* What a parent who asks for pickup gives up at the stores too far away.
FulfillmentTradeoffs(needs, offers, stores, config, skusFor) ==
  LET far == {s \in StoresInScope(stores, config) :
                ~PickupTripIsWithinRadius(stores[s], config.radius)}
  IN  {t \in {Tradeoff(needs, CandidateSelections(needs, offers, {s}, skusFor), s, stores,
                       [config EXCEPT !.preference = "delivery"]) :
                s \in IF config.preference = "pickup" THEN far ELSE {}} :
         t.items # <<>>}

----------------------------------------------------------------------------
\* Of choices that are as good, the first of combinations(): smaller ones
\* first, then by the stores in them.
ScopeKey(S) == <<Cardinality(S)>> \o Sorted(S, <)

\* The cart of what the stores of a scope sell.
WithinScope(needs, candidates, S, stores, config) ==
  LET has(i) == DOMAIN candidates[i] \cap S # {}
      within == [i \in DOMAIN needs |-> Restrict(candidates[i], DOMAIN candidates[i] \cap S)]
  IN  [scope |-> S, second |-> None,
       plan |-> BestPlan(SearchFrom(At(needs, has), At(within, has), stores,
                                    [config EXCEPT !.maxStores = Cardinality(S)])),
       gaps |-> Labels(At(needs, LAMBDA i : ~has(i)))]

Nothing(needs) == [plan |-> EmptyPlan, gaps |-> Labels(needs), second |-> None]

FewestGaps(results, needs) ==
  LET key(r) == <<AsNumber(r.gaps # <<>>), Len(r.gaps)>> \o PlanSortKey(r.plan)
                  \o ScopeKey(r.scope)
  IN  IF results = {} THEN Nothing(needs) ELSE Least(results, key)

ScopesOf(stores, limit) == {S \in SUBSET stores : S # {} /\ Cardinality(S) <= limit}

WholeOrElse(whole, otherwise) ==
  IF whole # None THEN [plan |-> whole, gaps |-> <<>>, second |-> None] ELSE otherwise

\* With a bug: the cheapest of all carts, whatever it leaves out.
BestCustomCheapest(needs, candidates, eligible, stores, config) ==
  LET scopes == ScopesOf(eligible, config.maxStores)
  IN  IF scopes = {} THEN Nothing(needs)
      ELSE Least({WithinScope(needs, candidates, S, stores, config) : S \in scopes},
                 LAMBDA r : PlanSortKey(r.plan))

\* Custom mode with a limit: all needs when some carts within the limit have
\* them; else the stores that leave the fewest out.
BestCustomConstrained(needs, candidates, eligible, stores, config) ==
  WholeOrElse(BestPlan(SearchFrom(needs, candidates, stores, config)),
              FewestGaps({WithinScope(needs, candidates, S, stores, config) :
                            S \in ScopesOf(eligible, config.maxStores)}, needs))

----------------------------------------------------------------------------
StoreIds(plan) == [k \in DOMAIN plan.orders |-> plan.orders[k].store]

\* The cheapest other store that has everything the first one lacks.
MinimumSecondTrip(needs, candidates, eligible, stores, config) ==
  LET cheapest(plans) ==
        IF plans = {} THEN None ELSE Least(plans, LAMBDA p : <<p.landed>> \o StoreIds(p))
      trips == IF needs = <<>> THEN {} ELSE eligible
  IN  cheapest({SingleStorePlan(needs, candidates, s, stores, config) : s \in trips}
                 \ {None})

\* The cart of what a store sells, and the trip for what it lacks.
FirstStop(needs, candidates, s, eligible, stores, config) ==
  LET sells(i) == s \in DOMAIN candidates[i]
      assigned == [i \in DOMAIN needs |->
                     [need |-> needs[i], sel |-> IF sells(i) THEN candidates[i][s] ELSE None]]
      lacks(i) == ~sells(i)
  IN  [plan |-> BuildPlan(At(assigned, sells), stores, config),
       gaps |-> Labels(At(needs, lacks)),
       second |-> MinimumSecondTrip(At(needs, lacks), At(candidates, lacks), eligible,
                                    stores, config)]

\* With a bug: the store with the fewest gaps, whether or not they can be closed.
BestSingleStopFewestGaps(needs, candidates, eligible, stores, config) ==
  Least({FirstStop(needs, candidates, s, eligible, stores, config) : s \in eligible},
        LAMBDA r : <<Len(r.gaps), r.plan.landed>> \o StoreIds(r.plan))

\* Single-stop mode: all at one store, else a store and a second trip that
\* close all gaps, else the store with the fewest gaps.
BestSingleStop(needs, candidates, eligible, stores, config) ==
  LET useful == {s \in eligible : \E i \in DOMAIN needs : s \in DOMAIN candidates[i]}
      landed(r) == r.plan.landed + (IF r.second = None THEN 0 ELSE r.second.landed)
      key(r) ==
        <<AsNumber(r.gaps # <<>>), AsNumber(r.gaps # <<>> /\ r.second = None),
          Len(r.gaps), landed(r), r.plan.landed>> \o StoreIds(r.plan)
  IN  IF useful = {} THEN Nothing(needs)
      ELSE Least({FirstStop(needs, candidates, s, eligible, stores, config) : s \in useful},
                 key)

----------------------------------------------------------------------------
MakeResult(plan, gaps, second, budget, tradeoffs) ==
  LET landed == plan.landed + (IF second = None THEN 0 ELSE second.landed)
  IN  [plan |-> plan, gaps |-> gaps, second |-> second, landed |-> landed,
       comparison |-> IF second = None THEN plan.comparison
                      ELSE landed + ADDITIONAL_STORE_PENALTY_CENTS,
       budget |-> budget,
       withinBudget |-> IF budget = None THEN None ELSE landed <= budget,
       shortfall |-> IF budget = None THEN 0 ELSE Max({landed - budget, 0}),
       tradeoffs |-> tradeoffs]

UnfulfilledGaps(result) == IF result.second = None THEN result.gaps ELSE <<>>
IsComplete(result) == UnfulfilledGaps(result) = <<>>
Plans(result) == {result.plan} \cup ({result.second} \ {None})

\* The cart of the lists' mode, what it leaves out and its second trip.
CartOfMode(needs, candidates, eligible, stores, config) ==
  LET available(i) == candidates[i] # <<>>
  IN  CASE config.mode = "single_stop" ->
             BestSingleStop(needs, candidates, eligible, stores, config)
        [] config.mode = "custom" /\ config.maxStores # None ->
             BestCustomConstrained(needs, candidates, eligible, stores, config)
        [] OTHER ->
             [plan |-> BestPlan(SearchFrom(At(needs, available), At(candidates, available),
                                           stores, config)),
              gaps |-> Labels(At(needs, LAMBDA i : ~available(i))), second |-> None]

ResultOf(cart, budget, tradeoffs) ==
  MakeResult(cart.plan, cart.gaps, cart.second, budget, tradeoffs)

OptimizeCart(needs, offers, stores, config, skusFor) ==
  LET eligible == EligibleStores(stores, config)
  IN  ResultOf(CartOfMode(needs, CandidateSelections(needs, offers, eligible, skusFor),
                          eligible, stores, config),
               config.budget,
               FulfillmentTradeoffs(needs, offers, stores, config, skusFor))

----------------------------------------------------------------------------
\* What each entry pays over all trips, and what it pays above its budget.
PerEntryLandedCosts(result) ==
  SumByChild(IF result.second = None THEN <<result.plan.childLanded>>
             ELSE <<result.plan.childLanded, result.second.childLanded>>)

PerEntryBudgetOverages(result, allocations) ==
  LET costs == PerEntryLandedCosts(result)
      paid(e) == IF e \in DOMAIN costs THEN costs[e] ELSE 0
  IN  RestrictValues([e \in DOMAIN allocations |-> paid(e) - allocations[e]],
                     LAMBDA over : over > 0)
=============================================================================
