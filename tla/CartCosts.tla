----------------------------- MODULE CartCosts -----------------------------
(* What a cart costs and who pays: the second part of agent/optimize.py,    *)
(* from calculate_tax to _plan_sort_key, with agent/store_scope.py.  A      *)
(* store is a record [id, distance, pickup, pickupFee, pickupMin,           *)
(* deliveryFee, deliveryMin, taxed]; config holds preference, radius and    *)
(* tax (in basis points).  An assignment is a record of a need and the      *)
(* packs selected for it; a need says how many units each child gets.       *)
EXTENDS Rules, SequencesExt, TLC

\* The stores of a catalogue, by their ids.  No choice of them is None.
IsStores(stores) ==
  /\ IsFiniteSet(DOMAIN stores)
  /\ \A S \in SUBSET (DOMAIN stores) : S # None
  /\ \A s \in DOMAIN stores : /\ s \in Int /\ stores[s].id = s
                              /\ stores[s].pickupFee \in Nat /\ stores[s].deliveryFee \in Nat

\* How the parent wants to get the cart.
Wants(config) == config.preference \in {"pickup", "delivery", "either"} /\ config.tax \in Nat

\* Finitely many children, each with some units or cents.
Weights(w) == IsFiniteSet(DOMAIN w) /\ \A c \in DOMAIN w : c \in Int /\ w[c] \in Nat

\* A need, with the units that each child gets of it.
IsNeed(need) ==
  /\ {"label", "quantity", "brand", "allocatedTo", "sources", "variant"} \subseteq DOMAIN need
  /\ need.label \in Int /\ need.quantity \in Nat \ {0}
  /\ need.allocatedTo \in [DOMAIN need.allocatedTo -> Nat \ {0}]
  /\ Weights(need.allocatedTo) /\ SumFunction(need.allocatedTo) = need.quantity

\* What a line of a selection says.
SelectedPacks == [sku : Int, packs : Nat, units : Nat, cost : Nat]

\* The packs of a store that were selected for a need.
IsSelection(sel) ==
  /\ sel.cost \in Nat \ {0}
  /\ sel.lines \in Seq(SelectedPacks)
  /\ SumFunctionOnSet([j \in DOMAIN sel.lines |-> sel.lines[j].cost], DOMAIN sel.lines) = sel.cost

CalculateTax(subtotal, basisPoints) ==
  (subtotal * basisPoints + TAX_ROUNDING_OFFSET) \div BASIS_POINTS_DENOMINATOR

FeeForMinimum(subtotal, fee, waiverMinimum) ==
  IF subtotal < waiverMinimum THEN fee ELSE 0

\* The radius limits trips, not deliveries.
PickupTripIsWithinRadius(store, radius) ==
  store.pickup /\ (radius = None \/ store.distance <= radius)

StoreSupportsFulfillment(store, config) ==
  config.preference = "pickup" => PickupTripIsWithinRadius(store, config.radius)

FirstOffer(choices) ==
  IF choices = {} THEN None ELSE Least(choices, LAMBDA c : <<c.fee, c.late>>)

\* The cheaper permitted method, pickup when they cost the same.
ChooseFulfillment(store, subtotal, config) ==
  FirstOffer({c \in {[method |-> "pickup", late |-> 0,
                      fee |-> FeeForMinimum(subtotal, store.pickupFee, store.pickupMin)],
                     [method |-> "delivery", late |-> 1,
                      fee |-> FeeForMinimum(subtotal, store.deliveryFee,
                                            store.deliveryMin)]} :
                /\ config.preference \in {c.method, "either"}
                /\ c.method = "pickup" => PickupTripIsWithinRadius(store, config.radius)})

----------------------------------------------------------------------------

Positive(amounts) == RestrictValues(amounts, LAMBDA n : n > 0)

\* The whole cents of total that each pays who has some of the units.
WholeCents(total, paying, units) ==
  [c \in DOMAIN paying |-> (total * paying[c]) \div units]

\* With a bug: what whole cents leave over is nobody's.
AllocateCentsDown(total, weights) ==
  LET paying == Positive(weights) IN WholeCents(total, paying, SumFunction(paying))

\* What whole cents leave over goes, a cent each, to the largest remainders,
\* earlier children first.
WithLeftOver(total, paying, units, share) ==
  LET left(c) == (total * paying[c]) % units
      before(c) == {d \in DOMAIN paying : Less(<<-left(d), d>>, <<-left(c), c>>)}
      undistributed == total - SumFunction(share)
  IN  [c \in DOMAIN share |->
         share[c] + (IF Cardinality(before(c)) < undistributed THEN 1 ELSE 0)]

SharedByUnits(total, paying, units) ==
  WithLeftOver(total, paying, units, WholeCents(total, paying, units))

\* Cents in proportion to weights.
AllocateCents(total, weights) ==
  LET paying == Positive(weights) IN SharedByUnits(total, paying, SumFunction(paying))

\* The units the children before c need.
NeededBefore(allocatedTo, c) ==
  SumFunctionOnSet(allocatedTo, {d \in DOMAIN allocatedTo : d < c})

Overlap(from, to, start, end) == Min({to, end}) - Max({from, start})

\* With a bug: each line is shared out as if it were the first.
LineUnitAllocationsAnew(allocatedTo, lines) ==
  [j \in DOMAIN lines |->
     Positive([c \in DOMAIN allocatedTo |->
                 Overlap(0, lines[j].units, NeededBefore(allocatedTo, c),
                         NeededBefore(allocatedTo, c) + allocatedTo[c])])]

\* The units of each line go to the children in order, each until it has
\* what it needs: with the units of all lines end to end, and the needs of
\* all children end to end, a line gives each child what they overlap.
LineUnitAllocations(allocatedTo, lines) ==
  LET upTo(j) == SumFunction([i \in 1..j |-> lines[i].units])
  IN  [j \in DOMAIN lines |->
         Positive([c \in DOMAIN allocatedTo |->
                     Overlap(upTo(j - 1), upTo(j), NeededBefore(allocatedTo, c),
                             NeededBefore(allocatedTo, c) + allocatedTo[c])])]

----------------------------------------------------------------------------
EmptyPlan ==
  [lines |-> <<>>, orders |-> <<>>, items |-> 0, tax |-> 0, fees |-> 0,
   landed |-> 0, comparison |-> 0, childItems |-> <<>>, childLanded |-> <<>>]

\* A sum of cents by child, over what some functions give some children.
SumByChild(costs) ==
  [c \in UNION {DOMAIN costs[k] : k \in DOMAIN costs} |->
     SumFunction([k \in {k \in DOMAIN costs : c \in DOMAIN costs[k]} |-> costs[k][c]])]

\* A line of an assignment.  Its id is its assignment and its place in it.
CartLine(a, i, j, given, needed) ==
  LET l == a.sel.lines[j]
  IN  [id |-> <<i, j>>, item |-> a.need.item, sku |-> l.sku,
       store |-> a.sel.store, packs |-> l.packs, units |-> l.units,
       needed |-> needed, over |-> l.units - needed, allocatedTo |-> given,
       cost |-> l.cost, sources |-> a.need.sources,
       substitution |-> IF a.sel.over > 0 THEN "minor" ELSE "none",
       approval |-> IF a.sel.exception THEN "pending" ELSE "not_required"]

LinesFrom(a, i, given) ==
  [j \in DOMAIN a.sel.lines |-> CartLine(a, i, j, given[j], SumFunction(given[j]))]

CartLines(assignments) ==
  FlattenSeq([i \in DOMAIN assignments |->
                LinesFrom(assignments[i], i,
                        LineUnitAllocations(assignments[i].need.allocatedTo,
                                            assignments[i].sel.lines))])

TaxOn(store, items, config) ==
  IF store.taxed THEN CalculateTax(items, config.tax) ELSE 0

\* What an order costs, by the method that was chosen.
Order(store, lines, items, tax, chosen) ==
  [store |-> store.id, method |-> chosen.method, lines |-> lines,
   items |-> items, tax |-> tax, fee |-> chosen.fee,
   landed |-> items + tax + chosen.fee]

OrderOf(store, lines, items, config) ==
  Order(store, lines, items, TaxOn(store, items, config),
        ChooseFulfillment(store, items, config))

BuildOrder(store, lines, config) ==
  OrderOf(store, lines, SumFunction([i \in DOMAIN lines |-> lines[i].cost]), config)

OrdersAt(used, lines, stores, config) ==
  [k \in DOMAIN used |->
     BuildOrder(stores[used[k]], At(lines, LAMBDA i : lines[i].store = used[k]), config)]

\* One order per store, in store order.  stores is a function of their ids.
StoreOrders(lines, stores, config) ==
  OrdersAt(Sorted({lines[i].store : i \in DOMAIN lines}, <), lines, stores, config)

\* What the children pay of each assignment.
ItemShares(assignments) ==
  [i \in DOMAIN assignments |->
     AllocateCents(assignments[i].sel.cost, assignments[i].need.allocatedTo)]

\* What the children pay of the tax and of the fee of each order, by what
\* they pay of its items.
ChargeShares(assignments, orders, shares) ==
  LET charges == [k \in DOMAIN orders |-> <<orders[k].store, orders[k].tax>>]
                   \o [k \in DOMAIN orders |-> <<orders[k].store, orders[k].fee>>]
      at(s) == {i \in DOMAIN assignments : assignments[i].sel.store = s}
  IN  [k \in DOMAIN charges |->
         AllocateCents(charges[k][2], SumByChild(Restrict(shares, at(charges[k][1]))))]

Total(orders, amount) == SumFunction([k \in DOMAIN orders |-> orders[k][amount]])

PlanOfOrders(assignments, lines, orders, shares) ==
  LET landed == Total(orders, "items") + Total(orders, "tax") + Total(orders, "fee")
  IN
  [lines |-> lines, orders |-> orders, items |-> Total(orders, "items"),
   tax |-> Total(orders, "tax"), fees |-> Total(orders, "fee"), landed |-> landed,
   comparison |-> landed + (Len(orders) - 1) * ADDITIONAL_STORE_PENALTY_CENTS,
   childItems |-> SumByChild(shares),
   childLanded |-> SumByChild(shares \o ChargeShares(assignments, orders, shares))]

PlanOfLines(assignments, lines, stores, config) ==
  PlanOfOrders(assignments, lines, StoreOrders(lines, stores, config),
               ItemShares(assignments))

\* A whole cart: its orders, and each child's part.
BuildPlan(assignments, stores, config) ==
  IF assignments = <<>> THEN EmptyPlan
  ELSE PlanOfLines(assignments, CartLines(assignments), stores, config)

PlanSortKey(plan) ==
  <<plan.comparison, plan.landed, Len(plan.orders)>>
    \o [k \in DOMAIN plan.orders |-> plan.orders[k].store]
    \o [i \in DOMAIN plan.lines |-> plan.lines[i].sku]
=============================================================================
