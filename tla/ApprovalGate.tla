---------------------------- MODULE ApprovalGate ----------------------------
(* What the parent is asked about a cart: agent/gate.py, and the decoration *)
(* of the cart's lines by agent/pipeline.py.  A match says of each product  *)
(* that will do what it changes of what was asked for ("brand" when it      *)
(* breaks a brand lock, or an attribute, "pack_count"): a product that      *)
(* changes something is a major substitution.                               *)
EXTENDS Consolidation

\* What a product changes of what the need with these sources asks for.
ChangesOf(matches, sources, sku) ==
  UNION {m.changes[sku] : m \in {n \in ToSet(matches) :
                                   n.need.sources = sources /\ sku \in n.all}}

DecorateLine(line, matches) ==
  IF ChangesOf(matches, line.sources, line.sku) = {} THEN line
  ELSE [line EXCEPT !.substitution = "major", !.approval = "pending"]

DecoratePlan(plan, matches) ==
  LET decorated(lines) == [i \in DOMAIN lines |-> DecorateLine(lines[i], matches)]
  IN  [plan EXCEPT
         !.lines = decorated(@),
         !.orders = [k \in DOMAIN @ |-> [@[k] EXCEPT !.lines = decorated(@)]]]

DecorateOptimization(result, matches) ==
  [result EXCEPT !.plan = DecoratePlan(@, matches),
                 !.second = IF @ = None THEN None ELSE DecoratePlan(@, matches)]

----------------------------------------------------------------------------
OrdersOf(result) ==
  result.plan.orders \o (IF result.second = None THEN <<>> ELSE result.second.orders)

LineIds(order) == {l.id : l \in ToSet(order.lines)}

FirstOrderWith(line, orders) == orders[SelectInSeq(orders, LAMBDA o : line.id \in LineIds(o))]

\* With a bug: the fee is forgotten that an order pays when it gets small.
RemovalFromOrderWithoutFee(order, line, store, config) ==
  LET left == order.items - line.cost
  IN  IF LineIds(order) = {line.id} THEN -order.landed
      ELSE left + TaxOn(store, left, config) - order.landed

\* What leaving a line out changes of its order, the way the order is got
\* staying as it is.
RemovalFromOrder(order, line, store, config) ==
  LET left == order.items - line.cost
      fee == IF order.method = "pickup"
             THEN FeeForMinimum(left, store.pickupFee, store.pickupMin)
             ELSE FeeForMinimum(left, store.deliveryFee, store.deliveryMin)
  IN  IF LineIds(order) = {line.id} THEN -order.landed
      ELSE left + TaxOn(store, left, config) + fee - order.landed

RemovalCostDelta(result, line, stores, config) ==
  RemovalFromOrder(FirstOrderWith(line, OrdersOf(result)), line, stores[line.store], config)

\* The answers a question offers: what each does to the total.
DecisionAlternatives(result, line, stores, config) ==
  {[answer |-> "approve", delta |-> 0],
   [answer |-> "omit", delta |-> RemovalCostDelta(result, line, stores, config)]}

Cheaper(any, result) ==
  IF ~IsComplete(any) \/ any.landed >= result.landed THEN {}
  ELSE {[answer |-> "substitute", delta |-> any.landed - result.landed]}

\* The cart with any products that will do, if it is complete and cheaper.
CheaperSubstitution(result, matches, offers, stores, config) ==
  Cheaper(OptimizeCart(Needs(matches), offers, stores, config, AllSkus(matches)), result)

----------------------------------------------------------------------------
\* An interrupt: what it is about, what it says (told), and, when it stands
\* for several, those.
Interrupt(kind, about, lines, sources, sku, told, impact, alternatives) ==
  [id |-> <<kind, about>>, kind |-> kind, lines |-> lines, sources |-> sources,
   sku |-> sku, told |-> told, impact |-> impact, alternatives |-> alternatives,
   grouped |-> {}]

Raise == {[answer |-> "raise", delta |-> 0]}

BestRemoval(removals) ==
  IF removals = {} THEN {[answer |-> "pending", delta |-> 0]}
  ELSE {CHOOSE r \in removals : \A q \in removals : r.delta <= q.delta}

EntriesInterrupt(over, theirs) ==
  Interrupt("budget_exceeded", "entries", {l.id : l \in theirs},
            UNION {ToSet(l.sources) : l \in theirs}, None, {}, SumFunction(over), Raise)

CartInterrupt(result, matches, offers, stores, config) ==
  Interrupt("budget_exceeded", "cart", {}, {}, None, {}, result.shortfall,
            Raise \cup CheaperSubstitution(result, matches, offers, stores, config)
              \cup BestRemoval({[answer |-> "remove",
                                 delta |-> RemovalCostDelta(result, l, stores, config)] :
                                  l \in ToSet(SelectedLines(result))}))

\* Budgets of entries that are exceeded are asked about together, else the
\* budget of the whole cart.
BudgetInterruptOver(over, result, matches, offers, stores, config) ==
  IF over # <<>>
  THEN <<EntriesInterrupt(over, {l \in ToSet(SelectedLines(result)) :
                                   DOMAIN l.allocatedTo \cap DOMAIN over # {}})>>
  ELSE IF result.withinBudget # FALSE THEN <<>>
  ELSE <<CartInterrupt(result, matches, offers, stores, config)>>

BudgetInterrupt(result, matches, offers, stores, config, allocations) ==
  BudgetInterruptOver(IF allocations = None THEN <<>>
                      ELSE PerEntryBudgetOverages(result, allocations),
                      result, matches, offers, stores, config)

\* A line is asked about for one reason: its brand, else an attribute the
\* parent may have a preference on, else whatever it changes.
LineInterrupt(line, changes, alternatives) ==
  LET preferences == changes \cap PREFERENCE_DEPENDENT_ATTRIBUTES
      about(kind, told) ==
        Interrupt(kind, line.sku, {line.id}, ToSet(line.sources), line.sku, told,
                  line.cost, alternatives)
  IN  IF "brand" \in changes THEN about("brand_lock_break", {})
      ELSE IF preferences # {} THEN about("attribute_choice", preferences)
      ELSE about("major_substitution", changes)

InterruptsFor(lines, result, matches, stores, config) ==
  [k \in DOMAIN lines |->
     LineInterrupt(lines[k], ChangesOf(matches, lines[k].sources, lines[k].sku),
                   DecisionAlternatives(result, lines[k], stores, config))]

LineInterrupts(result, matches, stores, config) ==
  InterruptsFor(SelectSeq(SelectedLines(result),
                          LAMBDA l : ChangesOf(matches, l.sources, l.sku) # {}),
                result, matches, stores, config)

RequiresConfidenceReview(m) == m.all = {} /\ m.blocked # {}

NeedInterrupts(matches) ==
  LET doubtful == SelectSeq(matches, RequiresConfidenceReview)
      sources(m) == m.need.sources
  IN  [k \in DOMAIN doubtful |->
         Interrupt("low_confidence", sources(doubtful[k]), {}, ToSet(sources(doubtful[k])),
                   None, {doubtful[k].need.label}, 0,
                   {[answer |-> a, delta |-> 0] : a \in {"review", "correct"}})]

----------------------------------------------------------------------------
\* With a bug: of interrupts that say the same, the first is kept as it is.
DeduplicateFirst(interrupts) ==
  LET key(i) == <<interrupts[i].kind, interrupts[i].sku, interrupts[i].told>>
  IN  At(interrupts, LAMBDA i : \A j \in 1..(i - 1) : key(j) # key(i))

\* Interrupts that say the same are one, about the lines of all.
Deduplicate(interrupts) ==
  LET key(i) == <<interrupts[i].kind, interrupts[i].sku, interrupts[i].told>>
      same(i) == {interrupts[j] : j \in {k \in DOMAIN interrupts : key(k) = key(i)}}
      joined(i) == [interrupts[i] EXCEPT
                      !.lines = UNION {s.lines : s \in same(i)},
                      !.sources = UNION {s.sources : s \in same(i)},
                      !.impact = Max({s.impact : s \in same(i)})]
  IN  At([i \in DOMAIN interrupts |-> joined(i)],
         LAMBDA i : \A j \in 1..(i - 1) : key(j) # key(i))

\* One interrupt for all of a kind.
GroupByType(interrupts) ==
  LET of(kind) == {i \in ToSet(interrupts) : i.kind = kind}
      group(kind) ==
        LET highest == CHOOSE i \in of(kind) : \A j \in of(kind) : j.impact <= i.impact
        IN  [highest EXCEPT
               !.id = <<kind, "group">>, !.sku = None, !.told = {},
               !.lines = UNION {i.lines : i \in of(kind)},
               !.sources = UNION {i.sources : i \in of(kind)},
               !.impact = MapThenSumSet(LAMBDA i : i.impact, of(kind)),
               !.alternatives = {[answer |-> a, delta |-> 0] : a \in {"review", "pending"}},
               !.grouped = of(kind)]
  IN  UNION {IF Cardinality(of(k)) = 1 THEN of(k) ELSE {group(k)} :
               k \in {i.kind : i \in ToSet(interrupts)}}

GroupedIfMany(interrupts) ==
  IF Len(interrupts) > INTERRUPT_DESIGN_FAILURE_COUNT THEN GroupByType(interrupts)
  ELSE ToSet(interrupts)

\* All that the parent is asked, at once.
EvaluateGate(result, matches, offers, stores, config, allocations) ==
  GroupedIfMany(Deduplicate(
    BudgetInterrupt(result, matches, offers, stores, config, allocations)
      \o LineInterrupts(result, matches, stores, config)
      \o NeedInterrupts(matches)))
=============================================================================
