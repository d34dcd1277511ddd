---------------------------- MODULE StoreSearch ----------------------------
(* The search for the stores of a cart: agent/optimize.py,                  *)
(* _best_multi_store_plan.  It goes through the needs in order, tries the   *)
(* stores of each, and gives up a branch that cannot beat the best cart so  *)
(* far, or that another branch has already reached as cheaply; what it      *)
(* remembers of the branches is a cache of limited size.  Each action is    *)
(* one part of a call of search().                                          *)
EXTENDS StorePlans

CONSTANTS
  Problems,    \* what may be asked: records as SearchFrom takes them
  MaxEntries   \* OPTIMIZER_STATE_CACHE_MAX_ENTRIES

ASSUME ProblemsAssumption == \A p \in Problems : IsProblem(p)
ASSUME MaxEntriesAssumption == MaxEntries \in Nat \ {0}

VARIABLES
  problem,     \* the needs and their candidates, stores and config
  phase,       \* where the search is: entering, in the loop, returning, done
  frames,      \* for each call in its loop, the stores it has yet to try
  chosen,      \* the assignments on the way to the current call
  subtotals,   \* item_subtotals_by_store
  memo,        \* best_prefix_by_state, least recently used first
  bestPlan     \* best_plan, or None

searchVars == <<problem, phase, frames, chosen, subtotals, memo, bestPlan>>

----------------------------------------------------------------------------
Index == Len(chosen)
UsedStores == {chosen[i].sel.store : i \in DOMAIN chosen}
ItemCost(assigned) == SumFunction([i \in DOMAIN assigned |-> assigned[i].sel.cost])

\* The least the needs after index can cost.
MinimumRemainingCost(p, index) ==
  LET cheapest(i) == LET c == p.ordered[i].candidates
                     IN  Min({c[s].cost : s \in DOMAIN c})
  IN  SumFunction([i \in (index + 1)..Len(p.ordered) |-> cheapest(i)])

Penalty(n) == Max({n - 1, 0}) * ADDITIONAL_STORE_PENALTY_CENTS

TaxAt(p, sums, s) == TaxOn(p.stores[s], sums[s], p.config)

\* No way to complete the current choice is cheaper.
LowerBound ==
  ItemCost(chosen) + MinimumRemainingCost(problem, Index)
    + SumFunction([s \in DOMAIN subtotals |-> TaxAt(problem, subtotals, s)])
    + Penalty(Cardinality(UsedStores))

FinalComparisonCost(p, sums) ==
  SumFunction([s \in DOMAIN sums |->
                 sums[s] + TaxAt(p, sums, s)
                   + ChooseFulfillment(p.stores[s], sums[s], p.config).fee])
    + Penalty(Cardinality(DOMAIN sums))

----------------------------------------------------------------------------
SearchKey == <<Index, subtotals>>
PrefixKey ==
  FlattenSeq([i \in DOMAIN chosen |->
                [j \in DOMAIN chosen[i].sel.lines |-> chosen[i].sel.lines[j].sku]])

Remembered == {i \in DOMAIN memo : memo[i].key = SearchKey}
Without(i) == SubSeq(memo, 1, i - 1) \o SubSeq(memo, i + 1, Len(memo))

\* The cache after a state was stored or used again: it is the newest, and
\* the oldest goes when there are too many.
Remember(entry) ==
  LET rest == IF Remembered = {} THEN memo
              ELSE Without(CHOOSE i \in Remembered : TRUE)
      all  == Append(rest, entry)
  IN  IF Len(all) > MaxEntries THEN Tail(all) ELSE all

\* With a bug: whoever comes first with these subtotals is kept.
IsReachedBefore == Remembered # {}

\* A prefix at least as good has reached the same subtotals.
IsReachedAsWell ==
  \E i \in Remembered : ~Less(PrefixKey, memo[i].prefix)

\* The stores of the next need, cheapest first.
Options ==
  LET c == problem.ordered[Index + 1].candidates
  IN  Sorted(DOMAIN c, LAMBDA s, t : Less(<<c[s].cost, s>>, <<c[t].cost, t>>))

Add(sums, s, cost) ==
  [t \in {s} \cup DOMAIN sums |->
     (IF t = s THEN cost ELSE 0) + (IF t \in DOMAIN sums THEN sums[t] ELSE 0)]

\* A store whose subtotal is back at zero is deleted.
TakeBack(sums, s, cost) ==
  IF sums[s] = cost THEN Restrict(sums, DOMAIN sums \ {s})
  ELSE [sums EXCEPT ![s] = @ - cost]

----------------------------------------------------------------------------
SearchInit ==
  /\ problem \in Problems
  /\ phase = "enter" /\ frames = <<>> /\ chosen = <<>>
  /\ subtotals = <<>> /\ memo = <<>> /\ bestPlan = None

\* search() finds that it was here before, and returns.
Memoized ==
  /\ phase = "enter" /\ IsReachedAsWell
  /\ memo' = Remember(memo[CHOOSE i \in Remembered : TRUE])
  /\ phase' = "return"
  /\ UNCHANGED <<problem, frames, chosen, subtotals, bestPlan>>

\* search() remembers that it was here; what it does next.
Visit ==
  /\ phase = "enter" /\ ~IsReachedAsWell
  /\ memo' = Remember([key |-> SearchKey, prefix |-> PrefixKey])
  /\ UNCHANGED <<problem, chosen, subtotals>>

IsHopeless == bestPlan # None /\ LowerBound > bestPlan.comparison

\* The lower bound is above the best cart: give up.
Prune ==
  /\ Visit /\ IsHopeless
  /\ phase' = "return" /\ UNCHANGED <<frames, bestPlan>>

BetterOf(plan) ==
  IF \/ bestPlan = None
     \/ /\ FinalComparisonCost(problem, subtotals) <= bestPlan.comparison
        /\ Less(PlanSortKey(plan), PlanSortKey(bestPlan))
  THEN plan ELSE bestPlan

\* Every need has a store: keep the cart when it is better.
Complete ==
  /\ Visit /\ ~IsHopeless /\ Index = Len(problem.ordered)
  /\ bestPlan' = BetterOf(BuildPlan(chosen, problem.stores, problem.config))
  /\ phase' = "return" /\ UNCHANGED frames

\* The loop over the stores of the next need begins.
Branch ==
  /\ Visit /\ ~IsHopeless /\ Index < Len(problem.ordered)
  /\ frames' = Append(frames, Options)
  /\ phase' = "loop" /\ UNCHANGED bestPlan

\* One more store would pass the limit: continue.
Skip ==
  /\ phase = "loop" /\ Last(frames) # <<>> /\ problem.limit # None
  /\ Cardinality(UsedStores \cup {Head(Last(frames))}) > problem.limit
  /\ frames' = [frames EXCEPT ![Len(frames)] = Tail(@)]
  /\ UNCHANGED <<problem, phase, chosen, subtotals, memo, bestPlan>>

\* The next store is chosen, and search() called for the need after.
Descend ==
  /\ phase = "loop" /\ Last(frames) # <<>>
  /\ LET s == Head(Last(frames))
         o == problem.ordered[Index + 1]
     IN  /\ problem.limit # None =>
              Cardinality(UsedStores \cup {s}) <= problem.limit
         /\ chosen' = Append(chosen, [need |-> o.need, sel |-> o.candidates[s]])
         /\ subtotals' = Add(subtotals, s, o.candidates[s].cost)
  /\ frames' = [frames EXCEPT ![Len(frames)] = Tail(@)]
  /\ phase' = "enter" /\ UNCHANGED <<problem, memo, bestPlan>>

\* No store is left to try: this call returns.
EndLoop ==
  /\ phase = "loop" /\ Last(frames) = <<>>
  /\ frames' = Front(frames) /\ phase' = "return"
  /\ UNCHANGED <<problem, chosen, subtotals, memo, bestPlan>>

\* The caller takes back what it chose.
Undo ==
  /\ phase = "return" /\ frames # <<>>
  /\ LET last == Last(chosen).sel
     IN  subtotals' = TakeBack(subtotals, last.store, last.cost)
  /\ chosen' = Front(chosen) /\ phase' = "loop"
  /\ UNCHANGED <<problem, frames, memo, bestPlan>>

\* The first call has returned; without a best cart it is an error.
Finish ==
  /\ phase = "return" /\ frames = <<>>
  /\ phase' = "done"
  /\ UNCHANGED <<problem, frames, chosen, subtotals, memo, bestPlan>>

\* The answer stands; nothing else may stop the search.
Stopped == phase = "done" /\ UNCHANGED searchVars

SearchNext ==
  \/ Memoized \/ Prune \/ Complete \/ Branch
  \/ Skip \/ Descend \/ EndLoop \/ Undo \/ Finish \/ Stopped

SearchSpec == SearchInit /\ [][SearchNext]_searchVars

----------------------------------------------------------------------------
\* The search keeps its types, and the cache its size.
TypeOK ==
  /\ phase \in {"enter", "loop", "return", "done"}
  /\ Len(memo) <= MaxEntries
  /\ phase \in {"enter", "return"} => Len(frames) = Len(chosen)
  /\ phase = "loop" => Len(frames) = Len(chosen) + 1

\* The cart found is the best of all carts, whatever the cache forgot and the
\* bound cut off; there is none only when no cart keeps within the limit.
FindsTheBest == phase = "done" => bestPlan = BestPlan(problem)

\* The subtotals that are added to and taken from in place are at every
\* moment those of the stores chosen.
SubtotalsFollowChoices ==
  subtotals = [s \in UsedStores |->
                 ItemCost(SelectSeq(chosen, LAMBDA a : a.sel.store = s))]

\* A better cart only ever replaces a worse one.
BestOnlyImproves ==
  [][bestPlan' # bestPlan => bestPlan = None \/ Less(PlanSortKey(bestPlan'), PlanSortKey(bestPlan))]_bestPlan
=============================================================================
