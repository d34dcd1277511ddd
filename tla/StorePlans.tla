----------------------------- MODULE StorePlans -----------------------------
(* What a search for the stores of a cart is asked and what it answers:     *)
(* agent/optimize.py, _best_multi_store_plan.  candidates gives, for each   *)
(* need, the packs selected at each store that can serve it.  StoreSearch   *)
(* is the search itself.                                                    *)
EXTENDS CartCosts

InOrder(order, needs, candidates) ==
  [k \in DOMAIN order |-> [need |-> needs[order[k]], candidates |-> candidates[order[k]]]]

\* Fewest candidates first, then by label.
Ordered(needs, candidates) ==
  LET rank(i) == <<Cardinality(DOMAIN candidates[i]), needs[i].label, i>>
  IN  InOrder(Sorted(DOMAIN needs, LAMBDA i, j : Less(rank(i), rank(j))),
              needs, candidates)

StoreLimit(config) ==
  IF config.mode = "custom" THEN config.maxStores ELSE None

\* What a search works on.
SearchFrom(needs, candidates, stores, config) ==
  [ordered |-> Ordered(needs, candidates), stores |-> stores,
   config |-> config, limit |-> StoreLimit(config)]

\* A mapping of stores.
IsMapping(c) == c = [s \in DOMAIN c |-> c[s]]

\* What serves a need: packs at stores that may be used.
IsServed(c, stores, config) ==
  /\ IsMapping(c) /\ DOMAIN c \in SUBSET DOMAIN stores
  /\ \A s \in DOMAIN c : /\ StoreSupportsFulfillment(stores[s], config)
                         /\ IsSelection(c[s]) /\ c[s].store = s

\* What a search works on: needs in some order, each with what serves it.
IsSearch(p, n, stores, config) ==
  /\ p.stores = stores /\ p.config = config /\ DOMAIN p.ordered = 1..n
  /\ \A k \in 1..n : /\ IsNeed(p.ordered[k].need)
                     /\ IsServed(p.ordered[k].candidates, stores, config)

\* What a search is asked: each need is served somewhere, and no product is
\* sold at two stores.
IsProblem(p) ==
  /\ IsStores(p.stores) /\ Wants(p.config) /\ p.limit \in Nat \cup {None}
  /\ Len(p.ordered) \in Nat /\ IsSearch(p, Len(p.ordered), p.stores, p.config)
  /\ \A k \in DOMAIN p.ordered :
       LET c == p.ordered[k].candidates
       IN  /\ DOMAIN c # {}
           /\ \A s, t \in DOMAIN c : \A l \in ToSet(c[s].lines), m \in ToSet(c[t].lines) :
                l.sku = m.sku => s = t

\* Every way to give each need a store within the limit.
Assignments(p) ==
  {a \in [DOMAIN p.ordered -> DOMAIN p.stores] :
     /\ \A i \in DOMAIN a : a[i] \in DOMAIN p.ordered[i].candidates
     /\ p.limit # None => Cardinality(Range(a)) <= p.limit}

PlanOf(p, a) ==
  BuildPlan([i \in DOMAIN a |-> [need |-> p.ordered[i].need,
                                 sel |-> p.ordered[i].candidates[a[i]]]],
            p.stores, p.config)

FirstPlan(plans) == IF plans = {} THEN None ELSE Least(plans, PlanSortKey)

\* What the search stands for: the first of all carts in the order of
\* _plan_sort_key, or None when no cart keeps within the limit.
BestPlan(p) == FirstPlan({PlanOf(p, a) : a \in Assignments(p)})
=============================================================================
