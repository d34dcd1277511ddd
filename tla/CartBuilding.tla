---------------------------- MODULE CartBuilding ----------------------------
(* What the optimizer answers when the pipeline asks for a cart, for packs  *)
(* at one store, or for the shares of an amount: the questions are given,   *)
(* and one action answers each.                                             *)
EXTENDS Consolidation

CONSTANTS
  Stores,          \* the stores, a function of their ids
  CartQuestions,   \* records of matches, offers and config
  PackQuestions,   \* records of a need and the offers of a store
  ShareQuestions   \* records of an amount and the weights that share it

ASSUME StoresAssumption == IsStores(Stores)
ASSUME QuestionsAssumption ==
  /\ \A q \in CartQuestions : /\ q.kind = "cart" /\ IsMatches(q.matches)
                              /\ IsOffers(q.offers) /\ IsConfig(q.config)
                              /\ \A o \in q.offers : o.store \in DOMAIN Stores
  /\ \A q \in PackQuestions : /\ q.kind = "packs" /\ IsOffers(q.offers)
                              /\ q.need.quantity \in Nat \ {0}
  /\ \A q \in ShareQuestions : q.kind = "share" /\ q.total \in Nat /\ Weights(q.weights)

VARIABLES asked, answer
vars == <<asked, answer>>

Init ==
  /\ asked \in CartQuestions \cup PackQuestions \cup ShareQuestions
  /\ answer = None

\* The pipeline builds a cart.
BuildCart ==
  /\ asked.kind = "cart" /\ answer = None
  /\ answer' = OptimizeAndConsolidate(asked.matches, asked.offers, Stores, asked.config)
  /\ UNCHANGED asked

ChoosePacks ==
  /\ asked.kind = "packs" /\ answer = None
  /\ answer' = [packs |-> SelectPackages(asked.need, asked.offers)]
  /\ UNCHANGED asked

ShareCents ==
  /\ asked.kind = "share" /\ answer = None
  /\ answer' = AllocateCents(asked.total, asked.weights)
  /\ UNCHANGED asked

Next == BuildCart \/ ChoosePacks \/ ShareCents
Spec == Init /\ [][Next]_vars

Answered(kind) == answer # None /\ asked.kind = kind

----------------------------------------------------------------------------
\* Every way to buy at least the quantity, and what it costs and leaves over.
Purchases(need, offers) ==
  LET for(o) == o.category = need.item /\ need.brand \in {None, o.brand}
      sold == {o \in offers : for(o)}
      counts == {c \in [sold -> 0..Max({0} \cup {o.stock : o \in sold})] :
                   \A o \in sold : c[o] <= o.stock}
      units(c) == SumFunction([o \in sold |-> c[o] * o.size])
      cost(c) == SumFunction([o \in sold |-> c[o] * o.price])
  IN  {[over |-> units(c) - need.quantity, cost |-> cost(c)] :
         c \in {d \in counts : units(d) >= need.quantity}}

\* The packs are the cheapest within the overage ceiling, and with the least
\* left over of those.  Beyond the ceiling the store sells only when nothing
\* within it is for sale, and then the cheapest.  A store that has the units
\* never sends the parent away (FR-21, BR-06).
PacksAreCheapest ==
  Answered("packs") =>
    LET all    == Purchases(asked.need, asked.offers)
        within == {p \in all : 2 * p.over <= asked.need.quantity \/ p.over <= 6}
        pool   == IF within = {} THEN all ELSE within
        got    == answer.packs
    IN  IF got = None THEN all = {}
        ELSE /\ got.exception <=> within = {}
             /\ [over |-> got.over, cost |-> got.cost] \in pool
             /\ \A p \in pool : \/ got.cost < p.cost
                                \/ got.cost = p.cost /\ got.over <= p.over

----------------------------------------------------------------------------
Carts == {answer.preliminary, answer.result}

\* Shared cents are all paid, nobody's share is a cent or more away from the
\* exact one, and who uses more never pays less; and tax, fees and items of
\* all orders are paid by the children to the cent, although each is rounded
\* by itself (FR-16, BR-02, BR-09).
CentsAddUp ==
  /\ Answered("share") =>
       LET w == asked.weights
           units == SumFunction(w)
           away(c) == answer[c] * units - asked.total * w[c]
       IN  /\ SumFunction(answer) = (IF units = 0 THEN 0 ELSE asked.total)
           /\ \A c \in DOMAIN answer : -units < away(c) /\ away(c) < units
           /\ \A c, d \in DOMAIN answer : w[c] > w[d] => answer[c] >= answer[d]
  /\ Answered("cart") =>
       \A r \in Carts :
         /\ SumFunction(PerEntryLandedCosts(r)) = r.landed
         /\ \A p \in Plans(r) :
              p.landed = SumFunction([k \in DOMAIN p.orders |-> p.orders[k].landed])

\* Each child gets exactly the units its lists ask for of everything that is
\* bought, however the packs and the merged needs share them out (FR-16).
UnitsReachTheChildren ==
  Answered("cart") =>
    \A i \in DOMAIN answer.matches :
      LET m == answer.matches[i]
          lines == SelectedLines(answer.result)
          places == {k \in DOMAIN lines : lines[k].sources = m.need.sources}
      IN  Bought(answer.result, m) =>
            SumByChild([k \in places |-> lines[k].allocatedTo]) = m.need.allocatedTo

\* Single-stop mode: when one store, or two, could supply all that the lists
\* ask for, the cart and its second trip are complete; two only when one
\* cannot (FR-22).
SingleStopClosesTheGaps ==
  Answered("cart") /\ asked.config.mode = "single_stop" =>
    LET r == answer.preliminary
        eligible == EligibleStores(Stores, asked.config)
        sells == CandidateSelections(Needs(asked.matches), asked.offers, eligible,
                                     PreferredSkus(asked.matches))
        supplies(S) == \A i \in DOMAIN sells : S \cap DOMAIN sells[i] # {}
    IN  /\ (\E s, t \in eligible : supplies({s, t})) => IsComplete(r)
        /\ (\E s \in eligible : supplies({s})) => r.gaps = <<>> /\ r.second = None
        /\ \A p \in Plans(r) : Len(p.orders) <= 1

\* Custom mode: the cart keeps to the stores and the number of stores the
\* parent allowed, and no allowed choice of stores has more of what is asked
\* for among the preferred products (FR-04).
CustomLeavesOutTheFewest ==
  Answered("cart") /\ asked.config.mode = "custom" =>
    LET r == answer.preliminary
        eligible == EligibleStores(Stores, asked.config)
        sells == CandidateSelections(Needs(asked.matches), asked.offers, eligible,
                                     PreferredSkus(asked.matches))
        limit == asked.config.maxStores
        missing(S) == {i \in DOMAIN sells : S \cap DOMAIN sells[i] = {}}
        used == Range(StoreIds(r.plan))
    IN  /\ used \subseteq eligible
        /\ limit # None => Cardinality(used) <= limit
        /\ \A S \in SUBSET eligible :
             (limit # None => Cardinality(S) <= limit)
               => Len(r.gaps) <= Cardinality(missing(S))

\* With pickup preferred, whatever is left out although a store in scope has
\* it is named as something that store would deliver (E-27).
TradeoffsExplainGaps ==
  Answered("cart") /\ asked.config.preference = "pickup" =>
    LET scope == StoresInScope(Stores, asked.config)
        sells == CandidateSelections(Needs(asked.matches), asked.offers, scope,
                                     PreferredSkus(asked.matches))
        r == answer.preliminary
    IN  asked.config.mode = "budget" =>
          \A i \in DOMAIN sells :
            /\ sells[i] # <<>>
            /\ asked.matches[i].need.label \in ToSet(r.gaps)
            => \E t \in r.tradeoffs :
                 asked.matches[i].need.label \in ToSet(t.items)

\* After merging, no two needs that may be merged are still bought as the
\* same single product: "Identical canonical items across children never
\* generate separate purchases" (FR-14, BR-13).  Refuted: needs are merged once
\* only, and the cart built after that may bring needs together again.
SharedProductsAreMerged ==
  Answered("cart") =>
    \A l \in ToSet(SelectedLines(answer.result)) :
      ~MayMerge(BoughtAs(answer.matches, answer.result, l.sku), l.sku)

\* What was in the cart before needs were merged is in it after.
MergingLosesNothing ==
  Answered("cart") =>
    Len(UnfulfilledGaps(answer.result)) <= Len(UnfulfilledGaps(answer.preliminary))
=============================================================================
