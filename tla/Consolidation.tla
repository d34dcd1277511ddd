--------------------------- MODULE Consolidation ---------------------------
(* What happens between matching and the cart: agent/pipeline.py,           *)
(* _optimize_and_consolidate, and agent/consolidate.py.  A match is the     *)
(* record of a need and the sets of products that will do for it: those     *)
(* preferred, and all; of those blocked until a parent looks; and of what   *)
(* each product changes of what was asked for.  Besides what ShoppingModes  *)
(* uses, a need has a unit, a variant and a definition (its product-        *)
(* defining attributes), each possibly None.                                *)
EXTENDS ShoppingModes

\* Sequences that have some members, and none in common.
AreApart(s, n) ==
  /\ \A i \in 1..n : s[i] \in Seq(ToSet(s[i])) /\ s[i] # <<>>
  /\ \A i, j \in 1..n : ToSet(s[i]) \cap ToSet(s[j]) # {} => i = j

\* Matches of needs that come from different lines.
IsMatches(matches) ==
  /\ matches = [i \in 1..Len(matches) |-> matches[i]] /\ Len(matches) \in Nat
  /\ \A i \in 1..Len(matches) : IsNeed(matches[i].need)
  /\ AreApart([i \in 1..Len(matches) |-> matches[i].need.sources], Len(matches))

SkusFor(matches, Choice(_)) ==
  [sources \in {matches[i].need.sources : i \in DOMAIN matches} |->
     Choice(matches[CHOOSE i \in DOMAIN matches : matches[i].need.sources = sources])]
PreferredSkus(matches) == SkusFor(matches, LAMBDA m : m.preferred)
AllSkus(matches) == SkusFor(matches, LAMBDA m : m.all)

Needs(matches) == [i \in DOMAIN matches |-> matches[i].need]

\* Where a choice of stores has no preferred product, any that will do.
Widened(match, offers, S) ==
  LET sold(skus) == {sku \in skus : \E o \in offers : o.sku = sku /\ o.store \in S}
  IN  IF sold(match.preferred) # {} THEN sold(match.preferred) ELSE sold(match.all)

WidenedIn(matches, offers, stores, config, S) ==
  [scope |-> S,
   result |-> OptimizeCart(Needs(matches), offers, stores,
                           [config EXCEPT !.allowed = S, !.maxStores = Cardinality(S)],
                           SkusFor(matches, LAMBDA m : Widened(m, offers, S)))]

BetterOrPreferred(preferred, others) ==
  LET key(r) == <<AsNumber(~IsComplete(r)), Len(r.gaps), r.comparison, r.landed>>
      better == {o \in others : Less(key(o.result), key(preferred))}
  IN  IF better = {} THEN preferred
      ELSE Least(better, LAMBDA o : key(o.result) \o ScopeKey(o.scope)).result

CompleteOrWidened(preferred, matches, offers, stores, config) ==
  LET permitted == StoresInScope(stores, config)
      limit == IF config.maxStores = None THEN Cardinality(permitted) ELSE config.maxStores
  IN  IF config.mode # "custom" \/ IsComplete(preferred) THEN preferred
      ELSE BetterOrPreferred(preferred,
             {WidenedIn(matches, offers, stores, config, S) : S \in ScopesOf(permitted, limit)})

\* Preferred products first; in custom mode, when they leave gaps, any that
\* will do where a choice of stores has no preferred one.
OptimizeWithMatchCandidates(matches, offers, stores, config) ==
  CompleteOrWidened(
    OptimizeCart(Needs(matches), offers, stores, config, PreferredSkus(matches)),
    matches, offers, stores, config)

----------------------------------------------------------------------------
SelectedLines(result) ==
  IF result.second = None THEN result.plan.lines
  ELSE result.plan.lines \o result.second.lines

SkusOf(result, sources) ==
  {l.sku : l \in {m \in ToSet(SelectedLines(result)) : m.sources = sources}}

Bought(result, m) == SkusOf(result, m.need.sources) # {}

AtMostOne(values) == Cardinality(values \ {None}) <= 1

ProductDefinitionsAreCompatible(needs) ==
  /\ AtMostOne({n.variant : n \in needs})
  /\ AtMostOne({n.definition : n \in needs})

\* The matches whose needs are bought as this product and no other, in the
\* order of their lines.
BoughtAs(matches, result, sku) ==
  LET lines == SelectedLines(result)
      first(m) == Min({k \in DOMAIN lines : lines[k].sources = m.need.sources})
  IN  Sorted({m \in ToSet(matches) : SkusOf(result, m.need.sources) = {sku}},
             LAMBDA m, n : first(m) < first(n))

MayMerge(group, sku) ==
  LET needs == {m.need : m \in ToSet(group)}
  IN  /\ Len(group) >= 2
      /\ Cardinality({n.item : n \in needs}) = 1
      /\ Cardinality({n.unit : n \in needs}) = 1
      /\ ProductDefinitionsAreCompatible(needs)
      /\ \A m \in ToSet(group) : sku \in m.all

\* One need for all of them, locked to a brand when one of them is.
MergeNeeds(group, offer) ==
  LET needs  == Needs(group)
      brands == {needs[i].brand : i \in DOMAIN needs} \ {None}
  IN  [needs[1] EXCEPT
         !.quantity = SumFunction([i \in DOMAIN needs |-> needs[i].quantity]),
         !.brand = IF brands = {} THEN None
                   ELSE IF Cardinality(brands) = 1 THEN CHOOSE b \in brands : TRUE
                   ELSE offer.brand,
         !.allocatedTo = SumByChild([i \in DOMAIN needs |-> needs[i].allocatedTo]),
         !.sources = FlattenSeq([i \in DOMAIN needs |-> needs[i].sources]),
         !.variant = IF \A i \in DOMAIN needs : needs[i].variant = @ THEN @ ELSE None]

\* The product they were bought as is the only one that will do from now on.
MergeMatches(group, offer) ==
  [need |-> MergeNeeds(group, offer), preferred |-> {offer.sku}, all |-> {offer.sku},
   blocked |-> {},
   changes |-> [sku \in {offer.sku} |-> UNION {m.changes[sku] : m \in ToSet(group)}]]

\* Needs bought as one product become one need, where the first of them was.
ConsolidateSelectedSkus(matches, result, offers) ==
  LET only(m) == SkusOf(result, m.need.sources)
      groupOf(m) == BoughtAs(matches, result, CHOOSE s \in only(m) : TRUE)
      merges(m) == /\ Cardinality(only(m)) = 1
                   /\ MayMerge(groupOf(m), CHOOSE s \in only(m) : TRUE)
      offerOf(m) == CHOOSE o \in offers : o.sku \in only(m)
      becomes(m) == IF merges(m) THEN MergeMatches(groupOf(m), offerOf(m)) ELSE m
      isFirst(i) == merges(matches[i]) =>
                      \A j \in 1..(i - 1) : only(matches[j]) # only(matches[i])
  IN  At([i \in DOMAIN matches |-> becomes(matches[i])], isFirst)

\* The cart is built once more when needs were merged.
AfterMerging(matches, preliminary, merged, offers, stores, config) ==
  [matches |-> merged, preliminary |-> preliminary,
   result |-> IF merged = matches THEN preliminary
              ELSE OptimizeWithMatchCandidates(merged, offers, stores, config)]

Consolidated(matches, preliminary, offers, stores, config) ==
  AfterMerging(matches, preliminary, ConsolidateSelectedSkus(matches, preliminary, offers),
               offers, stores, config)

OptimizeAndConsolidate(matches, offers, stores, config) ==
  Consolidated(matches, OptimizeWithMatchCandidates(matches, offers, stores, config),
               offers, stores, config)
=============================================================================
