---------------------------- MODULE ShoppingNeeds ----------------------------
(* From the lines of the organized lists to the needs that are bought:      *)
(* agent/normalize.py and agent/aggregate.py.  A text attribute is the set  *)
(* of its canonical words, acceptable colours a sequence of colours.        *)
EXTENDS Rules, Functions, FiniteSetsExt, SequencesExt

CONSTANTS
  AllowedCategories,        \* the canonical items the catalog sells
  StandardPackCounts,       \* a function: packs of these items hold so many
  StandardContainerCounts,  \* a function: containers sold as one unit
  PaperCategories,
  ImpliedTerms              \* a function: words an item implies anyway

REAM_SHEET_COUNT == 500
ContainerUnits == {"pack", "box"}
CountBasedCategories == DOMAIN StandardPackCounts

----------------------------------------------------------------------------
(* normalize_requirement *)

ExplicitCount(r) == IF "count" \in DOMAIN r.attributes THEN r.attributes["count"] ELSE None

\* f with the entries of g, which win.
With(f, g) ==
  [x \in (DOMAIN f) \cup (DOMAIN g) |-> IF x \in DOMAIN g THEN g[x] ELSE f[x]]

CanonicalItem(r) == IF r.purchasable THEN r.item ELSE "non_purchasable"

IsCounted(r) == r.unit \in ContainerUnits /\ CanonicalItem(r) \in CountBasedCategories
IsContainer(r) == r.unit \in ContainerUnits /\ ~IsCounted(r)
IsSheets(r) == r.unit = "ream" /\ CanonicalItem(r) \in PaperCategories

PackCount(r) ==
  IF ExplicitCount(r) # None THEN ExplicitCount(r) ELSE StandardPackCounts[r.item]

NormalizedQuantity(r) ==
  CASE IsCounted(r) -> r.quantity * PackCount(r)
    [] IsSheets(r)  -> r.quantity * REAM_SHEET_COUNT
    [] OTHER        -> r.quantity

NormalizedAttributes(r) ==
  CASE IsCounted(r) ->
         With(r.attributes, ("count" :> PackCount(r)) @@ ("source_unit_type" :> r.unit))
    [] IsContainer(r) ->
         With(r.attributes,
              ("normalized_container_unit" :> r.unit)
              @@ (IF ExplicitCount(r) = None /\ r.item \in DOMAIN StandardContainerCounts
                    THEN ("count" :> StandardContainerCounts[r.item]) ELSE <<>>))
    [] IsSheets(r) ->
         With(r.attributes, ("normalized_unit" :> "sheet")
                            @@ ("sheets_per_ream" :> REAM_SHEET_COUNT))
    [] OTHER -> r.attributes

\* Pieces, unless it is a ream of something that is not paper.
NormalizedUnit(r) == IF r.unit = "ream" /\ ~IsSheets(r) THEN "ream" ELSE "each"

\* What a parent has to look at: a line read with low confidence, of a
\* category the catalog does not have, or of reams of something else.
NeedsAttention(r) ==
  \/ r.purchasable /\ (r.low \/ r.item \notin AllowedCategories)
  \/ r.unit = "ream" /\ ~IsSheets(r)

NormalizeRequirement(r) ==
  [source     |-> r,
   quantity   |-> NormalizedQuantity(r),
   unit       |-> NormalizedUnit(r),
   attributes |-> NormalizedAttributes(r),
   inCart     |-> r.purchasable /\ r.item \in AllowedCategories,
   manualReview |-> NeedsAttention(r) /\ r.required,
   deferred     |-> NeedsAttention(r) /\ ~r.required]

Keep(kept, n) == IF n.inCart /\ n.source.required THEN Append(kept, n) ELSE kept

\* The lines the base cart is built from.
BudgetRequirements(lists) ==
  FoldLeft(LAMBDA kept, r : Keep(kept, NormalizeRequirement(r)), <<>>, lists)

----------------------------------------------------------------------------
(* aggregate_requirements *)

Implied(item) == IF item \in DOMAIN ImpliedTerms THEN ImpliedTerms[item] ELSE {}

EffectiveExclusions(r) == {e \in r.exclusions : e \cap Implied(r.item) = {}}

EffectiveAttributes(n) ==
  LET a == n.attributes
      redundant == {"binding"} \cup
        {k \in {"style", "other_details"} \cap DOMAIN a :
           a[k] \cap Implied(n.source.item) # {}}
  IN  Restrict(a, DOMAIN a \ redundant)

\* With a bug: what a line rules out is no part of what it asks for.
IdentityNoExclusions(n) ==
  [item |-> n.source.item, brand |-> n.source.brand, unit |-> n.unit,
   attributes |-> EffectiveAttributes(n), variant |-> n.source.variant]

\* Two lines are one need when all of this agrees.
Identity(n) ==
  [item |-> n.source.item, brand |-> n.source.brand, unit |-> n.unit,
   exclusions |-> EffectiveExclusions(n.source), required |-> n.source.required,
   attributes |-> EffectiveAttributes(n), variant |-> n.source.variant]

\* The lines of a classroom say whether they are for each student.
ScopeIsMissing(n, students) ==
  students[n.source.child] > 1 /\ n.source.scope \notin {"individual", "shared"}

CannotAggregate(norm, students) ==
  \E i \in DOMAIN norm :
    norm[i].quantity <= 0 \/ ScopeIsMissing(norm[i], students)

\* With a bug: the whole class shares what each student needs.
UnitsAskedOnce(n, students) == n.quantity

UnitsAsked(n, students) ==
  IF n.source.scope = "shared" THEN n.quantity
  ELSE n.quantity * students[n.source.child]

Add(n, units, need) ==
  LET c == n.source.child
      had == IF c \in DOMAIN need.allocatedTo THEN need.allocatedTo[c] ELSE 0
  IN  [need EXCEPT !.quantity = @ + units,
                   !.allocatedTo = With(@, [child \in {c} |-> had + units]),
                   !.sources = Append(@, n.source.id)]

NewNeed(n) ==
  [item |-> n.source.item, brand |-> n.source.brand,
   exclusions |-> EffectiveExclusions(n.source),
   attributes |-> EffectiveAttributes(n), key |-> Identity(n),
   quantity |-> 0, allocatedTo |-> <<>>, sources |-> <<>>]

\* The needs with one more line: it joins the need of its identity, or is
\* the first of a need of its own.
WithLine(needs, n, students) ==
  LET units == UnitsAsked(n, students)
      same == {i \in DOMAIN needs : needs[i].key = Identity(n)}
  IN  IF same = {} THEN Append(needs, Add(n, units, NewNeed(n)))
      ELSE LET i == CHOOSE i \in same : TRUE
           IN  [needs EXCEPT ![i] = Add(n, units, @)]

\* One need per identity, in the order the lists first ask for it.
AggregateRequirements(norm, students) ==
  FoldLeft(LAMBDA needs, n : WithLine(needs, n, students), <<>>, norm)
=============================================================================
