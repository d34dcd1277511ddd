-------------------------- MODULE PackageSelection --------------------------
(* Which packs of one store serve one need: agent/optimize.py,              *)
(* select_packages.  An offer is a record of its sku, store, category,      *)
(* brand (up to case), pack size, pack price and stock; a need names its    *)
(* item, its brand lock or None, and its quantity.  Prices are positive:    *)
(* the catalogue is, and a changed price is read by money_to_cents.         *)
EXTENDS Rules, SequencesExt

\* The offers of a catalogue.
IsOffers(offers) ==
  /\ IsFiniteSet(offers)
  /\ \A o \in offers : /\ o.sku \in Int /\ o.store \in Int /\ o.size \in Nat \ {0}
                       /\ o.price \in Nat \ {0} /\ o.stock \in Nat
  /\ \A o, p \in offers : o.sku = p.sku => o = p

\* What a selection of packs says; None is none of them.
Selections ==
  [store : Int, units : Int, over : Int, cost : Int, exception : BOOLEAN,
   lines : Seq([sku : Int, packs : Int, units : Int, cost : Int])]

ASSUME NoneIsNoSelection == None \notin Selections

MatchingOffers(need, offers) ==
  Sorted({o \in offers : /\ o.stock > 0
                         /\ o.category = need.item
                         /\ need.brand \in {None, o.brand}},
         LAMBDA o, p : o.sku < p.sku)

\* How some number of units is reached: its cost and the packs of each offer.
NoPacks == [cost |-> 0, packs |-> 0, counts |-> <<>>]
StateKey(s) == <<s.cost, s.packs>> \o s.counts

AddPacks(s, o, n) ==
  [cost |-> s.cost + n * o.price, packs |-> s.packs + n, counts |-> Append(s.counts, n)]

\* The states after up to so many packs of an offer: for each number of
\* units, the best way to it: cheapest, then fewest packs, then lowest counts.
AddOffer(states, o, most, maximum) ==
  LET units(w) == w[1] + w[2] * o.size
      ways == {w \in (DOMAIN states) \X (0..most) : units(w) <= maximum}
  IN  [u \in {units(w) : w \in ways} |->
         Least({AddPacks(states[w[1]], o, w[2]) : w \in {v \in ways : units(v) = u}},
               StateKey)]

\* The best ways to all numbers of units up to a maximum the offers can make.
PackageStates(offers, maximum) ==
  FoldLeft(LAMBDA states, o :
             AddOffer(states, o, Min({o.stock, maximum \div o.size}), maximum),
           [u \in {0} |-> NoPacks], offers)

FirstOf(enough, states) ==
  IF enough = {} THEN None
  ELSE Least(enough, LAMBDA u : <<states[u].cost, u, states[u].packs>> \o states[u].counts)

\* The units to buy for a quantity: cheapest, then least overage, then packs.
BestQualifying(states, quantity) ==
  FirstOf({u \in DOMAIN states : u >= quantity}, states)

\* With a bug: the smaller of the two ceilings.
AllowedOverageSmaller(quantity) ==
  Min({(quantity * OVERAGE_PERCENT) \div 100, OVERAGE_ABSOLUTE_UNITS})

AllowedOverage(quantity) ==
  Max({(quantity * OVERAGE_PERCENT) \div 100, OVERAGE_ABSOLUTE_UNITS})

SelectedLine(o, n) ==
  [sku |-> o.sku, packs |-> n, units |-> n * o.size, cost |-> n * o.price]

Selection(matching, quantity, units, s, exception) ==
  [store |-> matching[1].store, units |-> units, over |-> units - quantity,
   cost |-> s.cost, exception |-> exception,
   lines |-> At([i \in DOMAIN matching |-> SelectedLine(matching[i], s.counts[i])],
                LAMBDA i : s.counts[i] > 0)]

SelectionAt(matching, quantity, units, states, exception) ==
  IF units = None THEN None
  ELSE Selection(matching, quantity, units, states[units], exception)

SelectionFrom(matching, quantity, states, exception) ==
  SelectionAt(matching, quantity, BestQualifying(states, quantity), states, exception)

SelectionUpTo(maximum, matching, quantity, exception) ==
  SelectionFrom(matching, quantity, PackageStates(matching, maximum), exception)

OrElse(first, second) == IF first # None THEN first ELSE second

\* Within the ceiling if possible, else beyond it as an exception.
SelectFrom(matching, quantity) ==
  LET largest == Max({matching[i].size : i \in DOMAIN matching})
  IN  IF matching = <<>> THEN None
      ELSE OrElse(SelectionUpTo(quantity + AllowedOverage(quantity), matching, quantity, FALSE),
                  SelectionUpTo(quantity + largest - 1, matching, quantity, TRUE))

\* None when the store cannot supply the quantity; else the lines bought.
SelectPackages(need, offers) == SelectFrom(MatchingOffers(need, offers), need.quantity)
=============================================================================
