-------------------------- MODULE MCDecisionMaking --------------------------
(* Requests for DecisionMaking that TLC can answer: three stores that sell  *)
(* some of three required and two optional items as asked for, or altered   *)
(* and cheaper, or doubtful; and seven altered items at one store.          *)
EXTENDS DecisionMaking

Shops ==
  [s \in 1..3 |->
     [id |-> s, distance |-> s, pickup |-> TRUE,
      pickupFee |-> 0, pickupMin |-> 0, taxed |-> s # 2,
      deliveryFee |-> 500, deliveryMin |-> 1500]]

\* Kind 0 is as asked for, 1 altered, 2 of an attribute nobody knows.
Sku(s, item, kind) == 100 * s + 10 * item + kind
Offer(s, item, kind, price, stock) ==
  [sku |-> Sku(s, item, kind), store |-> s, category |-> item, brand |-> "plain",
   size |-> 1, price |-> price, stock |-> stock]

\* Which stores sell which kind of each item.
Sold(range) ==
  {<<s, item, kind>> \in (1..3) \X (1..7) \X (0..2) :
     item \in DOMAIN range /\ s \in range[item][kind]}

Offers(range, exact, altered) ==
  {Offer(w[1], w[2], w[3], (IF w[3] = 1 THEN altered ELSE exact) + 10 * w[2] + w[1], 9) :
     w \in Sold(range)}

NeedOf(i, quantities) ==
  [item |-> i, label |-> i, unit |-> "each", brand |-> None,
   quantity |-> SumFunction(quantities), allocatedTo |-> quantities,
   sources |-> <<i>>, variant |-> None, definition |-> None]

\* Products that ask for approval are put forward only when all do, and of
\* the others those known to be exact first.
MatchOf(i, range, changes, blocked, quantities) ==
  LET of(kinds) == {Sku(s, i, k) : <<s, k>> \in {w \in (1..3) \X kinds : w[1] \in range[i][w[2]]}}
  IN  [need |-> NeedOf(i, quantities),
       all |-> IF blocked THEN {} ELSE of(0..2),
       preferred |-> IF blocked THEN {} ELSE IF of({0}) # {} THEN of({0})
                     ELSE IF of({2}) # {} THEN of({2}) ELSE of({1}),
       blocked |-> IF blocked THEN of(0..2) ELSE {},
       changes |-> [sku \in of(0..2) |-> IF sku \in of({1}) THEN changes ELSE {}]]

K(exact, altered, unknown) == [k \in 0..2 |-> <<exact, altered, unknown>>[k + 1]]

Ranges ==
  {<<K({1}, {2}, {}), K({1}, {3}, {}), K({1}, {}, {})>>,
   <<K({1}, {2}, {}), K({1}, {2}, {}), K({2}, {3}, {})>>,
   <<K({}, {1, 2}, {}), K({1}, {3}, {}), K({2}, {}, {3})>>,
   <<K({1, 2}, {3}, {}), K({}, {1}, {3}), K({}, {2}, {})>>}

Config(mode, limit, preference, budget) ==
  [mode |-> mode, maxStores |-> limit, preference |-> preference,
   allowed |-> None, radius |-> None, tax |-> 700, budget |-> budget]

Modes == {<<"budget", None>>, <<"single_stop", None>>, <<"custom", 2>>}

RequiredMatches(range, blocked) ==
  [i \in 1..3 |->
     MatchOf(i, range, <<{"brand"}, {"color", "size"}, {"pack_count"}>>[i],
             blocked /\ i = 3, <<1 :> 1, 1 :> 1 @@ 2 :> 1, 2 :> 1>>[i])]

Optional(i, range, review) ==
  [review |-> review] @@ MatchOf(i, range, {"size"}, FALSE, 2 :> 1)

OptionalRange == K({1}, {}, {})
AlteredRange == K({}, {1}, {})

\* Requests over a budget: the parent must choose.
TightRequests ==
  {[matches |-> RequiredMatches(r, w[1]), offers |-> Offers(r, 900, w[2]), optional |-> <<>>,
    allocations |-> None, config |-> Config(m[1], m[2], p, budget)] :
     r \in Ranges, w \in {<<TRUE, 200>>, <<FALSE, 200>>, <<FALSE, 850>>}, m \in Modes,
     p \in {"delivery"}, budget \in {1500, 2500}}

\* Requests with two optional items: the first in doubt, or the second altered.
WithOptional(r, altered) == r \o <<OptionalRange, IF altered THEN AlteredRange ELSE OptionalRange>>
OptionalRequests ==
  {[matches |-> RequiredMatches(r, FALSE), offers |-> Offers(WithOptional(r, altered), 300, 200),
    optional |-> <<Optional(4, WithOptional(r, altered), ~altered),
                   Optional(5, WithOptional(r, altered), FALSE)>>,
    allocations |-> IF each /\ budget # None THEN 1 :> budget \div 2 @@ 2 :> budget \div 2
                    ELSE None,
    config |-> Config(m[1], m[2], "delivery", budget)] :
     r \in {<<K({1}, {2}, {}), K({1}, {2}, {}), K({2}, {3}, {})>>,
            <<K({}, {1, 2}, {}), K({1}, {3}, {}), K({2}, {}, {3})>>},
     altered \in BOOLEAN, each \in BOOLEAN, m \in Modes \cup {<<"custom", 1>>}, budget \in {None, 2100, 2600}}

\* Seven items of one store, each altered, some in the same way.
ManyRange == [i \in 1..7 |-> AlteredRange]
ManyRequests ==
  {[matches |-> [i \in 1..7 |->
                   MatchOf(i, ManyRange, <<{"brand"}, {"color"}, {"size"}>>[1 + (i % 3)], FALSE,
                           1 :> 1)],
    offers |-> Offers(ManyRange, 0, 100), optional |-> <<>>, allocations |-> None,
    config |-> Config("budget", None, "either", None)]}

\* One product for two lists that ask for variants of it.
TwinRequests ==
  {[matches |-> [i \in 1..2 |->
                   [MatchOf(1, ManyRange, {"color"}, FALSE, i :> 1)
                      EXCEPT !.need.sources = <<i>>, !.need.variant = i, !.need.label = i]],
    offers |-> Offers(ManyRange, 0, 100), optional |-> <<>>, allocations |-> None,
    config |-> Config("budget", None, "either", None)]}

\* Three units of one need, cheapest as a pack of two and a single one, both
\* altered: two questions about one need.
Pack(sku, size, price) == [Offer(1, 1, 1, price, 9) EXCEPT !.sku = sku, !.size = size]
MixedRequests ==
  LET skus == {111, 112}
  IN  {[matches |-> <<[need |-> NeedOf(1, 1 :> 3), all |-> skus, preferred |-> skus, blocked |-> {},
                       changes |-> [sku \in skus |-> {"color"}]]>>,
        offers |-> {Pack(111, 2, 150), Pack(112, 1, 100)}, optional |-> <<>>,
        allocations |-> None, config |-> Config("budget", None, "either", None)]}

SomeRequests ==
  TightRequests \cup OptionalRequests \cup ManyRequests \cup TwinRequests \cup MixedRequests
=============================================================================
