--------------------------- MODULE MCStoreSearch ---------------------------
(* Instances of StoreSearch for TLC: three needs and two stores, two needs  *)
(* and three stores, with one pack of either price for each.                *)
EXTENDS StoreSearch

\* The fees of store 1 are waived where buying more there saves more than it
\* costs, so that dear packs may be part of the best cart.

Cheap == 200
Dear == 900

Store(s) ==
  [id |-> s, distance |-> s, pickup |-> s # 3, taxed |-> s = 1,
   pickupFee |-> IF s = 1 THEN 900 ELSE 100, pickupMin |-> 1000,
   deliveryFee |-> 900, deliveryMin |-> 1000]

Need(i) ==
  [item |-> i, label |-> 4 - i, quantity |-> 1, sources |-> <<i>>, brand |-> None, variant |-> None,
   allocatedTo |-> 1 :> 1]

\* The packs store s sells for need i; the sku is unique.
Pack(i, s, cost) ==
  [store |-> s, units |-> 1, over |-> 0, cost |-> cost, exception |-> FALSE,
   lines |-> <<[sku |-> 10 * s + ((i * 2) % 5), packs |-> 1, units |-> 1, cost |-> cost]>>]

Config(limit) ==
  [mode |-> IF limit = None THEN "budget" ELSE "custom", maxStores |-> limit,
   preference |-> "either", radius |-> 2, tax |-> 700]

\* Every way to sell each need at some of the stores, cheap or dear.
Candidates(n, stores) ==
  [1..n -> UNION {[S -> {Cheap, Dear}] : S \in (SUBSET stores) \ {{}}}]

Asked(n, stores, limits) ==
  {SearchFrom([i \in 1..n |-> Need(i)],
              [i \in 1..n |-> [s \in DOMAIN c[i] |-> Pack(i, s, c[i][s])]],
              [s \in stores |-> Store(s)], Config(limit)) :
     c \in Candidates(n, stores), limit \in limits}

SmallProblems == Asked(3, {1, 2}, {None, 1}) \cup Asked(2, {1, 2, 3}, {None, 1})
=============================================================================
