--------------------------- MODULE MCCartBuilding ---------------------------
(* Questions for CartBuilding that TLC can answer: three stores and three   *)
(* needs of two items, or five needs; packs of one, eight and thirty.       *)
EXTENDS CartBuilding

Shops ==
  [s \in 1..3 |->
     [id |-> s, distance |-> IF s = 3 THEN 9 ELSE s, pickup |-> TRUE,
      pickupFee |-> 0, pickupMin |-> 0, taxed |-> s # 2,
      deliveryFee |-> 500, deliveryMin |-> 1500]]

Offer(sku, s, item, size, price, stock) ==
  [sku |-> sku, store |-> s, category |-> item, brand |-> "plain",
   size |-> size, price |-> price, stock |-> stock]

\* Needs 1 and 2 ask for the same item in different words.
NeedOf(i, item, quantities) ==
  [item |-> item, label |-> i, unit |-> "each", brand |-> None,
   quantity |-> SumFunction(quantities), allocatedTo |-> quantities,
   sources |-> <<i>>, variant |-> None, definition |-> None]

Match(need, preferred, all) ==
  [need |-> need, preferred |-> preferred, all |-> all, blocked |-> {},
   changes |-> [sku \in all |-> {}]]

Config(mode, limit, preference, allowed) ==
  [mode |-> mode, maxStores |-> limit, preference |-> preference,
   allowed |-> allowed, radius |-> 5, tax |-> 700, budget |-> None]

Configs ==
  {Config(m, None, p, None) : m \in {"budget", "single_stop"}, p \in {"pickup", "either"}}
  \cup {Config("custom", k, p, a) :
           k \in {None, 1, 2}, p \in {"pickup", "either"}, a \in {None, {2, 3}}}

\* Store 1 sells folders by three and by one, store 2 by two, store 3 by four.
Catalogues ==
  {{Offer(11, 1, "folder", 3, 250, a), Offer(13, 1, "folder", 1, 95, 1),
    Offer(21, 2, "folder", 2, b, 3), Offer(31, 3, "folder", 4, 333, 2),
    Offer(12, 1, "glue", 1, 125, c), Offer(32, 3, "glue", 6, 650, 1)} :
     a \in {0, 2}, b \in {100, 199}, c \in {0, 3}}

SomeMatches ==
  {<<Match(NeedOf(1, "folder", 1 :> 2 @@ 2 :> 2), x, {11, 13, 21, 31}),
     Match(NeedOf(2, "folder", 2 :> 2), y, {11, 13, 21, 31}),
     Match(NeedOf(3, "glue", 1 :> 1 @@ 3 :> 2), {12, 32}, {12, 32})>> :
     x \in {{11, 13, 21}, {11, 13, 21, 31}}, y \in {{21}, {11, 13, 31}}}

FewNeeds ==
  {[kind |-> "cart", matches |-> m, offers |-> o, config |-> c] :
     m \in SomeMatches, o \in Catalogues, c \in Configs}

\* Five needs, the last two of one item, and stores that sell some of the items.
Assortments == {{1, 2, 3}, {1, 4}, {2, 3, 5}, {4, 5}, 1..5}

ManyMatches(items) ==
  [i \in 1..5 |->
     LET skus == {10 * s + Min({i, items}) : s \in 1..3}
     IN  Match(NeedOf(i, Min({i, items}), 1 :> 1), skus, skus)]

ManyNeeds ==
  {[kind |-> "cart", matches |-> ManyMatches(items), config |-> c,
    offers |-> {Offer(10 * s + i, s, i, 2, 100 * i + s, 9) :
                  <<s, i>> \in {w \in (1..3) \X (1..5) :
                                 w[2] \in sells[w[1]] /\ w[2] <= items}}] :
     sells \in [1..3 -> Assortments], items \in {4, 5},
     c \in {Config("single_stop", None, "either", None),
            Config("custom", 2, "either", None)}}

\* The cheapest folders are just enough for either need, not for both.
ScarceCarts ==
  {[kind |-> "cart", config |-> Config("budget", None, "either", None),
    matches |-> SubSeq(ManyMatches(4), 4, 5),
    offers |-> {Offer(14, 1, 4, 1, 100, 1), Offer(24, 2, 4, 1, 150, 9)}]}

\* Two needs share a pack when they are merged; the delivery is free again
\* when a third one, so far bought at store 2, is bought as that product too.
MeetingLate ==
  {[kind |-> "cart", config |-> Config("budget", None, "delivery", None),
    matches |-> <<Match(NeedOf(1, "folder", 1 :> 5), {11}, {11}),
                  Match(NeedOf(2, "folder", 2 :> 5), {11}, {11}),
                  Match(NeedOf(3, "folder", 1 :> 10), {11, 21}, {11, 21}),
                  Match(NeedOf(4, "glue", 1 :> 1), {22}, {22})>>,
    offers |-> {Offer(11, 1, "folder", 10, 750, 9), Offer(21, 2, "folder", 10, 600, 9),
                Offer(22, 2, "glue", 1, 1600, 9)}]}

SomeCarts == FewNeeds \cup ManyNeeds \cup ScarceCarts \cup MeetingLate

SomePacks ==
  {[kind |-> "packs",
    need |-> [item |-> "glue", brand |-> b, quantity |-> q],
    offers |-> {Offer(1, 1, "glue", 1, p1, s1), Offer(2, 1, "glue", 8, p2, s2),
                [Offer(3, 1, "glue", 30, p3, s3) EXCEPT !.brand = "known"]}] :
     b \in {None, "known"}, q \in {1, 5, 13, 20}, p1 \in {50, 100}, s1 \in {0, 3, 13},
     p2 \in {350, 500}, s2 \in {0, 1, 2}, p3 \in {400, 1500}, s3 \in {0, 1}}

SomeShares ==
  {[kind |-> "share", total |-> t, weights |-> w] :
     t \in 0..7, w \in [1..3 -> 0..3]}

NoQuestions == {}
=============================================================================
