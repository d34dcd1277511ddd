------------------------ MODULE PlanWorkflow_proofs ------------------------
(***************************************************************************)
(* The safety invariants of PlanWorkflow, for any needs, products, prices, *)
(* payers, optional items and budgets.  PlanInv, the inductive invariant:   *)
(* each screen comes after what it needs, a result is the one a build from *)
(* the current prices and stock returns, an approved cart honours the      *)
(* answers, a confirmation the parent has not gone back behind is of the   *)
(* cart in effect, and a question without a valid answer is one a catalog  *)
(* change has left.  One theorem needs a premise on the instance: OneTrip, *)
(* that everything is bought at one store.                                 *)
(***************************************************************************)
EXTENDS PlanWorkflow, FiniteFacts

-----------------------------------------------------------------------------
(* What the operators on carts yield *)

\* Every line of a cart is of a product in stock at its price in p.
Sound(cart, out, p) ==
  \A g \in DOMAIN cart :
    /\ cart[g].sku \in Sku \ out
    /\ cart[g].cost = p[cart[g].sku] * Cardinality(g)

\* The products that may be bought for some groups of needs.
Possible(may, groups, out) ==
  /\ groups \subseteq Group
  /\ \A g \in groups : may[g] \subseteq Sku \ out

Disjoint(groups) == \A g, h \in groups : g = h \/ g \cap h = {}

\* A group of needs is finite and not empty.
LEMMA GroupFinite ==
  ASSUME NEW g \in Group
  PROVE  IsFiniteSet(g) /\ g # {} /\ g \subseteq Need /\ Cardinality(g) \in Nat \ {0}
<1>1. IsFiniteSet(g) /\ g # {} /\ g \subseteq Need
  BY PlanConstants, FS_Subset DEF Group
<1> QED
  BY <1>1, FS_CardinalityType, FS_EmptySet

\* The cheapest product of a trip exists, and is one of those to choose from.
LEMMA BestIsOne ==
  ASSUME NEW S, S \subseteq Sku, S # {}, NEW p \in [Sku -> Nat]
  PROVE  Best(S, p) \in S
<1> DEFINE T == FirstTrip(S)
<1>1. T # {} /\ T \subseteq S
  BY DEF FirstTrip
<1> DEFINE costs == {p[s] : s \in T}
<1>2. PICK s0 \in T : \A t \in T : p[s0] <= p[t]
  <2>1. costs \subseteq Nat /\ costs # {}
    BY <1>1
  <2> HIDE DEF costs
  <2>2. PICK m \in costs : \A n \in costs : m <= n
    BY <2>1, LeastNumber
  <2> QED
    BY <2>2 DEF costs
<1> DEFINE C == {s \in T : p[s] = p[s0]}
           ranks == {Preference[s] : s \in C}
<1>3. PICK s1 \in C : \A t \in C : Preference[s1] <= Preference[t]
  <2>1. ranks \subseteq Nat /\ ranks # {}
    BY <1>1, PlanConstants
  <2> HIDE DEF ranks
  <2>2. PICK m \in ranks : \A n \in ranks : m <= n
    BY <2>1, LeastNumber
  <2> QED
    BY <2>2 DEF ranks
<1>4. \A t \in T : Cheaper(s1, t, p)
  BY <1>1, <1>2, <1>3 DEF Cheaper
<1>5. Best(S, p) \in T
  BY <1>4 DEF Best
<1> QED
  BY <1>1, <1>5

\* A sound cart that buys the best product of every group that has one.
BestCart(cart, groups, may, out, p) ==
  /\ DOMAIN cart = {g \in groups : may[g] # {}}
  /\ DOMAIN cart \subseteq groups
  /\ IsCart(cart) /\ Sound(cart, out, p)
  /\ \A g \in DOMAIN cart : cart[g].sku = Best(may[g], p)
  /\ \A g \in DOMAIN cart : cart[g].sku \in may[g]

\* That is what the optimizer makes.
LEMMA OptimizeIsSound ==
  ASSUME NEW groups, NEW may, NEW out, NEW p \in [Sku -> Nat],
         Possible(may, groups, out), NEW cart, cart = Optimize(groups, may, p)
  PROVE  BestCart(cart, groups, may, out, p)
<1>1. DOMAIN cart = {g \in groups : may[g] # {}}
  BY DEF Optimize
<1>2. ASSUME NEW g \in DOMAIN cart
      PROVE  /\ cart[g] \in Line /\ cart[g].sku \in may[g]
             /\ cart[g].sku = Best(may[g], p)
             /\ cart[g].sku \in Sku \ out
             /\ cart[g].cost = p[cart[g].sku] * Cardinality(g)
  <2>1. Best(may[g], p) \in may[g] /\ may[g] \subseteq Sku \ out
    BY <1>1, <1>2, BestIsOne DEF Possible
  <2>2. Cardinality(g) \in Nat
    BY <1>1, <1>2, GroupFinite DEF Possible
  <2>3. cart[g] = [sku |-> Best(may[g], p),
                   cost |-> p[Best(may[g], p)] * Cardinality(g)]
    BY <1>2 DEF Optimize
  <2>4. p[Best(may[g], p)] * Cardinality(g) \in Nat
    BY <2>1, <2>2
  <2> QED
    BY <2>1, <2>3, <2>4 DEF Line
<1>3. cart = [g \in DOMAIN cart |-> cart[g]]
  BY DEF Optimize
<1>4. IsCart(cart)
  <2>1. cart \in [DOMAIN cart -> Line]
    BY <1>2, <1>3
  <2> QED
    BY <1>1, <2>1 DEF IsCart, Possible
<1> QED
  BY <1>1, <1>2, <1>4 DEF Sound, BestCart

\* Carts are finite, and what they cost is a number.
LEMMA CartFinite ==
  ASSUME NEW cart, IsCart(cart)
  PROVE  /\ IsFiniteSet(DOMAIN cart) /\ DOMAIN cart \subseteq Group
         /\ \A g \in DOMAIN cart : cart[g].sku \in Sku /\ cart[g].cost \in Nat
<1>1. IsFiniteSet(SUBSET Need)
  BY PlanConstants, FS_SUBSET
<1>2. DOMAIN cart \subseteq Group /\ DOMAIN cart \subseteq SUBSET Need
  BY DEF IsCart, Group
<1>3. IsFiniteSet(DOMAIN cart)
  BY <1>1, <1>2, FS_Subset
<1>4. \A g \in DOMAIN cart : cart[g] \in Line
  BY DEF IsCart
<1> QED
  BY <1>2, <1>3, <1>4 DEF Line

\* The total of a cart is an amount.
LEMMA CostType ==
  ASSUME NEW cart, IsCart(cart)
  PROVE  Cost(cart) \in Nat
<1> DEFINE f == [g \in DOMAIN cart |-> cart[g].cost]
<1>1. /\ DOMAIN f = DOMAIN cart /\ IsFiniteSet(DOMAIN cart)
      /\ \A g \in DOMAIN cart : f[g] \in Nat
  BY CartFinite
<1> HIDE DEF f
<1>2. SumFunctionOnSet(f, DOMAIN f) \in Nat
  BY <1>1, SumNat
<1> QED
  BY <1>2 DEF Cost, SumFunction, f

\* One entry's part of a cart is an amount.
LEMMA EntryCostType ==
  ASSUME NEW cart, IsCart(cart), NEW c
  PROVE  EntryCost(cart, c) \in Nat
<1> DEFINE part(g) == Cardinality({n \in g : PaidBy[n] = c})
           f == [g \in DOMAIN cart |-> (cart[g].cost \div Cardinality(g)) * part(g)]
<1>1. ASSUME NEW g \in DOMAIN cart PROVE f[g] \in Nat
  <2>1. /\ cart[g].cost \in Nat /\ IsFiniteSet(g)
        /\ Cardinality(g) \in Nat \ {0}
    BY CartFinite, GroupFinite
  <2>2. part(g) \in Nat
    <3>1. IsFiniteSet({n \in g : PaidBy[n] = c})
      BY <2>1, FS_Subset
    <3> QED
      BY <3>1, FS_CardinalityType
  <2>3. cart[g].cost \div Cardinality(g) \in Nat
    BY <2>1
  <2>4. (cart[g].cost \div Cardinality(g)) * part(g) \in Nat
    <3> HIDE DEF part
    <3> QED
      BY <2>2, <2>3
  <2> QED
    BY <2>4
<1>2. DOMAIN f = DOMAIN cart /\ IsFiniteSet(DOMAIN cart)
  BY CartFinite
<1> HIDE DEF f
<1>3. SumFunctionOnSet(f, DOMAIN f) \in Nat
  BY <1>1, <1>2, SumNat
<1> QED
  BY <1>3 DEF EntryCost, SumFunction, f

\* Lines are numbered.
LEMMA LineNumberType ==
  ASSUME NEW cart, IsCart(cart), NEW g
  PROVE  LineNumber(cart, g) \in Nat
<1>1. IsFiniteSet({h \in DOMAIN cart : SameTrip(cart, g, h) /\ First(h) <= First(g)})
  BY CartFinite, FS_Subset
<1> QED
  BY <1>1, FS_CardinalityType DEF LineNumber

\* The least of some natural numbers is one of them.
LEMMA MinIsLeast ==
  ASSUME NEW S, S \subseteq Nat, S # {}
  PROVE  Min(S) \in S /\ \A n \in S : Min(S) <= n
<1>1. \E m \in S : \A n \in S : m <= n
  BY LeastNumber
<1> QED
  BY <1>1 DEF Min

\* A question has the number of a line it is about, and is about the needs of
\* all the lines that buy its product and differ.
LEMMA QuestionType ==
  ASSUME NEW cart, IsCart(cart), NEW s \in DOMAIN Questions(cart)
  PROVE  /\ Questions(cart)[s].line \in Nat
         /\ Questions(cart)[s].needs \in Group
         /\ \E g \in DOMAIN cart :
              /\ cart[g].sku = s /\ Differs(cart, g)
              /\ Questions(cart)[s].line = LineNumber(cart, g)
<1> DEFINE about == {g \in DOMAIN cart : cart[g].sku = s /\ Differs(cart, g)}
           lines == {LineNumber(cart, g) : g \in about}
<1>1. /\ about # {} /\ Questions(cart)[s].line = Min(lines)
      /\ Questions(cart)[s].needs = UNION about
  BY DEF Questions
<1>2. about \subseteq Group
  BY CartFinite
<1>3. lines # {} /\ lines \subseteq Nat
  BY <1>1, LineNumberType
<1>4. Min(lines) \in lines
  <2> HIDE DEF lines
  <2> QED
    BY <1>3, MinIsLeast
<1>5. UNION about \in Group
  <2> HIDE DEF about
  <2> QED
    BY <1>1, <1>2 DEF Group
<1> QED
  BY <1>1, <1>3, <1>4, <1>5

\* The questions of a cart are about products it buys.
LEMMA QuestionsType ==
  ASSUME NEW cart, IsCart(cart)
  PROVE  Questions(cart) \in PartialFunction(Sku, [line : Nat, needs : Group])
<1> DEFINE asked == Questions(cart)
<1>1. DOMAIN asked \subseteq Sku
  BY CartFinite DEF Questions, Skus
<1>2. ASSUME NEW s \in DOMAIN asked PROVE asked[s] \in [line : Nat, needs : Group]
  <2>1. asked[s].line \in Nat /\ asked[s].needs \in Group
    BY QuestionType
  <2>2. asked[s] = [line |-> asked[s].line, needs |-> asked[s].needs]
    BY DEF Questions
  <2> HIDE DEF asked
  <2> QED
    BY <2>1, <2>2
<1>3. asked = [s \in DOMAIN asked |-> asked[s]]
  BY DEF Questions
<1> HIDE DEF asked
<1>4. asked \in PartialFunction(Sku, [line : Nat, needs : Group])
  BY <1>1, <1>2, <1>3 DEF PartialFunction
<1> QED
  BY <1>4 DEF asked

\* A cart is a function on groups of needs.
LEMMA CartIsFunction ==
  ASSUME NEW cart, IsCart(cart)
  PROVE  cart \in PartialFunction(Group, Line)
  BY DEF IsCart, PartialFunction

\* What is true of a result of the pipeline for as long as it is kept: it was
\* built for what is in stock at present prices, and its questions are those
\* of the cart the gate saw.
Built(r, out, p) ==
  /\ r \in PipelineResult
  /\ Possible(r.can, DOMAIN r.can, out) /\ Disjoint(DOMAIN r.can)
  /\ r.gated = Optimize(DOMAIN r.can, r.can, p)
  /\ IsCart(r.cart) /\ Sound(r.cart, out, p)
  /\ DOMAIN r.cart \subseteq DOMAIN r.can
  /\ r.asked = Questions(r.gated)
  /\ r.over \in BOOLEAN
  /\ r.actions \subseteq DOMAIN r.gated
  /\ r.actions # {} => r.over

\* Needs bought together are in stock, and no need is in two groups.
LEMMA ConsolidatedIsPossible ==
  ASSUME NEW needs, needs \subseteq Need, NEW may, NEW out,
         NEW p \in [Sku -> Nat], Possible(may, Singles(needs), out)
  PROVE  LET can == Consolidated(needs, may, p)
         IN  Possible(can, DOMAIN can, out) /\ Disjoint(DOMAIN can)
<1> DEFINE first == Optimize(Singles(needs), may, p)
           joint == {Together(first, n) : n \in Bought(first)}
           all == joint \cup Singles(needs \ Bought(first))
           can == Consolidated(needs, may, p)
<1>a. DOMAIN first \subseteq Singles(needs) /\ Sound(first, out, p)
  <2>1. first = Optimize(Singles(needs), may, p)
    OBVIOUS
  <2> HIDE DEF first
  <2> QED
    BY <2>1, OptimizeIsSound DEF BestCart
<1>1. /\ DOMAIN first \subseteq Singles(needs)
      /\ \A g \in DOMAIN first : first[g].sku \in Sku \ out
  BY <1>a DEF Sound
<1>2. /\ Bought(first) \subseteq needs
      /\ \A n \in Bought(first) : {n} \in DOMAIN first
  BY <1>1 DEF Bought, Singles
<1>3. DOMAIN can = all
  BY DEF Consolidated
<1> HIDE DEF first
<1>4. ASSUME NEW n \in Bought(first)
      PROVE  n \in Together(first, n) /\ Together(first, n) \subseteq Bought(first)
  BY DEF Together
<1>5. all \subseteq Group
  BY <1>2, <1>4 DEF Singles, Group
<1>6. Disjoint(all)
  <2>1. ASSUME NEW m \in Bought(first), NEW n \in Bought(first),
               Together(first, m) \cap Together(first, n) # {}
        PROVE  Together(first, m) = Together(first, n)
    BY <2>1 DEF Together
  <2>2. ASSUME NEW g \in joint, NEW h \in Singles(needs \ Bought(first))
        PROVE  g \cap h = {}
    BY <1>4 DEF Singles
  <2>3. Disjoint(Singles(needs \ Bought(first)))
    BY DEF Disjoint, Singles
  <2>4. Disjoint(joint)
    BY <2>1 DEF Disjoint
  <2> HIDE DEF joint
  <2> QED
    BY <2>2, <2>3, <2>4 DEF Disjoint
<1>7. ASSUME NEW g \in all PROVE can[g] \subseteq Sku \ out
  <2>1. can[g] = IF Cardinality(g) = 1 THEN may[g] ELSE {first[{n}].sku : n \in g}
    BY DEF Consolidated, first
  <2>2. CASE Cardinality(g) = 1
    <3>1. IsFiniteSet(g) /\ g \in Group
      BY <1>5, GroupFinite
    <3>2. PICK n : g = {n}
      BY <2>2, <3>1, FS_Singleton
    <3>3. n \in needs
      BY <1>2, <1>4, <3>2 DEF Singles
    <3> QED
      BY <2>1, <2>2, <3>2, <3>3 DEF Possible, Singles
  <2>3. CASE Cardinality(g) # 1
    <3>1. g \notin Singles(needs \ Bought(first))
      BY <2>3, FS_Singleton DEF Singles
    <3>2. g \subseteq Bought(first)
      BY <1>4, <3>1
    <3>3. can[g] = {first[{n}].sku : n \in g}
      BY <2>1, <2>3
    <3>4. \A n \in g : first[{n}].sku \in Sku \ out
      BY <1>1, <1>2, <3>2
    <3> HIDE DEF can
    <3> QED
      BY <3>3, <3>4
  <2> QED
    BY <2>2, <2>3
<1> HIDE DEF all, can
<1> QED
  BY <1>3, <1>5, <1>6, <1>7 DEF Possible, can

\* The result of the pipeline for any constraints a replan has.
LEMMA PlannedIsBuilt ==
  ASSUME NEW omit, NEW force, NEW out, NEW p \in [Sku -> Nat], units \subseteq Need
  PROVE  /\ Built(Planned(omit, force, out, p), out, p)
         /\ Planned(omit, force, out, p).cart = Planned(omit, force, out, p).gated
<1> DEFINE needs == {n \in units : {n} \notin omit}
           may == Matches(units, omit, force, out)
           can == Consolidated(needs, may, p)
           cart == Optimize(DOMAIN can, can, p)
           r == Planned(omit, force, out, p)
<1>1. Possible(may, Singles(needs), out)
  <2>0. Singles(needs) \subseteq Group
    BY DEF Singles, Group
  <2> SUFFICES ASSUME NEW n \in needs PROVE may[{n}] \subseteq Sku \ out
    <3> HIDE DEF may, needs
    <3> QED
      BY <2>0 DEF Possible, Singles
  <2>1. {n} \in Singles(units) \ omit
    BY DEF Singles
  <2>2. (CHOOSE m \in units : {n} = {m}) = n
    OBVIOUS
  <2>3. Candidates[n] \subseteq Sku
    BY PlanConstants
  <2> QED
    BY <2>1, <2>2, <2>3 DEF Matches
<1>2. Possible(can, DOMAIN can, out) /\ Disjoint(DOMAIN can)
  <2> HIDE DEF may
  <2> QED
    BY <1>1, ConsolidatedIsPossible
<1>b. can = [g \in DOMAIN can |-> can[g]]
  <2> HIDE DEF may, needs
  <2> QED
    BY DEF Consolidated
<1>3. r = Result(needs, may, p, budget)
  BY DEF Planned
<1> DEFINE actions == IF Overages(cart, budget) # {} /\ ~PerChild
                      THEN DOMAIN cart ELSE {}
           eligible == DOMAIN cart = DOMAIN can /\ 100 * Cost(cart) <= 90 * Total(budget)
<1>4. r = [can |-> can, gated |-> cart, cart |-> cart, asked |-> Questions(cart),
           over |-> Overages(cart, budget) # {}, actions |-> actions,
           eligible |-> eligible]
  BY <1>3 DEF Result
<1>a. actions \subseteq DOMAIN cart /\ (actions # {} => Overages(cart, budget) # {})
      /\ eligible \in BOOLEAN
  OBVIOUS
<1> HIDE DEF can, r, actions, eligible
<1>5. DOMAIN cart \subseteq DOMAIN can /\ IsCart(cart) /\ Sound(cart, out, p)
  <2> DEFINE groups == DOMAIN can
  <2>1. cart = Optimize(groups, can, p) /\ Possible(can, groups, out)
    BY <1>2
  <2> HIDE DEF cart, groups
  <2>2. DOMAIN cart \subseteq groups /\ IsCart(cart) /\ Sound(cart, out, p)
    BY <2>1, OptimizeIsSound DEF BestCart
  <2> QED
    BY <2>2 DEF groups
<1> HIDE DEF cart
<1>6. /\ r.can = can /\ r.gated = cart /\ r.cart = cart /\ r.asked = Questions(cart)
      /\ r.over \in BOOLEAN /\ r.actions \subseteq DOMAIN cart
      /\ r.actions # {} => r.over
  BY <1>4, <1>a
<1>7. r.gated = Optimize(DOMAIN r.can, r.can, p)
  BY <1>6 DEF cart
<1>8. r \in PipelineResult
  <2>1. can \in PartialFunction(Group, SUBSET Sku)
    <3>1. DOMAIN can \subseteq Group /\ \A g \in DOMAIN can : can[g] \in SUBSET Sku
      BY <1>2 DEF Possible
    <3> QED
      BY <1>b, <3>1 DEF PartialFunction
  <2>2. cart \in PartialFunction(Group, Line)
    BY <1>5, CartIsFunction
  <2>3. Questions(cart) \in PartialFunction(Sku, [line : Nat, needs : Group])
    BY <1>5, QuestionsType
  <2>4. /\ (Overages(cart, budget) # {}) \in BOOLEAN /\ actions \in SUBSET Group
        /\ eligible \in BOOLEAN
    BY <1>5, <1>a DEF IsCart
  <2> QED
    BY <1>4, <2>1, <2>2, <2>3, <2>4 DEF PipelineResult
<1> QED
  BY <1>2, <1>5, <1>6, <1>7, <1>8 DEF Built, r

\* The cart the gate saw is sound, and buys for each group what it may.
LEMMA GatedIsSound ==
  ASSUME NEW r, NEW out, NEW p \in [Sku -> Nat], Built(r, out, p)
  PROVE  /\ DOMAIN r.gated \subseteq DOMAIN r.can
         /\ IsCart(r.gated) /\ Sound(r.gated, out, p)
         /\ \A g \in DOMAIN r.gated : r.gated[g].sku = Best(r.can[g], p)
         /\ \A g \in DOMAIN r.gated : r.gated[g].sku \in r.can[g]
<1> DEFINE cart == r.gated
           can == r.can
           groups == DOMAIN can
<1>1. cart = Optimize(groups, can, p) /\ Possible(can, groups, out)
  BY DEF Built
<1> HIDE DEF cart, can, groups
<1>2. BestCart(cart, groups, can, out, p)
  BY <1>1, OptimizeIsSound
<1> QED
  BY <1>2 DEF cart, can, groups, BestCart

\* A line number that some line has finds one of the lines that have it.
LEMMA LineAtIsOne ==
  ASSUME NEW cart, NEW i, LinesAt(cart, i) # {}
  PROVE  LineAt(cart, i) \in LinesAt(cart, i)
<1> DEFINE fits(g) == cart[g].sku \notin SecondStore
                        \/ \A h \in LinesAt(cart, i) : cart[h].sku \in SecondStore
<1>1. \E g \in LinesAt(cart, i) : fits(g)
  OBVIOUS
<1> QED
  BY <1>1 DEF LineAt

\* A product the parent may answer with is one that may be bought for the
\* items the question is about.
LEMMA ForcedByFits ==
  ASSUME NEW r, NEW out, NEW p \in [Sku -> Nat], Built(r, out, p),
         NEW x, NEW s \in ForcedBy(r, r.gated, x)
  PROVE  /\ Target(r, r.gated, s) \in DOMAIN r.gated
         /\ x[s] \in r.can[Target(r, r.gated, s)]
<1> DEFINE g == Target(r, r.gated, s)
           i == r.asked[s].line
<1>1. x[s] \in OptionsFor(r, r.gated, s) /\ x[s] \in Sku
  BY DEF ForcedBy, Selected
<1>2. x[s] \notin {"approve", "omit"}
  BY <1>1, PlanConstants
<1>3. LinesAt(r.gated, i) # {}
  BY <1>1, <1>2 DEF OptionsFor
<1>4. g \in DOMAIN r.gated
  <2>1. LineAt(r.gated, i) \in LinesAt(r.gated, i)
    BY <1>3, LineAtIsOne
  <2> QED
    BY <1>3, <2>1 DEF Target, LinesAt
<1>5. x[s] = r.gated[g].sku \/ x[s] \in r.can[g]
  BY <1>1, <1>2, <1>3 DEF OptionsFor
<1> QED
  BY <1>4, <1>5, GatedIsSound

ForcedOptions(r, x, force) ==
  /\ DOMAIN force = {Target(r, r.gated, s) : s \in ForcedBy(r, r.gated, x)}
  /\ DOMAIN force \subseteq DOMAIN r.gated
  /\ \A g \in DOMAIN force :
       /\ force[g] \in r.can[g]
       /\ \E s \in ForcedBy(r, r.gated, x) :
            Target(r, r.gated, s) = g /\ force[g] = x[s]

\* What the answers force is in stock and an option of a line of the gated cart.
LEMMA ForcedFits ==
  ASSUME NEW r, NEW out, NEW p \in [Sku -> Nat], Built(r, out, p), NEW x,
         NEW force, force = Forced(r, r.gated, x)
  PROVE  ForcedOptions(r, x, force)
<1>1. DOMAIN force = {Target(r, r.gated, s) : s \in ForcedBy(r, r.gated, x)}
  BY DEF Forced
<1>2. ASSUME NEW g \in DOMAIN force
      PROVE  /\ g \in DOMAIN r.gated /\ force[g] \in r.can[g]
             /\ \E s \in ForcedBy(r, r.gated, x) :
                  Target(r, r.gated, s) = g /\ force[g] = x[s]
  <2> DEFINE s == CHOOSE t \in ForcedBy(r, r.gated, x) : Target(r, r.gated, t) = g
  <2>1. s \in ForcedBy(r, r.gated, x) /\ Target(r, r.gated, s) = g
    BY <1>1
  <2>2. force[g] = x[s]
    BY <1>1 DEF Forced
  <2> HIDE DEF s
  <2> QED
    BY <2>1, <2>2, ForcedByFits
<1> QED
  BY <1>1, <1>2 DEF ForcedOptions

\* A cart built anew with some products forced and some groups left out.
LEMMA AdjustedIsSound ==
  ASSUME NEW r, NEW out, NEW p \in [Sku -> Nat], Built(r, out, p),
         NEW omit, NEW force,
         \A g \in DOMAIN force : force[g] \in Sku \ out,
         NEW cart, cart = Adjusted(r, omit, force, p)
  PROVE  /\ IsCart(cart) /\ Sound(cart, out, p)
         /\ DOMAIN cart \subseteq DOMAIN r.can \ omit
         /\ \A g \in DOMAIN cart :
              cart[g].sku = IF g \in DOMAIN force THEN force[g] ELSE Best(r.can[g], p)
         /\ (DOMAIN force \cap DOMAIN r.can) \ omit \subseteq DOMAIN cart
         /\ DOMAIN cart \ DOMAIN force \subseteq DOMAIN r.gated
<1> DEFINE groups == DOMAIN r.can \ omit
           may == Override(r.can, force)
<1>1. /\ groups \subseteq Group
      /\ \A g \in groups : r.can[g] \subseteq Sku \ out
  BY DEF Built, Possible
<1>2. \A g \in groups : may[g] = IF g \in DOMAIN force THEN {force[g]} ELSE r.can[g]
  BY DEF Override
<1>3. cart = Optimize(groups, may, p)
  BY DEF Adjusted
<1> HIDE DEF groups, may
<1>4. Possible(may, groups, out)
  BY <1>1, <1>2 DEF Possible
<1>5. BestCart(cart, groups, may, out, p)
  BY <1>3, <1>4, OptimizeIsSound
<1>6. ASSUME NEW g \in DOMAIN cart
      PROVE  cart[g].sku = IF g \in DOMAIN force THEN force[g] ELSE Best(r.can[g], p)
  BY <1>2, <1>5 DEF BestCart
<1>7. (DOMAIN force \cap DOMAIN r.can) \ omit \subseteq DOMAIN cart
  BY <1>2, <1>5 DEF groups, BestCart
<1>8. ASSUME NEW g \in DOMAIN cart \ DOMAIN force PROVE g \in DOMAIN r.gated
  <2>1. g \in DOMAIN r.can /\ r.can[g] # {}
    BY <1>2, <1>5 DEF groups, BestCart
  <2>2. r.gated = Optimize(DOMAIN r.can, r.can, p)
    BY DEF Built
  <2> QED
    BY <2>1, <2>2 DEF Optimize
<1> QED
  BY <1>5, <1>6, <1>7, <1>8 DEF groups, BestCart

\* A forced product is in stock.
LEMMA ForcedInStock ==
  ASSUME NEW r, NEW out, NEW p \in [Sku -> Nat], Built(r, out, p), NEW x
  PROVE  \A g \in DOMAIN Forced(r, r.gated, x) :
           Forced(r, r.gated, x)[g] \in Sku \ out
<1> DEFINE force == Forced(r, r.gated, x)
<1>1. force = Forced(r, r.gated, x)
  OBVIOUS
<1> HIDE DEF force
<1>2. DOMAIN force \subseteq DOMAIN r.gated /\ \A g \in DOMAIN force : force[g] \in r.can[g]
  BY <1>1, ForcedFits DEF ForcedOptions
<1>3. \A g \in DOMAIN force : force[g] \in Sku \ out
  BY <1>2, GatedIsSound DEF Built, Possible
<1> QED
  BY <1>3 DEF force

\* The cart of any answers and removals.
LEMMA ApplyIsSound ==
  ASSUME NEW r, NEW out, NEW p \in [Sku -> Nat], Built(r, out, p), NEW x, NEW acts
  PROVE  /\ IsCart(Apply(r, x, acts, p)) /\ Sound(Apply(r, x, acts, p), out, p)
         /\ DOMAIN Apply(r, x, acts, p) \subseteq DOMAIN r.can
<1> DEFINE omit == Omitted(r, r.gated, x, acts)
           force == Forced(r, r.gated, x)
           cart == Apply(r, x, acts, p)
<1>1. \A g \in DOMAIN force : force[g] \in Sku \ out
  BY ForcedInStock
<1>2. cart = r.cart \/ cart = Adjusted(r, omit, force, p)
  BY DEF Apply
<1> HIDE DEF omit, force, cart
<1>3. CASE cart = r.cart
  BY <1>3 DEF Built, cart
<1>4. CASE cart = Adjusted(r, omit, force, p)
  BY <1>1, <1>4, AdjustedIsSound DEF cart
<1> QED
  BY <1>2, <1>3, <1>4

-----------------------------------------------------------------------------
(* The inductive invariant *)

HasResult == result # None \/ shown # "working"

Screens ==
  /\ screen \in {"working", "approval", "summary", "review"}
  /\ shown \in {"working", "approval", "summary"}
  /\ screen # "review" => shown = screen

Catalog == units \subseteq Need /\ price \in [Sku -> Price]

\* The result in use was built for the present catalog; without a cart the
\* parent approved, the proposed cart is the one of the gate; off the summary
\* no confirmation stands that was not gone back behind.
Fresh ==
  /\ HasResult => Built(result, stockouts, price)
  /\ HasResult /\ approved = None => result.cart = result.gated
  /\ shown # "summary" => approved = None /\ (checkout = None \/ confirmedWith = None)

\* An approved cart honours the answers, and is of the present catalog.
Accepted ==
  approved # None =>
    /\ IsCart(approved) /\ Sound(approved, stockouts, price)
    /\ Contradicted(result, approved, outcomes) = {}

Confirmed ==
  checkout # None /\ confirmedWith # None =>
    checkout = Cost(EffectiveCart) + AddOnCost(confirmedWith, price)

\* A plan over its budget reaches the summary only as an approved cart: a
\* rebuilt plan has lost the answer about the budget.  The answers such a plan
\* has are those the replan has kept.
Answered ==
  /\ shown = "summary" =>
       /\ result.over => "budget" \in DOMAIN outcomes
       /\ Undecided \subseteq preserved
       /\ approved # None => Undecided = {}
       /\ approved = None => ~result.over
  /\ shown = "working" =>
       "budget" \notin DOMAIN outcomes /\ DOMAIN outcomes \subseteq preserved
  /\ result = None => DOMAIN outcomes = {}

\* What the parent answered is what is saved.
Own ==
  /\ DOMAIN own \subseteq DOMAIN outcomes
  /\ HasResult => DOMAIN own \subseteq DOMAIN result.asked
  /\ \A s \in DOMAIN own : outcomes[s] = own[s].answer

PlanInv == Screens /\ Catalog /\ Fresh /\ Accepted /\ Confirmed /\ Answered /\ Own

\* None is no cart.
LEMMA CartIsSomething ==
  ASSUME NEW cart, IsCart(cart)
  PROVE  cart # None
  BY PlanConstants DEF IsCart

\* A result is not None.
LEMMA BuiltIsSomething ==
  ASSUME NEW r, NEW out, NEW p, Built(r, out, p)
  PROVE  r # None
  BY PlanConstants DEF Built

\* Questions are about products.
LEMMA AskedAreProducts ==
  ASSUME NEW r, NEW out, NEW p \in [Sku -> Nat], Built(r, out, p)
  PROVE  DOMAIN r.asked \subseteq Sku /\ "budget" \notin DOMAIN r.asked
<1>1. DOMAIN r.asked \subseteq Skus(r.gated)
  <2>1. r.asked = Questions(r.gated)
    BY DEF Built
  <2> HIDE DEF Built
  <2> QED
    BY <2>1 DEF Questions
<1>2. Skus(r.gated) \subseteq Sku
  BY GatedIsSound DEF Skus, Sound
<1> QED
  BY <1>1, <1>2, PlanConstants

\* What contradicts a cart depends on the answers to the questions and on the
\* cart the gate saw, not on the proposed one.
LEMMA SameAnswers ==
  ASSUME NEW r, NEW r2, NEW x, NEW y, NEW cart,
         r2.can = r.can, r2.gated = r.gated, r2.asked = r.asked,
         DOMAIN x \cap DOMAIN r.asked = DOMAIN y \cap DOMAIN r.asked,
         \A s \in DOMAIN x \cap DOMAIN r.asked : x[s] = y[s]
  PROVE  Contradicted(r2, cart, x) = Contradicted(r, cart, y)
<1>1. \A s : /\ Target(r2, r2.gated, s) = Target(r, r.gated, s)
             /\ OptionsFor(r2, r2.gated, s) = OptionsFor(r, r.gated, s)
  BY DEF OptionsFor, Target
<1>2. Selected(r2, r2.gated, x) = Selected(r, r.gated, y)
  BY <1>1 DEF Selected
<1>3. \A s \in Selected(r, r.gated, y) : x[s] = y[s]
  BY DEF Selected
<1> QED
  BY <1>1, <1>2, <1>3 DEF Contradicted

\* Prices are numbers.
LEMMA PricesAreNumbers == Catalog => price \in [Sku -> Nat]
  BY PlanConstants DEF Catalog

\* Saving the answers with a sound cart that honours them.
LEMMA SavedKeeps ==
  ASSUME PlanInv, screen = "approval",
         NEW moot, NEW out \in Answers(result, moot), NEW answer, NEW acts,
         NEW removed, NEW cart,
         Saved(result, out, answer, moot, acts, removed, cart),
         IsCart(cart), Sound(cart, stockouts, price),
         DOMAIN cart \subseteq DOMAIN result.can,
         \/ result' = result
         \/ result' = [result EXCEPT !.cart = cart]
  PROVE  PlanInv'
<1> USE DEF PlanInv
<1>1. /\ screen' = "summary" /\ shown' = "summary" /\ approved' = cart
      /\ outcomes' = WithBudget(result, out, answer) /\ resolved' = moot
      /\ own' = Given(result, out)
      /\ UNCHANGED <<stockouts, price, changes, plans, units, checkout,
                     confirmedWith>>
      /\ Contradicted(result, cart, out) = {}
  BY DEF Saved, Show, catalog, order
<1>2. /\ HasResult /\ (checkout = None \/ confirmedWith = None)
      /\ Built(result, stockouts, price) /\ price \in [Sku -> Nat]
  BY PricesAreNumbers DEF Screens, Fresh, HasResult
<1>a. /\ DOMAIN out = DOMAIN result.asked \ moot
      /\ \A s \in DOMAIN out : out[s] \in OptionsFor(result, result.gated, s)
      /\ \A s \in DOMAIN out \cap preserved :
           s \in Selected(result, result.gated, outcomes) => out[s] = outcomes[s]
  BY DEF Answers
<1>3. /\ result'.can = result.can /\ result'.gated = result.gated
      /\ result'.asked = result.asked /\ result'.over = result.over
      /\ Built(result', stockouts, price)
  <2>1. CASE result' = result
    BY <1>2, <2>1
  <2>2. CASE result' = [result EXCEPT !.cart = cart]
    <3>1. cart \in PartialFunction(Group, Line) /\ result \in PipelineResult
      BY <1>2, CartIsFunction DEF Built
    <3>2. /\ result'.can = result.can /\ result'.gated = result.gated
          /\ result'.asked = result.asked /\ result'.over = result.over
          /\ result'.actions = result.actions /\ result'.cart = cart
          /\ result' \in PipelineResult
      BY <2>2, <3>1 DEF PipelineResult
    <3> QED
      BY <1>2, <3>2 DEF Built
  <2> QED
    BY <2>1, <2>2
<1>4. "budget" \notin DOMAIN result.asked
  BY <1>2, AskedAreProducts
<1>5. /\ DOMAIN outcomes' = DOMAIN out \cup (IF result.over THEN {"budget"} ELSE {})
      /\ \A s \in DOMAIN out : s # "budget" => outcomes'[s] = out[s]
  BY <1>1 DEF WithBudget
<1>6. cart # None
  BY CartIsSomething
<1>7. Contradicted(result', cart, outcomes') = {}
  <2>1. /\ DOMAIN outcomes' \cap DOMAIN result.asked = DOMAIN out \cap DOMAIN result.asked
        /\ \A s \in DOMAIN outcomes' \cap DOMAIN result.asked : outcomes'[s] = out[s]
    BY <1>4, <1>5
  <2>2. Contradicted(result', cart, outcomes') = Contradicted(result, cart, out)
    BY <1>3, <2>1, SameAnswers
  <2> QED
    BY <1>1, <2>2
<1>8. Screens' /\ Catalog'
  BY <1>1 DEF Screens, Catalog
<1>9. Fresh'
  BY <1>1, <1>2, <1>3, <1>6 DEF Fresh, HasResult
<1>10. Accepted'
  BY <1>1, <1>7 DEF Accepted, Sound
<1>11. Confirmed'
  BY <1>1, <1>2 DEF Confirmed
<1>12. Answered'
  <2>1. result'.over => "budget" \in DOMAIN outcomes'
    BY <1>3, <1>5
  <2>2. ASSUME NEW s \in DOMAIN result'.asked \ resolved'
        PROVE  s \in Selected(result', result'.gated, outcomes')
    <3>1. s \in DOMAIN out /\ s \in DOMAIN outcomes' /\ outcomes'[s] = out[s]
      BY <1>1, <1>3, <1>4, <1>5, <1>a
    <3>2. OptionsFor(result', result'.gated, s) = OptionsFor(result, result.gated, s)
      BY <1>3 DEF OptionsFor, Target
    <3> QED
      BY <1>a, <3>1, <3>2 DEF Selected
  <2>3. Undecided' = {}
    BY <2>2 DEF Undecided
  <2>4. result' # None
    BY <1>3, BuiltIsSomething
  <2> QED
    BY <1>1, <1>6, <2>1, <2>3, <2>4 DEF Answered
<1>13. Own'
  <2>1. DOMAIN own' \subseteq DOMAIN out
    BY <1>1 DEF Given
  <2>2. ASSUME NEW s \in DOMAIN own' PROVE own'[s].answer = out[s]
    <3> DEFINE kept == {t \in preserved \cap DOMAIN own \cap DOMAIN out :
                          own[t].answer \in OptionsFor(result, result.gated, t)}
    <3>1. own'[s] = IF s \in kept THEN own[s]
                    ELSE [answer |-> out[s], needs |-> result.asked[s].needs]
      BY <1>1, <2>2 DEF Given
    <3>2. CASE s \in kept
      <4>1. outcomes[s] = own[s].answer /\ s \in DOMAIN outcomes /\ s \in DOMAIN result.asked
        BY <1>2, <3>2 DEF Own
      <4>2. s \in Selected(result, result.gated, outcomes)
        BY <3>2, <4>1 DEF Selected
      <4> QED
        BY <1>a, <3>1, <3>2, <4>1, <4>2
    <3>3. CASE s \notin kept
      BY <3>1, <3>3
    <3> QED
      BY <3>2, <3>3
  <2> QED
    BY <1>3, <1>4, <1>5, <1>a, <2>1, <2>2 DEF Own
<1> QED
  BY <1>8, <1>9, <1>10, <1>11, <1>12, <1>13

\* "Save decisions and continue".
LEMMA SaveKeeps ==
  ASSUME PlanInv, NEW acts, NEW raise, Save(acts, raise)
  PROVE  PlanInv'
<1>1. /\ screen = "approval" /\ HasResult /\ price \in [Sku -> Nat]
      /\ Built(result, stockouts, price)
  BY PricesAreNumbers DEF Save, PlanInv, Screens, Fresh, HasResult
<1> DEFINE moot == {s \in DOMAIN result.asked :
                      result.asked[s].needs \cap UNION acts # {}}
<1>2. PICK out \in Answers(result, moot) :
        LET cart == Apply(result, out, acts, price)
        IN  Saved(result, out, IF raise THEN "raise" ELSE "plan", moot,
                  acts, acts, cart)
  BY DEF Save
<1> DEFINE cart == Apply(result, out, acts, price)
<1>4. /\ IsCart(cart) /\ Sound(cart, stockouts, price)
      /\ DOMAIN cart \subseteq DOMAIN result.can
  BY <1>1, ApplyIsSound
<1>5. result' = result
  BY DEF Save
<1>6. Saved(result, out, IF raise THEN "raise" ELSE "plan", moot, acts, acts, cart)
  BY <1>2
<1> HIDE DEF moot, cart
<1> QED
  BY <1>1, <1>4, <1>5, <1>6, SavedKeeps

\* The same over individual budgets, where the proposed cart becomes the
\* approved one.
LEMMA SavePerEntryKeeps ==
  ASSUME PlanInv, NEW removed, SavePerEntry(removed)
  PROVE  PlanInv'
<1>1. /\ screen = "approval" /\ HasResult /\ price \in [Sku -> Nat]
      /\ Built(result, stockouts, price)
  BY PricesAreNumbers DEF SavePerEntry, PlanInv, Screens, Fresh, HasResult
<1> DEFINE moot == {s \in DOMAIN result.asked : result.asked[s].needs \in removed}
           omit(out) == Omitted(result, result.gated, out, {}) \cup removed
           force(out) == Forced(result, result.gated, out)
           made(out) == Adjusted(result, omit(out), force(out), price)
<1>2. PICK out \in Answers(result, moot) :
        /\ Saved(result, out, "raise", moot, {}, removed, made(out))
        /\ result' = [result EXCEPT !.cart = made(out)]
  BY DEF SavePerEntry
<1> DEFINE cart == made(out)
<1>4. \A g \in DOMAIN force(out) : force(out)[g] \in Sku \ stockouts
  BY <1>1, ForcedInStock
<1>5. cart = Adjusted(result, omit(out), force(out), price)
  OBVIOUS
<1>6. /\ Saved(result, out, "raise", moot, {}, removed, cart)
      /\ result' = [result EXCEPT !.cart = cart]
  BY <1>2
<1> HIDE DEF moot, cart, omit, force, made
<1>7. /\ IsCart(cart) /\ Sound(cart, stockouts, price)
      /\ DOMAIN cart \subseteq DOMAIN result.can
  BY <1>1, <1>4, <1>5, AdjustedIsSound
<1> QED
  BY <1>1, <1>6, <1>7, SavedKeeps

\* A replan leaves a plan built for the changed catalog and nothing accepted.
LEMMA ReplanKeeps ==
  ASSUME PlanInv, NEW new, NEW out, Replan(new, out),
         \A i \in DOMAIN own : i \in DOMAIN out => out[i] = outcomes[i],
         price' \in [Sku -> Price], Built(new, stockouts', price'),
         new.cart = new.gated
  PROVE  PlanInv'
<1>1. /\ result' = new /\ outcomes' = Keep(out, DOMAIN new.asked)
      /\ approved' = None /\ checkout' = None /\ units' = units
      /\ preserved' = DOMAIN out \cap DOMAIN new.asked
      /\ own' = Keep(own, DOMAIN outcomes')
      /\ screen' = "working" /\ shown' = "working"
  BY DEF Replan, Show
<1>a. /\ DOMAIN outcomes' = DOMAIN out \cap DOMAIN new.asked
      /\ \A i \in DOMAIN outcomes' : outcomes'[i] = out[i]
      /\ DOMAIN own' = DOMAIN own \cap DOMAIN outcomes'
      /\ \A i \in DOMAIN own' : own'[i] = own[i]
  BY <1>1 DEF Keep, Restrict
<1>2. "budget" \notin DOMAIN outcomes'
  <2>1. price' \in [Sku -> Nat]
    BY PlanConstants
  <2>2. "budget" \notin DOMAIN new.asked
    BY <2>1, AskedAreProducts
  <2> QED
    BY <1>1, <2>2 DEF Keep, Restrict
<1>3. Screens' /\ Catalog'
  BY <1>1 DEF Screens, Catalog, PlanInv
<1>4. Fresh'
  BY <1>1 DEF Fresh
<1>5. Accepted' /\ Confirmed'
  BY <1>1 DEF Accepted, Confirmed
<1>6. Answered'
  <2>1. result' # None
    BY <1>1, BuiltIsSomething
  <2> QED
    BY <1>1, <1>2, <1>a, <2>1 DEF Answered
<1>7. Own'
  BY <1>1, <1>a DEF Own, PlanInv
<1> QED
  BY <1>3, <1>4, <1>5, <1>6, <1>7 DEF PlanInv

\* A product is marked out of stock.
LEMMA StockOutKeeps ==
  ASSUME PlanInv, NEW s \in Sku, StockOut(s)
  PROVE  PlanInv'
<1>1. PICK gone \in SUBSET DOMAIN outcomes :
        Replan(Planned(replanOmitted', replanForced', stockouts', price),
               Keep(outcomes, DOMAIN outcomes \ gone))
  <2> DEFINE sold == {i \in Selected(result, result.cart, outcomes) : outcomes[i] = s}
  <2>1. sold \in SUBSET DOMAIN outcomes
    BY DEF Selected
  <2> QED
    BY <2>1 DEF StockOut
<1>a. \A i \in DOMAIN Keep(outcomes, DOMAIN outcomes \ gone) :
        Keep(outcomes, DOMAIN outcomes \ gone)[i] = outcomes[i]
  BY DEF Keep, Restrict
<1>2. price' = price /\ price \in [Sku -> Nat] /\ price \in [Sku -> Price] /\ units \subseteq Need
  BY PricesAreNumbers DEF StockOut, PlanInv, Catalog
<1> DEFINE new == Planned(replanOmitted', replanForced', stockouts', price)
<1>3. Built(new, stockouts', price') /\ new.cart = new.gated
  BY <1>2, PlannedIsBuilt
<1> HIDE DEF new
<1> QED
  BY <1>1, <1>2, <1>3, <1>a, ReplanKeeps DEF new

\* A price changes.
LEMMA PriceChangeKeeps ==
  ASSUME PlanInv, NEW s \in Sku, NEW p \in Price, PriceChange(s, p)
  PROVE  PlanInv'
<1> DEFINE new == Planned({}, NoCart, stockouts, price')
<1>1. /\ Replan(new, outcomes) /\ stockouts' = stockouts
      /\ price' = [price EXCEPT ![s] = p]
  BY DEF PriceChange
<1>2. price' \in [Sku -> Price] /\ price' \in [Sku -> Nat] /\ units \subseteq Need
  BY <1>1, PlanConstants DEF PlanInv, Catalog
<1>3. Built(new, stockouts', price') /\ new.cart = new.gated
  BY <1>1, <1>2, PlannedIsBuilt
<1> HIDE DEF new
<1> QED
  BY <1>1, <1>2, <1>3, ReplanKeeps

\* The plan is built, or a rebuilt one is found, and the app goes to the
\* questions without an answer.
LEMMA RoutedKeeps ==
  ASSUME PlanInv, screen = "working", RouteTo(result', outcomes),
         Built(result', stockouts, price), result'.cart = result'.gated,
         approved' = None, DOMAIN outcomes \subseteq preserved',
         DOMAIN own' = DOMAIN own \cap DOMAIN outcomes' \cap DOMAIN result'.asked,
         \A s \in DOMAIN own' : own'[s] = own[s],
         UNCHANGED <<catalog, plans, units, order>>
  PROVE  PlanInv'
<1>1. /\ shown = "working" /\ (checkout = None \/ confirmedWith = None)
      /\ "budget" \notin DOMAIN outcomes
  BY DEF PlanInv, Screens, Fresh, Answered
<1>2. /\ outcomes' = Keep(outcomes, Ids(result')) /\ screen' = shown'
      /\ shown' = IF Ids(result') \subseteq DOMAIN outcomes THEN "summary" ELSE "approval"
  BY DEF RouteTo, Show
<1>3. /\ DOMAIN outcomes' = DOMAIN outcomes \cap Ids(result')
      /\ \A i \in DOMAIN outcomes' : outcomes'[i] = outcomes[i]
  BY <1>2 DEF Keep, Restrict
<1>4. Screens' /\ Catalog'
  BY <1>2 DEF Screens, Catalog, PlanInv, catalog
<1>5. Fresh'
  BY <1>1 DEF Fresh, catalog, order
<1>6. Accepted' /\ Confirmed'
  BY <1>1 DEF Accepted, Confirmed, order
<1>7. Answered'
  <2>1. CASE shown' = "summary"
    <3>1. DOMAIN result'.asked \subseteq DOMAIN outcomes /\ ~result'.over
      BY <1>1, <1>2, <2>1 DEF Ids
    <3>2. Undecided' \subseteq preserved'
      BY <3>1 DEF Undecided
    <3>3. result' # None
      BY BuiltIsSomething
    <3> QED
      BY <2>1, <3>1, <3>2, <3>3 DEF Answered
  <2>2. CASE shown' = "approval"
    <3>1. result' # None
      BY BuiltIsSomething
    <3> QED
      BY <2>2, <3>1 DEF Answered
  <2> QED
    BY <1>2, <2>1, <2>2
<1>8. Own'
  BY <1>3 DEF Own, PlanInv
<1> QED
  BY <1>4, <1>5, <1>6, <1>7, <1>8 DEF PlanInv

\* A session starts without a result, at the first screen.
LEMMA PlanInvInit == Init => PlanInv
<1> SUFFICES ASSUME Init PROVE PlanInv
  OBVIOUS
<1> USE DEF Init
<1>1. Screens /\ Catalog
  BY PlanConstants DEF Screens, Catalog
<1>2. Fresh /\ Accepted /\ Confirmed
  BY DEF Fresh, HasResult, Accepted, Confirmed
<1>3. Answered /\ Own
  BY DEF Answered, Own, HasResult, NoCart
<1> QED
  BY <1>1, <1>2, <1>3 DEF PlanInv

\* A step that changes at most the screen, between review and the last one,
\* the boxes of optional items, and the confirmation.
LEMMA NavigationKeeps ==
  ASSUME PlanInv,
         UNCHANGED <<shown, catalog, plans, units, result, answers, budget, history>>,
         screen' \in {"review", shown},
         \/ UNCHANGED order
         \/ checkout' = None
         \/ checkout' = TotalCost /\ confirmedWith' = AddOnsBought /\ shown = "summary"
  PROVE  PlanInv'
<1>1. Screens' /\ Catalog'
  BY DEF PlanInv, Screens, Catalog, catalog
<1>2. Fresh'
  BY DEF PlanInv, Fresh, HasResult, catalog, answers, order
<1>3. Accepted'
  BY DEF PlanInv, Accepted, catalog, answers
<1>4. EffectiveCart' = EffectiveCart /\ price' = price
  BY DEF EffectiveCart, catalog, answers
<1>5. Confirmed'
  <2>1. CASE UNCHANGED order
    BY <1>4, <2>1 DEF PlanInv, Confirmed, order
  <2>2. CASE checkout' = None
    BY <2>2 DEF Confirmed
  <2>3. CASE checkout' = TotalCost /\ confirmedWith' = AddOnsBought
    BY <1>4, <2>3 DEF Confirmed, TotalCost
  <2> QED
    BY <2>1, <2>2, <2>3
<1>6. Answered'
  BY DEF PlanInv, Answered, Undecided, answers
<1>7. Own'
  BY DEF PlanInv, Own, HasResult, answers, history
<1> QED
  BY <1>1, <1>2, <1>3, <1>5, <1>6, <1>7 DEF PlanInv

\* The parent goes back from a plan he has not approved to its questions.
LEMMA ReturnKeeps ==
  ASSUME PlanInv, ReturnToApproval
  PROVE  PlanInv'
<1>1. /\ screen = "summary" /\ shown = "summary" /\ Undecided # {}
      /\ screen' = "approval" /\ shown' = "approval" /\ confirmedWith' = None
      /\ UNCHANGED <<catalog, units, result, answers, history>>
  BY DEF ReturnToApproval, Show, PlanInv, Screens
<1>2. approved = None /\ HasResult /\ result # None
  <2>1. approved = None /\ HasResult /\ Built(result, stockouts, price)
    BY <1>1 DEF PlanInv, Answered, Fresh, HasResult
  <2> QED
    BY <2>1, BuiltIsSomething
<1>3. Screens' /\ Catalog'
  BY <1>1 DEF PlanInv, Screens, Catalog, catalog
<1>4. Fresh' /\ Accepted' /\ Confirmed'
  BY <1>1, <1>2 DEF PlanInv, Fresh, Accepted, Confirmed, HasResult, catalog, answers
<1>5. Answered' /\ Own'
  BY <1>1, <1>2 DEF PlanInv, Answered, Own, HasResult, answers, history
<1> QED
  BY <1>3, <1>4, <1>5 DEF PlanInv

\* Each step keeps the invariant.
LEMMA PlanInvStep == PlanInv /\ [Next]_vars => PlanInv'
<1> SUFFICES ASSUME PlanInv, [Next]_vars PROVE PlanInv'
  OBVIOUS
<1>1. CASE ReviewConfirm
  <2>1. /\ result' = None /\ approved' = None /\ checkout' = None
        /\ outcomes' = NoCart /\ screen' = "working" /\ shown' = "working"
        /\ units' \in Wanted /\ price' = price /\ own' = NoCart
    BY <1>1 DEF ReviewConfirm, Show, catalog
  <2>2. Screens' /\ Catalog'
    BY <2>1, PlanConstants DEF PlanInv, Screens, Catalog
  <2>3. Fresh' /\ Accepted' /\ Confirmed'
    BY <2>1 DEF Fresh, HasResult, Accepted, Confirmed
  <2>4. Answered' /\ Own'
    BY <2>1 DEF Answered, Own, HasResult, NoCart
  <2> QED
    BY <2>2, <2>3, <2>4 DEF PlanInv
<1>2. CASE Build
  <2>1. price \in [Sku -> Nat] /\ units \subseteq Need
    BY PricesAreNumbers DEF PlanInv, Catalog
  <2>2. result' = Planned({}, NoCart, stockouts, price)
    BY <1>2 DEF Build
  <2>3. Built(result', stockouts, price) /\ result'.cart = result'.gated
    BY <2>1, <2>2, PlannedIsBuilt
  <2>4. /\ screen = "working" /\ RouteTo(result', outcomes) /\ approved' = None
        /\ UNCHANGED <<catalog, plans, units, order>> /\ own' = own
        /\ preserved' = {} /\ result = None
    BY <1>2 DEF Build, history, NoResult
  <2>5. DOMAIN outcomes = {} /\ DOMAIN own = {}
    BY <2>4 DEF PlanInv, Answered, Own
  <2> QED
    BY <2>3, <2>4, <2>5, RoutedKeeps
<1>3. CASE Route
  <2>1. /\ screen = "working" /\ result # None /\ result' = result
        /\ RouteTo(result', outcomes)
        /\ approved' = approved /\ UNCHANGED <<catalog, plans, units, order>>
        /\ preserved' = preserved /\ own' = Keep(own, DOMAIN outcomes')
    BY <1>3 DEF Route, NoResult
  <2>2. shown = "working"
    BY <2>1 DEF PlanInv, Screens
  <2>3. /\ Built(result', stockouts, price) /\ result'.cart = result'.gated
        /\ approved' = None /\ DOMAIN outcomes \subseteq preserved'
        /\ DOMAIN own \subseteq DOMAIN result'.asked
    BY <2>1, <2>2 DEF PlanInv, Fresh, HasResult, Answered, Own
  <2>4. /\ DOMAIN own' = DOMAIN own \cap DOMAIN outcomes' \cap DOMAIN result'.asked
        /\ \A s \in DOMAIN own' : own'[s] = own[s]
    BY <2>1, <2>3 DEF Keep, Restrict
  <2> QED
    BY <2>1, <2>3, <2>4, RoutedKeeps
<1>4. ASSUME NEW acts, NEW raise, Save(acts, raise) PROVE PlanInv'
  BY <1>4, SaveKeeps
<1>5. ASSUME NEW removed, SavePerEntry(removed) PROVE PlanInv'
  BY <1>5, SavePerEntryKeeps
<1>6. ASSUME NEW s \in Sku, StockOut(s) PROVE PlanInv'
  BY <1>6, StockOutKeeps
<1>7. ASSUME NEW s \in Sku, NEW p \in Price, PriceChange(s, p) PROVE PlanInv'
  BY <1>7, PriceChangeKeeps
<1>8. CASE CheckOut
  <2>1. screen = "summary" /\ shown = "summary"
    BY <1>8 DEF CheckOut, PlanInv, Screens
  <2> QED
    BY <1>8, <2>1, NavigationKeeps DEF CheckOut
<1>9. CASE BackToCart
  BY <1>9, NavigationKeeps DEF BackToCart
<1>10. CASE Banner
  <2>1. screen' \in {"review", shown}
    BY <1>10 DEF Banner
  <2> QED
    BY <1>10, <2>1, NavigationKeeps DEF Banner
<1>12. ASSUME NEW S \in SUBSET AddOn, TickAddOns(S) PROVE PlanInv'
  <2>1. screen' \in {"review", shown}
    BY <1>12 DEF TickAddOns, PlanInv, Screens
  <2> QED
    BY <1>12, <2>1, NavigationKeeps DEF TickAddOns
<1>13. CASE ReturnToApproval
  BY <1>13, ReturnKeeps
<1>11. CASE UNCHANGED vars
  <2>1. Screens' /\ Catalog'
    BY <1>11 DEF PlanInv, Screens, Catalog, vars, catalog
  <2>2. Fresh'
    BY <1>11 DEF PlanInv, Fresh, HasResult, vars, catalog, answers, order
  <2>3. Accepted'
    BY <1>11 DEF PlanInv, Accepted, vars, catalog, answers
  <2>4. Confirmed'
    <3>1. EffectiveCart' = EffectiveCart /\ price' = price /\ UNCHANGED order
      BY <1>11 DEF EffectiveCart, vars, catalog, answers
    <3> QED
      BY <3>1 DEF PlanInv, Confirmed, order
  <2>5. Answered'
    BY <1>11 DEF PlanInv, Answered, Undecided, vars, answers
  <2>6. Own'
    BY <1>11 DEF PlanInv, Own, HasResult, vars, answers, history
  <2> QED
    BY <2>1, <2>2, <2>3, <2>4, <2>5, <2>6 DEF PlanInv
<1> QED
  BY <1>1, <1>2, <1>3, <1>4, <1>5, <1>6, <1>7, <1>8, <1>9, <1>10, <1>11, <1>12,
     <1>13 DEF Next

\* The invariant holds in every state of a session.
LEMMA PlanInvariant == Spec => []PlanInv
  BY PlanInvInit, PlanInvStep, PTL DEF Spec

\* A sound cart is current.
LEMMA SoundIsCurrent ==
  ASSUME NEW cart, Sound(cart, stockouts, price)
  PROVE  Stale(cart) = {}
  BY DEF Sound, Stale

\* The cart of the summary is sound.
LEMMA EffectiveIsSound ==
  ASSUME PlanInv, shown = "summary"
  PROVE  IsCart(EffectiveCart) /\ Sound(EffectiveCart, stockouts, price)
<1>1. Built(result, stockouts, price) /\ price \in [Sku -> Nat]
  BY PricesAreNumbers DEF PlanInv, Fresh, HasResult
<1>2. CASE approved # None
  BY <1>2 DEF PlanInv, Accepted, EffectiveCart
<1>3. CASE approved = None
  BY <1>1, <1>3, ApplyIsSound DEF EffectiveCart
<1> QED
  BY <1>2, <1>3

\* BR-12 for any needs, products and catalog changes: the plan the parent can
\* check out is in stock at present prices.
THEOREM CheckoutIsCurrent == Spec => []SummaryIsCurrent
<1>1. PlanInv => SummaryIsCurrent
  <2> SUFFICES ASSUME PlanInv, OnSummary PROVE Stale(EffectiveCart) = {}
    BY DEF SummaryIsCurrent
  <2>1. shown = "summary"
    BY DEF PlanInv, Screens, OnSummary
  <2> QED
    BY <2>1, EffectiveIsSound, SoundIsCurrent
<1> QED
  BY <1>1, PlanInvariant, PTL

\* FR-31: on the summary the budget was accepted when it is exceeded, an
\* approved plan has a valid answer to every question, and a question without
\* one is listed there as undecided and had an answer before the last replan.
THEOREM GateIsPassed == Spec => []EveryQuestionAnswered
<1>1. PlanInv => EveryQuestionAnswered
  BY DEF PlanInv, Screens, Answered, EveryQuestionAnswered, OnSummary
<1> QED
  BY <1>1, PlanInvariant, PTL

\* A confirmation the parent has not gone back behind is for the required part
\* of the plan shown, with the optional items it had when it was confirmed:
\* ticking others afterwards is the one thing that sets them apart.
THEOREM ConfirmationIsOfThePlan == Spec => []ConfirmationOutlivesNoReplan
<1>1. PlanInv => ConfirmationOutlivesNoReplan
  BY DEF PlanInv, Confirmed, ConfirmationOutlivesNoReplan
<1> QED
  BY <1>1, PlanInvariant, PTL

-----------------------------------------------------------------------------
(* Types *)

\* A result of the pipeline has the type of one.
LEMMA BuiltType ==
  ASSUME NEW r, NEW out, NEW p \in [Sku -> Nat], Built(r, out, p)
  PROVE  IsResult(r)
<1>1. IsCart(r.gated) /\ IsCart(r.cart) /\ r.asked = Questions(r.gated)
  BY GatedIsSound DEF Built
<1>2. DOMAIN r.asked \subseteq Sku
  BY AskedAreProducts
<1>3. ASSUME NEW s \in DOMAIN r.asked
      PROVE  r.asked[s].line \in Nat /\ r.asked[s].needs \in Group
  BY <1>1, QuestionType
<1>4. /\ DOMAIN r.can \subseteq Group
      /\ \A g \in DOMAIN r.can : r.can[g] \subseteq Sku
      /\ r.over \in BOOLEAN /\ r.eligible \in BOOLEAN
  BY DEF Built, Possible, PipelineResult
<1>5. r.actions \subseteq Group
  BY <1>1, CartFinite DEF Built
<1> QED
  BY <1>1, <1>2, <1>3, <1>4, <1>5 DEF IsResult

\* What optional items cost is an amount.
LEMMA AddOnCostType ==
  ASSUME NEW S \in SUBSET AddOn, NEW p \in [Sku -> Nat]
  PROVE  AddOnCost(S, p) \in Nat
<1> DEFINE f == [x \in S |-> p[AddOnSku[x]]]
<1>1. DOMAIN f = S /\ IsFiniteSet(S) /\ \A x \in S : f[x] \in Nat
  BY PlanConstants, FS_Subset
<1> HIDE DEF f
<1>2. SumFunctionOnSet(f, DOMAIN f) \in Nat
  BY <1>1, SumNat
<1> QED
  BY <1>2 DEF AddOnCost, SumFunction, f

\* Options are about groups of needs.
LEMMA TargetType ==
  ASSUME NEW r, IsResult(r), NEW cart, IsCart(cart), NEW s \in DOMAIN r.asked
  PROVE  Target(r, cart, s) \in Group
<1> DEFINE i == r.asked[s].line
<1>1. CASE LinesAt(cart, i) = {}
  BY <1>1 DEF Target, IsResult
<1>2. CASE LinesAt(cart, i) # {}
  <2>1. LineAt(cart, i) \in LinesAt(cart, i)
    BY <1>2, LineAtIsOne
  <2>2. LineAt(cart, i) \in DOMAIN cart
    BY <2>1 DEF LinesAt
  <2> QED
    BY <1>2, <2>2, CartFinite DEF Target
<1> QED
  BY <1>1, <1>2

\* What is left out is a set of groups of needs.
LEMMA OmittedType ==
  ASSUME NEW r, IsResult(r), NEW cart, IsCart(cart), NEW x, NEW acts
  PROVE  Omitted(r, cart, x, acts) \subseteq Group
<1>1. \A s \in Selected(r, cart, x) : Target(r, cart, s) \in Group
  BY TargetType DEF Selected
<1>2. acts \cap r.actions \subseteq Group
  BY DEF IsResult
<1> QED
  BY <1>1, <1>2 DEF Omitted

\* What is forced are products for groups of needs.
LEMMA ForcedType ==
  ASSUME NEW r, IsResult(r), NEW cart, IsCart(cart), NEW x
  PROVE  /\ DOMAIN Forced(r, cart, x) \subseteq Group
         /\ \A g \in DOMAIN Forced(r, cart, x) : Forced(r, cart, x)[g] \in Sku
<1>1. \A s \in ForcedBy(r, cart, x) : Target(r, cart, s) \in Group /\ x[s] \in Sku
  BY TargetType DEF ForcedBy, Selected
<1>2. DOMAIN Forced(r, cart, x) = {Target(r, cart, s) : s \in ForcedBy(r, cart, x)}
  BY DEF Forced
<1>3. ASSUME NEW g \in DOMAIN Forced(r, cart, x)
      PROVE  Forced(r, cart, x)[g] \in Sku
  <2> DEFINE s == CHOOSE t \in ForcedBy(r, cart, x) : Target(r, cart, t) = g
  <2>1. s \in ForcedBy(r, cart, x)
    BY <1>2
  <2>2. Forced(r, cart, x)[g] = x[s]
    BY <1>2 DEF Forced
  <2> HIDE DEF s
  <2> QED
    BY <1>1, <2>1, <2>2
<1> QED
  BY <1>1, <1>2, <1>3

\* The session values that the inductive invariant says nothing of.
SessionTypes ==
  /\ stockouts \subseteq Sku /\ changes \in 0..MaxChanges /\ plans \in 0..MaxPlans
  /\ DOMAIN outcomes \subseteq Sku \cup {"budget"}
  /\ \A i \in DOMAIN outcomes :
       outcomes[i] \in Sku \cup {"approve", "omit", "plan", "raise"}
  /\ resolved \subseteq Sku /\ preserved \subseteq Sku
  /\ budgetActions \subseteq Group
  /\ replanOmitted \subseteq Group
  /\ DOMAIN replanForced \subseteq Group
  /\ \A g \in DOMAIN replanForced : replanForced[g] \in Sku
  /\ budget \in [Payer -> Nat]
  /\ checkout = None \/ checkout \in Nat
  /\ leftOut \subseteq Need
  /\ ticked = None \/ ticked \subseteq AddOn
  /\ evaluated \subseteq AddOn /\ replanTicked \subseteq AddOn
  /\ confirmedWith = None \/ confirmedWith \subseteq AddOn
  /\ DOMAIN own \subseteq Sku
  /\ \A s \in DOMAIN own :
       own[s].answer \in Sku \cup {"approve", "omit"} /\ own[s].needs \in Group

\* The invariant and the types of the other variables are the type invariant.
LEMMA InvariantTypes == PlanInv /\ SessionTypes => TypeOK
<1> SUFFICES ASSUME PlanInv, SessionTypes PROVE TypeOK
  OBVIOUS
<1>1. price \in [Sku -> Nat] /\ price \in [Sku -> Price] /\ units \subseteq Need
  BY PricesAreNumbers DEF PlanInv, Catalog
<1>2. result # None => IsResult(result)
  BY <1>1, BuiltType DEF PlanInv, Fresh, HasResult
<1>3. approved # None => IsCart(approved)
  BY DEF PlanInv, Accepted
<1>5. /\ screen \in {"working", "approval", "summary", "review"}
      /\ shown \in {"working", "approval", "summary"}
  BY DEF PlanInv, Screens
<1> QED
  BY <1>1, <1>2, <1>3, <1>5 DEF SessionTypes, TypeOK

\* The boxes of optional items after a screen is drawn.
LEMMA DrawTypes ==
  ASSUME NEW boxes, boxes = None \/ boxes \subseteq AddOn,
         NEW before, before \subseteq AddOn, Draw(boxes, before)
  PROVE  (ticked' = None \/ ticked' \subseteq AddOn) /\ evaluated' \subseteq AddOn
<1> DEFINE offers == screen' = "summary" /\ Offered'
<1>1. /\ \/ offers /\ boxes = None /\ ticked' \subseteq AddOn
         \/ ~(offers /\ boxes = None) /\ ticked' = boxes
      /\ evaluated' = IF screen' # "summary" THEN before
                      ELSE IF offers THEN ticked' ELSE {}
  BY DEF Draw
<1> HIDE DEF offers
<1>2. offers => screen' = "summary"
  BY DEF offers
<1> QED
  BY <1>1, <1>2

\* Where the app goes with a result.
LEMMA RoutedTypes ==
  ASSUME SessionTypes, NEW r, RouteTo(r, outcomes)
  PROVE  /\ DOMAIN outcomes' \subseteq Sku \cup {"budget"}
         /\ \A i \in DOMAIN outcomes' :
              outcomes'[i] \in Sku \cup {"approve", "omit", "plan", "raise"}
  BY DEF SessionTypes, RouteTo, Keep, Restrict

\* The answers the parent saves.
LEMMA SavedTypes ==
  ASSUME SessionTypes, IsResult(result), NEW moot, moot \subseteq DOMAIN result.asked,
         NEW out \in Answers(result, moot), NEW answer \in {"plan", "raise"},
         NEW acts, acts \subseteq Group, NEW removed, removed \subseteq Group,
         NEW cart, Saved(result, out, answer, moot, acts, removed, cart),
         budget' \in [Payer -> Nat],
         Draw(ticked, evaluated), replanTicked' = replanTicked
  PROVE  SessionTypes'
<1>1. /\ outcomes' = WithBudget(result, out, answer)
      /\ resolved' = moot /\ budgetActions' = acts /\ preserved' = {}
      /\ leftOut' = LeaveOut(result, out, removed) \cup (leftOut \ DecidedOn(result))
      /\ own' = Given(result, out)
      /\ UNCHANGED <<stockouts, changes, plans, replanOmitted, replanForced,
                     checkout, confirmedWith>>
  BY DEF Saved, catalog, replans, order
<1>2. DOMAIN result.asked \subseteq Sku /\ IsCart(result.gated)
  BY DEF IsResult
<1>3. out \in [DOMAIN result.asked \ moot -> Sku \cup {"approve", "omit"}]
  BY DEF Answers
<1>4. /\ DOMAIN outcomes' \subseteq Sku \cup {"budget"}
      /\ \A i \in DOMAIN outcomes' :
           outcomes'[i] \in Sku \cup {"approve", "omit", "plan", "raise"}
  BY <1>1, <1>2, <1>3 DEF WithBudget
<1>5. leftOut' \subseteq Need
  <2>1. Omitted(result, result.gated, out, {}) \subseteq Group
    BY <1>2, OmittedType
  <2>2. LeaveOut(result, out, removed) \subseteq Need
    BY <2>1 DEF LeaveOut, Group
  <2> QED
    BY <1>1, <2>2 DEF SessionTypes
<1>6. /\ DOMAIN own' \subseteq Sku
      /\ \A s \in DOMAIN own' :
           own'[s].answer \in Sku \cup {"approve", "omit"} /\ own'[s].needs \in Group
  <2>1. DOMAIN own' \subseteq DOMAIN out
    BY <1>1 DEF Given
  <2>2. ASSUME NEW s \in DOMAIN own'
        PROVE  \/ s \in DOMAIN own /\ own'[s] = own[s]
               \/ own'[s] = [answer |-> out[s], needs |-> result.asked[s].needs]
    BY <1>1, <2>2 DEF Given
  <2>3. \A s \in DOMAIN out : s \in DOMAIN result.asked /\ result.asked[s].needs \in Group
    BY <1>3 DEF IsResult
  <2> QED
    BY <1>2, <1>3, <2>1, <2>2, <2>3 DEF SessionTypes
<1>7. (ticked' = None \/ ticked' \subseteq AddOn) /\ evaluated' \subseteq AddOn
  BY DrawTypes DEF SessionTypes
<1> QED
  BY <1>1, <1>2, <1>4, <1>5, <1>6, <1>7 DEF SessionTypes

\* A replan.
LEMMA ReplanTypes ==
  ASSUME SessionTypes, changes < MaxChanges, NEW new, DOMAIN new.asked \subseteq Sku,
         NEW out, DOMAIN out \subseteq DOMAIN outcomes,
         \A i \in DOMAIN out : out[i] = outcomes[i],
         Replan(new, out),
         stockouts' \subseteq Sku, replanTicked' \subseteq AddOn,
         replanOmitted' \subseteq Group, DOMAIN replanForced' \subseteq Group,
         \A g \in DOMAIN replanForced' : replanForced'[g] \in Sku
  PROVE  SessionTypes'
<1>1. /\ outcomes' = Keep(out, DOMAIN new.asked)
      /\ preserved' = DOMAIN out \cap DOMAIN new.asked
      /\ resolved' = {} /\ changes' = changes + 1
      /\ checkout' = None /\ confirmedWith' = None
      /\ own' = Keep(own, DOMAIN outcomes')
      /\ ticked' = replanTicked' /\ evaluated' = {}
      /\ UNCHANGED <<plans, budgetActions, budget, leftOut>>
  BY DEF Replan
<1>2. /\ DOMAIN outcomes' = DOMAIN out \cap DOMAIN new.asked
      /\ \A i \in DOMAIN outcomes' : outcomes'[i] = out[i]
  BY <1>1 DEF Keep, Restrict
<1>3. changes' \in 0..MaxChanges
  BY <1>1, PlanConstants DEF SessionTypes
<1>4. DOMAIN own' \subseteq DOMAIN own /\ \A s \in DOMAIN own' : own'[s] = own[s]
  BY <1>1 DEF Keep, Restrict
<1> QED
  BY <1>1, <1>2, <1>3, <1>4 DEF SessionTypes

\* Each step keeps the types.
LEMMA SessionTypesStep == PlanInv /\ SessionTypes /\ [Next]_vars => SessionTypes'
<1> SUFFICES ASSUME PlanInv, SessionTypes, [Next]_vars PROVE SessionTypes'
  OBVIOUS
<1>a. price \in [Sku -> Nat] /\ units \subseteq Need
  BY PricesAreNumbers DEF PlanInv, Catalog
<1>b. HasResult => Built(result, stockouts, price) /\ IsResult(result)
  BY <1>a, BuiltType DEF PlanInv, Fresh
<1>1. CASE ReviewConfirm
  BY <1>1, PlanConstants
     DEF ReviewConfirm, SessionTypes, catalog, replans, addOns, NoCart
<1>2. CASE Build
  <2>1. /\ RouteTo(result', outcomes) /\ Draw(None, {})
        /\ budgetActions' = {} /\ resolved' = {} /\ preserved' = {}
        /\ UNCHANGED <<catalog, plans, replans, budget, order, history, replanTicked>>
    BY <1>2 DEF Build
  <2>2. (ticked' = None \/ ticked' \subseteq AddOn) /\ evaluated' \subseteq AddOn
    BY <2>1, DrawTypes
  <2> QED
    BY <2>1, <2>2, RoutedTypes DEF SessionTypes, catalog, replans, order, history
<1>3. CASE Route
  <2>1. /\ RouteTo(result, outcomes) /\ Draw(ticked, evaluated)
        /\ own' = Keep(own, DOMAIN outcomes')
        /\ UNCHANGED <<catalog, plans, resolved, budgetActions, preserved, replans,
                       budget, order, leftOut, replanTicked>>
    BY <1>3 DEF Route
  <2>2. (ticked' = None \/ ticked' \subseteq AddOn) /\ evaluated' \subseteq AddOn
    BY <2>1, DrawTypes DEF SessionTypes
  <2>3. DOMAIN own' \subseteq DOMAIN own /\ \A s \in DOMAIN own' : own'[s] = own[s]
    BY <2>1 DEF Keep, Restrict
  <2> QED
    BY <2>1, <2>2, <2>3, RoutedTypes DEF SessionTypes, catalog, replans, order
<1>4. ASSUME NEW acts \in SUBSET Group, NEW raise \in BOOLEAN, Save(acts, raise)
      PROVE  SessionTypes'
  <2> DEFINE moot == {s \in DOMAIN result.asked :
                        result.asked[s].needs \cap UNION acts # {}}
             answer == IF raise THEN "raise" ELSE "plan"
             cart(out) == Apply(result, out, acts, price)
  <2>1. HasResult
    BY <1>4 DEF Save, PlanInv, Screens, HasResult
  <2>2. PICK out \in Answers(result, moot) :
          /\ Saved(result, out, answer, moot, acts, acts, cart(out))
          /\ budget' = IF raise THEN [c \in Payer |-> EntryCost(cart(out), c)]
                       ELSE budget
    BY <1>4 DEF Save
  <2>a. Draw(ticked, evaluated) /\ replanTicked' = replanTicked
    BY <1>4 DEF Save
  <2>3. IsCart(cart(out))
    BY <1>a, <1>b, <2>1, ApplyIsSound
  <2>4. budget' \in [Payer -> Nat]
    <3> HIDE DEF cart
    <3> QED
      BY <2>2, <2>3, EntryCostType DEF SessionTypes
  <2>5. moot \subseteq DOMAIN result.asked /\ answer \in {"plan", "raise"}
    OBVIOUS
  <2> HIDE DEF moot, answer, cart
  <2> QED
    BY <1>b, <2>1, <2>2, <2>4, <2>5, <2>a, SavedTypes
<1>5. ASSUME NEW removed \in SUBSET Group, SavePerEntry(removed) PROVE SessionTypes'
  <2> DEFINE moot == {s \in DOMAIN result.asked : result.asked[s].needs \in removed}
             omit(out) == Omitted(result, result.gated, out, {}) \cup removed
             force(out) == Forced(result, result.gated, out)
             made(out) == Adjusted(result, omit(out), force(out), price)
  <2>1. HasResult
    BY <1>5 DEF SavePerEntry, PlanInv, Screens, HasResult
  <2>2. PICK out \in Answers(result, moot) :
          /\ Saved(result, out, "raise", moot, {}, removed, made(out))
          /\ budget' = [c \in Payer |->
               IF c \in Overages(made(out), budget) THEN EntryCost(made(out), c)
               ELSE budget[c]]
    BY <1>5 DEF SavePerEntry
  <2>a. Draw(ticked, evaluated) /\ replanTicked' = replanTicked
    BY <1>5 DEF SavePerEntry
  <2>3. IsCart(made(out))
    <3>1. \A g \in DOMAIN force(out) : force(out)[g] \in Sku \ stockouts
      BY <1>a, <1>b, <2>1, ForcedInStock
    <3> DEFINE cart == made(out)
    <3>2. cart = Adjusted(result, omit(out), force(out), price)
      OBVIOUS
    <3> HIDE DEF cart, omit, force
    <3>3. IsCart(cart)
      BY <1>a, <1>b, <2>1, <3>1, <3>2, AdjustedIsSound
    <3> QED
      BY <3>3 DEF cart, omit, force
  <2>4. budget' \in [Payer -> Nat]
    <3> HIDE DEF made
    <3>1. \A c \in Payer : EntryCost(made(out), c) \in Nat /\ budget[c] \in Nat
      BY <2>3, EntryCostType DEF SessionTypes
    <3> QED
      BY <2>2, <3>1
  <2>5. moot \subseteq DOMAIN result.asked
    OBVIOUS
  <2> HIDE DEF moot, made
  <2> QED
    BY <1>b, <2>1, <2>2, <2>4, <2>5, <2>a, SavedTypes
<1>6. ASSUME NEW s \in Sku, StockOut(s) PROVE SessionTypes'
  <2> DEFINE gone == {i \in Selected(result, result.cart, outcomes) : outcomes[i] = s}
             out == Keep(outcomes, DOMAIN outcomes \ gone)
             now == Forced(result, result.cart, out)
             omit == Omitted(result, result.cart, out, budgetActions)
             force == [g \in DOMAIN replanForced \cup DOMAIN now |->
                         IF g \in DOMAIN now THEN now[g] ELSE replanForced[g]]
             new == Planned(replanOmitted', replanForced', stockouts', price)
  <2>1. /\ HasResult /\ changes < MaxChanges
        /\ stockouts' = stockouts \cup {s} /\ replanTicked' = evaluated
    BY <1>6 DEF StockOut, PlanInv, Screens, HasResult
  <2>2. /\ replanOmitted' = replanOmitted \cup omit
        /\ replanForced' = Keep(force, {g \in DOMAIN force : force[g] # s})
        /\ Replan(new, out)
    BY <1>6 DEF StockOut
  <2>3. IsResult(result) /\ IsCart(result.cart)
    BY <1>b, <2>1 DEF IsResult
  <2>4. /\ DOMAIN out \subseteq DOMAIN outcomes
        /\ \A i \in DOMAIN out : out[i] = outcomes[i]
    BY DEF Keep, Restrict
  <2> HIDE DEF out, gone
  <2>5. omit \subseteq Group
    BY <2>3, OmittedType
  <2>6. /\ DOMAIN now \subseteq Group
        /\ \A g \in DOMAIN now : now[g] \in Sku
    BY <2>3, ForcedType
  <2> HIDE DEF now
  <2>7. /\ DOMAIN replanForced' \subseteq DOMAIN force
        /\ \A g \in DOMAIN replanForced' : replanForced'[g] = force[g]
    <3> HIDE DEF force
    <3> QED
      BY <2>2 DEF Keep, Restrict
  <2>8. /\ DOMAIN force \subseteq Group
        /\ \A g \in DOMAIN force : force[g] \in Sku
    BY <2>6 DEF SessionTypes
  <2>9. DOMAIN new.asked \subseteq Sku
    BY <1>a, PlannedIsBuilt, AskedAreProducts
  <2> HIDE DEF force, new, omit
  <2> QED
    BY <2>1, <2>2, <2>4, <2>5, <2>7, <2>8, <2>9, ReplanTypes DEF SessionTypes
<1>7. ASSUME NEW s \in Sku, NEW p \in Price, PriceChange(s, p) PROVE SessionTypes'
  <2> DEFINE new == Planned({}, NoCart, stockouts, price')
  <2>1. /\ changes < MaxChanges /\ Replan(new, outcomes)
        /\ price' = [price EXCEPT ![s] = p] /\ UNCHANGED <<stockouts, replans, replanTicked>>
    BY <1>7 DEF PriceChange
  <2>2. price' \in [Sku -> Nat]
    BY <1>a, <2>1, PlanConstants
  <2>3. DOMAIN new.asked \subseteq Sku
    BY <1>a, <2>2, PlannedIsBuilt, AskedAreProducts
  <2> HIDE DEF new
  <2> QED
    BY <2>1, <2>3, ReplanTypes DEF SessionTypes, replans
<1>8. CASE CheckOut
  <2>1. /\ shown = "summary" /\ checkout' = TotalCost /\ confirmedWith' = AddOnsBought
        /\ UNCHANGED <<catalog, plans, answers, replans, addOns, budget, history>>
    BY <1>8 DEF CheckOut, PlanInv, Screens
  <2>2. AddOnsBought \in SUBSET AddOn
    BY DEF AddOnsBought, SessionTypes
  <2>3. Cost(EffectiveCart) \in Nat /\ AddOnCost(AddOnsBought, price) \in Nat
    <3>1. Cost(EffectiveCart) \in Nat
      BY <2>1, EffectiveIsSound, CostType
    <3> QED
      BY <1>a, <2>2, <3>1, AddOnCostType
  <2>4. TotalCost \in Nat
    BY <2>3 DEF TotalCost
  <2> QED
    BY <2>1, <2>2, <2>4 DEF SessionTypes, catalog, answers, replans, addOns, history
<1>9. CASE BackToCart
  BY <1>9 DEF BackToCart, SessionTypes, catalog, answers, replans, addOns, history
<1>10. CASE Banner
  BY <1>10 DEF Banner, SessionTypes, catalog, answers, replans, addOns, order, history
<1>12. ASSUME NEW S \in SUBSET AddOn, TickAddOns(S) PROVE SessionTypes'
  BY <1>12 DEF TickAddOns, SessionTypes, catalog, answers, replans, order, history
<1>13. CASE ReturnToApproval
  BY <1>13 DEF ReturnToApproval, SessionTypes, catalog, answers, replans, addOns, history
<1>11. CASE UNCHANGED vars
  BY <1>11 DEF vars, SessionTypes, catalog, answers, replans, addOns, order, history
<1> QED
  BY <1>1, <1>2, <1>3, <1>4, <1>5, <1>6, <1>7, <1>8, <1>9, <1>10, <1>11, <1>12,
     <1>13 DEF Next

\* The session's values keep their types: costs and budgets stay numbers
\* whatever is bought, and answers stay answers.
THEOREM PlanTypeCorrect == Spec => []TypeOK
<1>1. Init => SessionTypes
  BY PlanConstants DEF Init, SessionTypes, NoCart
<1>2. Spec => []SessionTypes
  BY <1>1, SessionTypesStep, PlanInvariant, PTL DEF Spec
<1> QED
  BY <1>2, InvariantTypes, PlanInvariant, PTL

-----------------------------------------------------------------------------
(* Answers *)

\* All of a cart is bought on one trip.  With a second one, line numbers start
\* again and an answer may be taken for another line.
OneTrip == SecondStore = {}

\* The first position of a group is that of one of its needs.
LEMMA FirstIsOne ==
  ASSUME NEW g \in Group
  PROVE  First(g) \in Nat /\ \E n \in g : First(g) = Order[n]
<1> DEFINE S == {Order[n] : n \in g}
<1>1. S \subseteq Nat /\ S # {}
  BY PlanConstants, GroupFinite
<1>2. Min(S) \in S
  <2> HIDE DEF S
  <2> QED
    BY <1>1, MinIsLeast
<1> QED
  BY <1>1, <1>2 DEF First

\* On one trip two lines do not have the same number.
LEMMA LineNumbersDiffer ==
  ASSUME OneTrip, NEW cart, IsCart(cart), Disjoint(DOMAIN cart),
         NEW g \in DOMAIN cart, NEW h \in DOMAIN cart, First(g) < First(h)
  PROVE  LineNumber(cart, g) < LineNumber(cart, h)
<1> DEFINE upTo(k) == {l \in DOMAIN cart : First(l) <= First(k)}
<1>1. /\ IsFiniteSet(DOMAIN cart)
      /\ \A k \in DOMAIN cart : First(k) \in Nat
  BY CartFinite, FirstIsOne
<1>2. \A k \in DOMAIN cart : LineNumber(cart, k) = Cardinality(upTo(k))
  BY DEF LineNumber, SameTrip, OneTrip
<1>3. IsFiniteSet(upTo(h)) /\ IsFiniteSet(upTo(g))
  BY <1>1, FS_Subset
<1>4. upTo(g) \subseteq upTo(h) /\ h \in upTo(h) /\ h \notin upTo(g)
  BY <1>1
<1> HIDE DEF upTo
<1>5. Cardinality(upTo(g)) <= Cardinality(upTo(h))
      /\ Cardinality(upTo(g)) # Cardinality(upTo(h))
  BY <1>3, <1>4, FS_Subset
<1>6. Cardinality(upTo(g)) \in Nat /\ Cardinality(upTo(h)) \in Nat
  BY <1>3, FS_CardinalityType
<1> QED
  BY <1>2, <1>5, <1>6

\* On one trip no two lines of a cart have the same number.
LEMMA LineNumberIsItsOwn ==
  ASSUME OneTrip, NEW cart, IsCart(cart), Disjoint(DOMAIN cart),
         NEW g \in DOMAIN cart, NEW h \in DOMAIN cart,
         LineNumber(cart, g) = LineNumber(cart, h)
  PROVE  g = h
<1>1. g \in Group /\ h \in Group
  BY CartFinite
<1>2. LineNumber(cart, g) \in Nat /\ LineNumber(cart, h) \in Nat
  BY LineNumberType
<1>3. First(g) \in Nat /\ First(h) \in Nat
  BY <1>1, FirstIsOne
<1>4. First(g) = First(h)
  BY <1>2, <1>3, LineNumbersDiffer
<1>5. PICK m \in g, n \in h : Order[m] = Order[n]
  BY <1>1, <1>4, FirstIsOne
<1>6. m = n
  BY <1>1, <1>5, GroupFinite, PlanConstants
<1> QED
  BY <1>5, <1>6 DEF Disjoint

\* The option of a question is about the line that buys its product.
LEMMA TargetIsItsLine ==
  ASSUME OneTrip, NEW r, NEW out, NEW p \in [Sku -> Nat], Built(r, out, p),
         NEW s \in DOMAIN r.asked
  PROVE  /\ LinesAt(r.gated, r.asked[s].line) # {}
         /\ Target(r, r.gated, s) \in DOMAIN r.gated
         /\ r.gated[Target(r, r.gated, s)].sku = s
         /\ Differs(r.gated, Target(r, r.gated, s))
<1> DEFINE cart == r.gated
           i == r.asked[s].line
<1>1. IsCart(cart) /\ r.asked = Questions(cart)
  BY GatedIsSound DEF Built
<1>2. Disjoint(DOMAIN cart)
  BY GatedIsSound DEF Built, Disjoint
<1>3. PICK g \in DOMAIN cart :
        cart[g].sku = s /\ Differs(cart, g) /\ i = LineNumber(cart, g)
  BY <1>1, QuestionType
<1>4. g \in LinesAt(cart, i)
  BY <1>3 DEF LinesAt
<1>5. LineAt(cart, i) \in LinesAt(cart, i)
  BY <1>4, LineAtIsOne
<1>6. LineAt(cart, i) = g
  BY <1>1, <1>2, <1>3, <1>5, LineNumberIsItsOwn DEF LinesAt
<1>7. Target(r, cart, s) = g
  BY <1>4, <1>6 DEF Target
<1> QED
  BY <1>3, <1>4, <1>7

\* The cart that answers give honours all of them.
LEMMA ApplyHonours ==
  ASSUME OneTrip, NEW r, NEW out, NEW p \in [Sku -> Nat], Built(r, out, p),
         NEW x, NEW acts, acts \cap r.actions = {}
  PROVE  Contradicted(r, Apply(r, x, acts, p), x) = {}
<1> DEFINE omit == Omitted(r, r.gated, x, acts)
           force == Forced(r, r.gated, x)
           cart == Apply(r, x, acts, p)
           target(s) == Target(r, r.gated, s)
<1>1. \A s \in Selected(r, r.gated, x) : s \in DOMAIN r.asked
  BY DEF Selected
<1>2. omit = {target(s) : s \in {t \in Selected(r, r.gated, x) : x[t] = "omit"}}
  BY DEF Omitted
<1>3. /\ DOMAIN force = {target(s) : s \in ForcedBy(r, r.gated, x)}
      /\ \A g \in DOMAIN force :
           \E s \in ForcedBy(r, r.gated, x) : target(s) = g /\ force[g] = x[s]
  <2> DEFINE f == force
  <2>1. f = Forced(r, r.gated, x)
    OBVIOUS
  <2> HIDE DEF f
  <2>2. ForcedOptions(r, x, f)
    BY <2>1, ForcedFits
  <2> QED
    BY <2>2 DEF f, ForcedOptions
<1>4. omit # {} \/ DOMAIN force # {} => cart = Adjusted(r, omit, force, p)
  BY DEF Apply
<1>5. \A g \in DOMAIN force : force[g] \in Sku \ out
  BY ForcedInStock
<1>6. \A s, t \in Selected(r, r.gated, x) : target(s) = target(t) => s = t
  <2> SUFFICES ASSUME NEW s \in Selected(r, r.gated, x),
                      NEW t \in Selected(r, r.gated, x), target(s) = target(t)
               PROVE  s = t
    OBVIOUS
  <2>1. r.gated[target(s)].sku = s /\ r.gated[target(t)].sku = t
    BY <1>1, TargetIsItsLine
  <2> QED
    BY <2>1
<1>7. ForcedBy(r, r.gated, x) = {s \in Selected(r, r.gated, x) : x[s] \in Sku}
  BY DEF ForcedBy
<1> HIDE DEF omit, force, cart, target
<1>8. ASSUME NEW s \in Selected(r, r.gated, x), x[s] = "omit"
      PROVE  target(s) \notin DOMAIN cart
  <2>1. target(s) \in omit
    BY <1>2, <1>8
  <2>2. cart = Adjusted(r, omit, force, p)
    BY <1>4, <2>1
  <2>3. DOMAIN cart \subseteq DOMAIN r.can \ omit
    BY <1>5, <2>2, AdjustedIsSound
  <2> QED
    BY <2>1, <2>3
<1>9. ASSUME NEW s \in Selected(r, r.gated, x), x[s] \in Sku
      PROVE  target(s) \in DOMAIN cart /\ cart[target(s)].sku = x[s]
  <2>1. s \in ForcedBy(r, r.gated, x) /\ target(s) \in DOMAIN force
    BY <1>3, <1>7, <1>9
  <2>2. force[target(s)] = x[s]
    BY <1>3, <1>6, <1>7, <2>1
  <2>3. target(s) \notin omit
    <3>1. x[s] # "omit"
      BY <1>9, PlanConstants
    <3> QED
      BY <1>2, <1>6, <3>1
  <2>4. target(s) \in DOMAIN r.can
    BY <1>1, TargetIsItsLine, GatedIsSound DEF target
  <2>5. cart = Adjusted(r, omit, force, p)
    BY <1>4, <2>1
  <2>6. /\ (DOMAIN force \cap DOMAIN r.can) \ omit \subseteq DOMAIN cart
        /\ \A g \in DOMAIN cart : g \in DOMAIN force => cart[g].sku = force[g]
    BY <1>5, <2>5, AdjustedIsSound
  <2> QED
    BY <2>1, <2>2, <2>3, <2>4, <2>6
<1> QED
  BY <1>8, <1>9 DEF Contradicted, target, cart

\* What the parent has answered himself, and can still be had, is saved as he
\* gave it and is what the summary buys, also after replans and further
\* questions, when all is bought on one trip.
THEOREM AnswersAreBought == OneTrip => (Spec => []AnswersAreHonoured)
<1> SUFFICES ASSUME OneTrip PROVE Spec => []AnswersAreHonoured
  OBVIOUS
<1>1. PlanInv /\ TypeOK => AnswersAreHonoured
  <2> SUFFICES ASSUME PlanInv, TypeOK, OnSummary, NEW s \in DOMAIN own,
                      own[s].answer \in OptionsFor(result, result.gated, s)
               PROVE  outcomes[s] = own[s].answer /\ Honoured(s, own[s].answer)
    BY DEF AnswersAreHonoured
  <2>1. /\ shown = "summary" /\ Built(result, stockouts, price)
        /\ price \in [Sku -> Nat]
    BY PricesAreNumbers DEF PlanInv, Screens, Fresh, HasResult, OnSummary
  <2>2. Contradicted(result, EffectiveCart, outcomes) = {}
    <3>1. CASE approved # None
      BY <3>1 DEF PlanInv, Accepted, EffectiveCart
    <3>2. CASE approved = None
      <4>1. budgetActions \cap result.actions = {}
        BY <2>1, <3>2 DEF PlanInv, Answered, Built
      <4>2. EffectiveCart = Apply(result, outcomes, budgetActions, price)
        BY <3>2 DEF EffectiveCart
      <4> QED
        BY <2>1, <4>1, <4>2, ApplyHonours
    <3> QED
      BY <3>1, <3>2
  <2>3. /\ s \in DOMAIN outcomes /\ s \in DOMAIN result.asked
        /\ outcomes[s] = own[s].answer
    BY <2>1 DEF PlanInv, Own, HasResult
  <2>4. s \in Selected(result, result.gated, outcomes)
    BY <2>3 DEF Selected
  <2> DEFINE g == Target(result, result.gated, s)
             answer == own[s].answer
  <2>5. /\ answer = "omit" => g \notin DOMAIN EffectiveCart
        /\ answer \in Sku =>
             g \in DOMAIN EffectiveCart /\ EffectiveCart[g].sku = answer
    BY <2>2, <2>3, <2>4 DEF Contradicted
  <2>6. answer \in Sku \cup {"approve", "omit"}
    BY DEF TypeOK
  <2>7. Honoured(s, answer)
    <3>1. CASE answer = "omit"
      BY <2>5, <3>1 DEF Honoured
    <3>2. CASE answer = "approve"
      BY <3>2 DEF Honoured
    <3>3. CASE answer # "omit" /\ answer # "approve"
      <4> HIDE DEF answer
      <4> QED
        BY <2>5, <2>6, <3>3 DEF Honoured
    <3> QED
      BY <3>1, <3>2, <3>3
  <2> QED
    BY <2>3, <2>7
<1> QED
  BY <1>1, PlanInvariant, PlanTypeCorrect, PTL
=============================================================================
