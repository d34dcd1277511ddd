--------------------------- MODULE Matching_proofs ---------------------------
(***************************************************************************)
(* The safety invariants of Matching, for any lists, offers, verdicts and  *)
(* number of threads.  The first part is about the functions matching is   *)
(* built from: the library's folds taken element by element, and what      *)
(* aggregation makes of the lines, that no line and no unit is lost.  The  *)
(* second is the inductive invariant of the batches of the judge, MatchInv.*)
(***************************************************************************)
EXTENDS Matching, FiniteFacts, SequenceTheorems

-----------------------------------------------------------------------------
(* The library's folds over a sequence *)

\* What is kept of each subset of the lines.
Keeping(kept, ls) ==
  kept = [s \in SUBSET (DOMAIN ls) |->
            IF s = {} THEN <<>>
            ELSE Keep(kept[s \ {Max(s)}], NormalizeRequirement(ls[Max(s)]))]

\* The purchasable lines are kept line by line.
LEMMA KeepingExists ==
  ASSUME NEW ls, ls \in Seq(Range(ls))
  PROVE  \E kept : Keeping(kept, ls) /\ BudgetRequirements(ls) = kept[DOMAIN ls]
<1> DEFINE n == Len(ls)
           S == 1..n
           Norm == {NormalizeRequirement(ls[k]) : k \in S}
           State == Seq(Norm)
           step == [p \in State \X S |-> Keep(p[1], NormalizeRequirement(ls[p[2]]))]
           pick == Latest(n)
<1>1. n \in Nat /\ DOMAIN ls = S /\ IsFiniteSet(S)
  BY FS_Interval
<1>2. Picks(pick, S)
  BY <1>1, LatestPicks
<1>3. step \in [State \X S -> State]
  BY DEF Keep
<1>4. PICK h : Unfolds(step, <<>>, pick, S, h) /\ \A s \in SUBSET S : h[s] \in State
  <2> DEFINE base == <<>>
  <2>1. base \in State
    OBVIOUS
  <2> HIDE DEF State, step, pick, S, base
  <2> SUFFICES \E h : UnfoldsIn(State, step, base, pick, S, h)
    BY DEF base, UnfoldsIn
  <2> QED
    BY <1>1, <1>2, <1>3, <2>1, UnfoldsInto
<1>5. Keeping(h, ls)
  <2> SUFFICES ASSUME NEW s \in SUBSET S, s # {}
               PROVE  h[s] = Keep(h[s \ {Max(s)}], NormalizeRequirement(ls[Max(s)]))
    BY <1>1, <1>4 DEF Unfolds, Keeping
  <2>1. pick[s] = Max(s) /\ Max(s) \in S
    BY <1>1, <1>2 DEF Picks, Latest
  <2>2. h[s] = step[<<h[s \ {Max(s)}], Max(s)>>]
    BY <1>4, <2>1 DEF Unfolds
  <2>3. h[s \ {Max(s)}] \in State
    BY <1>4
  <2> HIDE DEF State, S
  <2> QED
    BY <2>1, <2>2, <2>3
<1> DEFINE g == CHOOSE kept : Keeping(kept, ls)
<1>6. Keeping(g, ls)
  BY <1>5
<1>7. BudgetRequirements(ls) = g[DOMAIN ls]
  BY DEF BudgetRequirements, FoldLeft, MapThenFoldSet, Keeping
<1> QED
  BY <1>6, <1>7

-----------------------------------------------------------------------------
(* The lines that are bought *)

\* Lines as aggregate_requirements finds them: a sequence, each of a line of
\* its own, for a child that is known.
Summable(p) ==
  /\ p \in Seq(Range(p))
  /\ \A j, k \in DOMAIN p : p[j].source.id = p[k].source.id => j = k
  /\ \A k \in DOMAIN p : p[k].quantity \in Int /\ p[k].source.child \in DOMAIN StudentCounts

KeptFrom(kept, ls, s) ==
  /\ kept \in Seq(Range(kept))
  /\ \A j \in DOMAIN kept :
       \E m \in s : kept[j] = NormalizeRequirement(ls[m]) /\ kept[j].inCart
  /\ \A j, k \in DOMAIN kept : kept[j].source.id = kept[k].source.id => j = k

\* One more line of those of a list joins what is kept, or does not.
LEMMA KeepOneMore ==
  ASSUME NEW ls \in Lists, NEW s \in SUBSET (DOMAIN ls), NEW m \in s, NEW kept,
         KeptFrom(kept, ls, s \ {m})
  PROVE  KeptFrom(Keep(kept, NormalizeRequirement(ls[m])), ls, s)
<1> DEFINE n == NormalizeRequirement(ls[m])
<1>1. n.source = ls[m]
  BY DEF NormalizeRequirement
<1>2. CASE ~(n.inCart /\ n.source.required)
  BY <1>2 DEF Keep, KeptFrom
<1>3. CASE n.inCart /\ n.source.required
  <2> DEFINE more == Append(kept, n)
             l == Len(kept)
  <2>1. /\ l \in Nat /\ DOMAIN kept = 1..l /\ DOMAIN more = 1..(l + 1)
        /\ more[l + 1] = n /\ \A j \in 1..l : more[j] = kept[j]
        /\ more \in Seq(Range(kept) \cup {n})
    BY DEF KeptFrom
  <2> HIDE DEF more, n, l
  <2>2. more \in Seq(Range(more))
    BY <2>1 DEF Range
  <2>3. \A j \in DOMAIN more :
          \E k \in s : more[j] = NormalizeRequirement(ls[k]) /\ more[j].inCart
    BY <2>1, <1>3 DEF KeptFrom, n
  <2>4. \A j \in 1..l : more[j].source.id # n.source.id
    <3> SUFFICES ASSUME NEW j \in 1..l, kept[j].source.id = ls[m].id PROVE FALSE
      BY <2>1, <1>1
    <3>1. PICK k \in s \ {m} : kept[j] = NormalizeRequirement(ls[k])
      BY <2>1 DEF KeptFrom
    <3>2. kept[j].source = ls[k]
      BY <3>1 DEF NormalizeRequirement
    <3> QED
      BY <3>1, <3>2, MatchingConstants
  <2>5. \A j, k \in DOMAIN more : more[j].source.id = more[k].source.id => j = k
    BY <2>1, <2>4 DEF KeptFrom
  <2> QED
    BY <1>3, <2>2, <2>3, <2>5 DEF KeptFrom, Keep, n, more
<1> QED
  BY <1>2, <1>3

\* What the lists leave to be bought can be added up.
LEMMA PurchasablesAreSummable ==
  ASSUME NEW ls \in Lists
  PROVE  Summable(BudgetRequirements(ls))
<1> DEFINE n == Len(ls)
           S == 1..n
           pick == Latest(n)
<1>1. ls \in Seq(Range(ls)) /\ n \in Nat /\ DOMAIN ls = S /\ IsFiniteSet(S)
  <2>1. ls \in Seq(Range(ls))
    BY MatchingConstants
  <2> QED
    BY <2>1, FS_Interval
<1>2. Picks(pick, S) /\ \A s \in SUBSET S : s # {} => pick[s] = Max(s)
  BY <1>1, LatestPicks DEF Latest
<1>3. PICK h : Keeping(h, ls) /\ BudgetRequirements(ls) = h[S]
  BY <1>1, KeepingExists
<1> DEFINE H == {s \in SUBSET S : KeptFrom(h[s], ls, s)}
<1>4. {} \in H
  BY <1>1, <1>3 DEF Keeping, KeptFrom, Range
<1>5. ASSUME NEW s \in SUBSET S, s # {}, s \ {pick[s]} \in H PROVE s \in H
  <2>1. h[s] = Keep(h[s \ {pick[s]}], NormalizeRequirement(ls[pick[s]])) /\ pick[s] \in s
    BY <1>1, <1>2, <1>3, <1>5 DEF Keeping, Picks
  <2>2. KeptFrom(h[s \ {pick[s]}], ls, s \ {pick[s]})
    BY <1>5
  <2> HIDE DEF S, pick
  <2>3. KeptFrom(h[s], ls, s)
    BY <1>1, <2>1, <2>2, KeepOneMore
  <2> QED
    BY <2>3
<1>6. \A s \in SUBSET S : s \in H
  <2>1. H \subseteq SUBSET S /\ IsFiniteSet(S) /\ Picks(pick, S)
    BY <1>1, <1>2
  <2> HIDE DEF H, S, pick
  <2> QED
    BY <2>1, <1>4, <1>5, OneByOne
<1>7. KeptFrom(BudgetRequirements(ls), ls, S)
  BY <1>3, <1>6
<1> DEFINE p == BudgetRequirements(ls)
<1>8. ASSUME NEW k \in DOMAIN p
      PROVE  p[k].quantity \in Int /\ p[k].source.child \in DOMAIN StudentCounts
  <2>1. PICK m \in S : p[k] = NormalizeRequirement(ls[m]) /\ p[k].inCart
    BY <1>7 DEF KeptFrom
  <2>2. p[k].source = ls[m] /\ p[k].quantity = NormalizedQuantity(ls[m])
    BY <2>1 DEF NormalizeRequirement
  <2>6. ls[m].purchasable
    <3>1. NormalizeRequirement(ls[m]).inCart
      BY <2>1
    <3>2. NormalizeRequirement(ls[m]).inCart = (ls[m].purchasable /\ ls[m].item \in AllowedCategories)
      BY DEF NormalizeRequirement
    <3> HIDE DEF p
    <3> QED
      BY ONLY <3>1, <3>2
  <2>3. /\ ls[m].quantity \in Int /\ ls[m].child \in DOMAIN StudentCounts
        /\ ExplicitCount(ls[m]) \in Nat \cup {None}
    BY <1>1, <2>1, MatchingConstants
  <2>4. IsCounted(ls[m]) => PackCount(ls[m]) \in Int
    BY <2>6, <2>3, MatchingConstants DEF IsCounted, PackCount, CountBasedCategories, CanonicalItem
  <2>5. NormalizedQuantity(ls[m]) \in Int
    BY <2>3, <2>4 DEF NormalizedQuantity, REAM_SHEET_COUNT
  <2> QED
    BY <2>2, <2>3, <2>5
<1> QED
  BY <1>7, <1>8 DEF KeptFrom, Summable

-----------------------------------------------------------------------------
(* The needs they add up to *)

Ids(p) == {p[k].source.id : k \in DOMAIN p}

\* How a need may be shared out.
Shares ==
  UNION {[C -> Int] : C \in {D \in SUBSET (DOMAIN StudentCounts) : IsFiniteSet(D)}}

\* A need of the identity of a line.
NeedOf(n, quantity, allocatedTo, ids) ==
  [item |-> n.source.item, brand |-> n.source.brand,
   exclusions |-> EffectiveExclusions(n.source),
   attributes |-> EffectiveAttributes(n), key |-> Identity(n),
   quantity |-> quantity, allocatedTo |-> allocatedTo, sources |-> ids]

\* The needs that some of the lines may come to.
NeedsOf(p) ==
  {NeedOf(p[k], q, a, ids) : k \in DOMAIN p, q \in Int, a \in Shares, ids \in Seq(Ids(p))}

GivenTo(need, child) ==
  IF child \in DOMAIN need.allocatedTo THEN need.allocatedTo[child] ELSE 0

AskedFor(n, child) == IF n.source.child = child THEN UnitsAsked(n, StudentCounts) ELSE 0

\* The needs ns are what the lines of p at the places s add up to.
AddsUp(ns, p, s) ==
  /\ ns \in Seq(NeedsOf(p))
  /\ \A i, j \in DOMAIN ns : ns[i].key = ns[j].key => i = j
  /\ \A i \in DOMAIN ns : \A k \in DOMAIN p :
       p[k].source.id \in ToSet(ns[i].sources) <=> k \in s /\ Identity(p[k]) = ns[i].key
  /\ \A k \in s : \E i \in DOMAIN ns : ns[i].key = Identity(p[k])
  /\ \A child \in DOMAIN StudentCounts :
       SumFunction([i \in DOMAIN ns |-> GivenTo(ns[i], child)])
         = SumFunctionOnSet([k \in DOMAIN p |-> AskedFor(p[k], child)], s)
  /\ \A i \in DOMAIN ns : ns[i].quantity = SumFunction(ns[i].allocatedTo)

\* Any whole quantity, shares and sources make a need of a line.
LEMMA NeedIsOfKey ==
  ASSUME NEW p, NEW k \in DOMAIN p, NEW q \in Int, NEW a \in Shares, NEW ids \in Seq(Ids(p))
  PROVE  NeedOf(p[k], q, a, ids) \in NeedsOf(p)
BY DEF NeedsOf

\* What a line asks for is a whole number of units.
LEMMA UnitsAreWhole ==
  ASSUME NEW p, Summable(p), NEW k \in DOMAIN p
  PROVE  UnitsAsked(p[k], StudentCounts) \in Int
<1>1. p[k].quantity \in Int /\ StudentCounts[p[k].source.child] \in Int
  BY MatchingConstants DEF Summable
<1> QED
  BY <1>1 DEF UnitsAsked

\* Shares are whole numbers of units for finitely many children.
LEMMA ShareTypes ==
  ASSUME NEW a \in Shares
  PROVE  /\ a = [c \in DOMAIN a |-> a[c]] /\ IsFiniteSet(DOMAIN a)
         /\ DOMAIN a \subseteq DOMAIN StudentCounts /\ \A c \in DOMAIN a : a[c] \in Int
BY DEF Shares

\* A need is as restrictive as the key it was made for.
LEMMA NeedTypes ==
  ASSUME NEW p, NEW need \in NeedsOf(p)
  PROVE  /\ need.quantity \in Int /\ need.allocatedTo \in Shares
         /\ need.sources \in Seq(Ids(p))
         /\ need.brand = need.key.brand /\ need.exclusions = need.key.exclusions
<1>1. PICK k \in DOMAIN p, q \in Int, a \in Shares, ids \in Seq(Ids(p)) :
        need = NeedOf(p[k], q, a, ids)
  BY DEF NeedsOf
<1> QED
  BY <1>1 DEF NeedOf, Identity

\* A line joins a need: its units are added, for its child.
Joined(new, need, n, units) ==
  /\ new.key = need.key
  /\ ToSet(new.sources) = ToSet(need.sources) \cup {n.source.id}
  /\ new.quantity = need.quantity + units
  /\ \A child \in DOMAIN StudentCounts :
       GivenTo(new, child) = GivenTo(need, child) + IF child = n.source.child THEN units ELSE 0
  /\ SumFunction(new.allocatedTo) = SumFunction(need.allocatedTo) + units

\* Shares a become b when c is given units more.
Grown(b, a, c, units) ==
  /\ b \in Shares /\ DOMAIN b = DOMAIN a \cup {c}
  /\ b[c] = (IF c \in DOMAIN a THEN a[c] ELSE 0) + units
  /\ \A x \in DOMAIN a \ {c} : b[x] = a[x]
  /\ SumFunction(b) = SumFunction(a) + units

\* Giving one child more adds as much to the sum of the shares.
LEMMA SharesGrow ==
  ASSUME NEW a \in Shares, NEW c \in DOMAIN StudentCounts, NEW units \in Int,
         NEW b, b = With(a, [x \in {c} |-> (IF c \in DOMAIN a THEN a[c] ELSE 0) + units])
  PROVE  Grown(b, a, c, units)
<1> DEFINE had == IF c \in DOMAIN a THEN a[c] ELSE 0
           D == DOMAIN a
           E == D \cup {c}
<1>1. /\ a = [x \in D |-> a[x]] /\ IsFiniteSet(D)
      /\ D \subseteq DOMAIN StudentCounts /\ \A x \in D : a[x] \in Int
  BY ShareTypes
<1>2. b = [x \in E |-> IF x = c THEN had + units ELSE a[x]]
  BY DEF With
<1>3. /\ DOMAIN b = E /\ b[c] = had + units /\ \A x \in D \ {c} : b[x] = a[x]
      /\ \A x \in E : b[x] \in Int
  BY <1>1, <1>2
<1>4. IsFiniteSet(E)
  BY <1>1, FS_AddElement
<1>5. b \in Shares
  <2>1. b \in [E -> Int]
    BY <1>2, <1>3
  <2> HIDE DEF E
  <2>2. E \in {X \in SUBSET (DOMAIN StudentCounts) : IsFiniteSet(X)}
    BY <1>1, <1>4 DEF E
  <2> QED
    BY <2>1, <2>2 DEF Shares
<1>6. SumFunctionOnSet(b, E) = SumFunctionOnSet(a, E \ {c}) + b[c]
  <2>1. c \in E /\ \A x \in E \ {c} : a[x] = b[x]
    BY <1>3
  <2> HIDE DEF E
  <2> QED
    BY <2>1, <1>3, <1>4, SumChanged
<1>7. SumFunctionOnSet(a, D) = SumFunctionOnSet(a, E \ {c}) + had
  <2>1. CASE c \in D
    <3>1. E \ {c} = D \ {c}
      OBVIOUS
    <3>2. SumFunctionOnSet(a, D) = a[c] + SumFunctionOnSet(a, D \ {c})
      BY <1>1, <2>1, SumOfOneMore
    <3>3. IsFiniteSet(D \ {c}) /\ \A x \in D \ {c} : a[x] \in Int
      BY <1>1, FS_Subset
    <3>4. SumFunctionOnSet(a, D \ {c}) \in Int
      BY <3>3, SumInt
    <3>5. had = a[c] /\ a[c] \in Int
      BY <1>1, <2>1
    <3>6. SumFunctionOnSet(a, E \ {c}) = SumFunctionOnSet(a, D \ {c})
      BY <3>1
    <3> HIDE DEF had, D, E
    <3> QED
      BY <3>2, <3>4, <3>5, <3>6
  <2>2. CASE c \notin D
    <3>1. E \ {c} = D
      BY <2>2
    <3>2. SumFunctionOnSet(a, D) \in Int
      BY <1>1, SumInt
    <3> QED
      BY <3>1, <3>2, <2>2
  <2> QED
    BY <2>1, <2>2
<1>8. SumFunctionOnSet(a, E \ {c}) \in Int
  <2>1. IsFiniteSet(E \ {c}) /\ \A x \in E \ {c} : a[x] \in Int
    BY <1>1, <1>4, FS_Subset
  <2> QED
    BY <2>1, SumInt
<1>9. SumFunction(a) = SumFunctionOnSet(a, D) /\ SumFunction(b) = SumFunctionOnSet(b, E)
  BY <1>3 DEF SumFunction, SumFunctionOnSet, FoldFunction
<1>10. had \in Int
  BY <1>1
<1> HIDE DEF had, D, E
<1>11. SumFunction(b) = SumFunction(a) + units
  BY <1>3, <1>6, <1>7, <1>8, <1>9, <1>10
<1> QED
  BY <1>3, <1>5, <1>11 DEF Grown, had, D, E

\* add: the accumulator of a need after one more line.
LEMMA LineJoins ==
  ASSUME NEW p, Summable(p), NEW k \in DOMAIN p, NEW need \in NeedsOf(p), NEW units \in Int
  PROVE  /\ Add(p[k], units, need) \in NeedsOf(p)
         /\ Joined(Add(p[k], units, need), need, p[k], units)
<1> DEFINE c == p[k].source.child
           a == need.allocatedTo
           b == With(a, [x \in {c} |-> (IF c \in DOMAIN a THEN a[c] ELSE 0) + units])
           ids == Append(need.sources, p[k].source.id)
           new == Add(p[k], units, need)
<1>1. /\ need.quantity \in Int /\ a \in Shares /\ need.sources \in Seq(Ids(p))
      /\ c \in DOMAIN StudentCounts
  BY NeedTypes DEF Summable
<1>2. Grown(b, a, c, units)
  <2> HIDE DEF a, c
  <2> QED
    BY <1>1, SharesGrow
<1>3. ids \in Seq(Ids(p)) /\ ToSet(ids) = ToSet(need.sources) \cup {p[k].source.id}
  <2>1. p[k].source.id \in Ids(p)
    BY DEF Ids
  <2> DEFINE old == need.sources
             id == p[k].source.id
  <2> HIDE DEF old, id
  <2> SUFFICES Append(old, id) \in Seq(Ids(p)) /\ ToSet(Append(old, id)) = ToSet(old) \cup {id}
    BY DEF old, id
  <2>2. old \in Seq(Ids(p)) /\ id \in Ids(p)
    BY <1>1, <2>1 DEF old, id
  <2>3. /\ Append(old, id) \in Seq(Ids(p)) /\ Len(old) \in Nat
        /\ DOMAIN old = 1..Len(old) /\ DOMAIN Append(old, id) = 1..(Len(old) + 1)
        /\ \A i \in 1..Len(old) : Append(old, id)[i] = old[i]
        /\ Append(old, id)[Len(old) + 1] = id
    BY <2>2
  <2>4. ToSet(Append(old, id)) = ToSet(old) \cup {id}
    BY <2>3 DEF ToSet
  <2> QED
    BY <2>3, <2>4
<1>4. PICK j \in DOMAIN p, q \in Int, s \in Shares, old \in Seq(Ids(p)) :
        need = NeedOf(p[j], q, s, old)
  BY DEF NeedsOf
<1>5. new = [need EXCEPT !.quantity = need.quantity + units, !.allocatedTo = b, !.sources = ids]
  BY DEF Add
<1> HIDE DEF b, ids, new
<1>10. new = NeedOf(p[j], need.quantity + units, b, ids)
  BY <1>4, <1>5 DEF NeedOf
<1>6. new \in NeedsOf(p)
  <2>1. need.quantity + units \in Int
    BY <1>1
  <2> QED
    BY <1>2, <1>3, <1>10, <2>1 DEF NeedsOf, Grown
<1>7. /\ new.key = need.key /\ new.sources = ids /\ new.allocatedTo = b
      /\ new.quantity = need.quantity + units
  BY <1>4, <1>10 DEF NeedOf
<1>8. \A child \in DOMAIN StudentCounts :
        GivenTo(new, child) = GivenTo(need, child) + IF child = c THEN units ELSE 0
  <2> SUFFICES ASSUME NEW child \in DOMAIN StudentCounts
               PROVE  GivenTo(new, child) = GivenTo(need, child)
                                              + IF child = c THEN units ELSE 0
    OBVIOUS
  <2>1. GivenTo(need, child) \in Int
    BY <1>1, ShareTypes DEF GivenTo
  <2> QED
    BY <1>2, <1>7, <2>1 DEF GivenTo, Grown
<1>9. Joined(new, need, p[k], units)
  BY <1>2, <1>3, <1>7, <1>8 DEF Joined, Grown
<1> QED
  BY <1>6, <1>9 DEF new

\* A need starts with no units and no lines.
LEMMA NewNeedIsEmpty ==
  ASSUME NEW p, Summable(p), NEW k \in DOMAIN p
  PROVE  /\ NewNeed(p[k]) \in NeedsOf(p) /\ NewNeed(p[k]).key = Identity(p[k])
         /\ NewNeed(p[k]).quantity = 0 /\ ToSet(NewNeed(p[k]).sources) = {}
         /\ SumFunction(NewNeed(p[k]).allocatedTo) = 0
         /\ \A child \in DOMAIN StudentCounts : GivenTo(NewNeed(p[k]), child) = 0
<1> DEFINE none == <<>>
<1>1. none \in Shares /\ DOMAIN none = {}
  <2>1. none \in [{} -> Int] /\ {} \in {D \in SUBSET (DOMAIN StudentCounts) : IsFiniteSet(D)}
    BY FS_EmptySet
  <2> QED
    BY <2>1 DEF Shares
<1>2. none \in Seq(Ids(p)) /\ ToSet(none) = {}
  BY DEF ToSet
<1>3. SumFunction(none) = 0
  <2> HIDE DEF none
  <2> QED
    BY <1>1, SumOfNone DEF SumFunction
<1>4. NewNeed(p[k]) = NeedOf(p[k], 0, none, none)
  BY DEF NewNeed, NeedOf
<1> HIDE DEF none
<1>5. NewNeed(p[k]) \in NeedsOf(p)
  <2> DEFINE zero == 0
  <2>1. zero \in Int /\ NewNeed(p[k]) = NeedOf(p[k], zero, none, none)
    BY <1>4
  <2> HIDE DEF zero
  <2> QED
    BY <1>1, <1>2, <2>1, NeedIsOfKey
<1>6. /\ NewNeed(p[k]).key = Identity(p[k]) /\ NewNeed(p[k]).quantity = 0
      /\ NewNeed(p[k]).sources = none /\ NewNeed(p[k]).allocatedTo = none
  BY <1>4 DEF NeedOf
<1> QED
  BY <1>1, <1>2, <1>3, <1>5, <1>6 DEF GivenTo

\* What a need gives a child is a whole number of units.
LEMMA GivenIsWhole ==
  ASSUME NEW p, NEW need \in NeedsOf(p), NEW child PROVE GivenTo(need, child) \in Int
BY NeedTypes, ShareTypes DEF GivenTo

\* A need without lines may stand for one that is to come.
LEMMA EmptyNeedAddsUp ==
  ASSUME NEW p, Summable(p), NEW m \in DOMAIN p, NEW s \in SUBSET (DOMAIN p),
         NEW ns, AddsUp(ns, p, s), \A i \in DOMAIN ns : ns[i].key # Identity(p[m])
  PROVE  AddsUp(Append(ns, NewNeed(p[m])), p, s)
<1> DEFINE l == Len(ns)
           more == Append(ns, NewNeed(p[m]))
           none == NewNeed(p[m])
<1>1. /\ none \in NeedsOf(p) /\ none.key = Identity(p[m]) /\ none.quantity = 0
      /\ ToSet(none.sources) = {} /\ SumFunction(none.allocatedTo) = 0
      /\ \A child \in DOMAIN StudentCounts : GivenTo(none, child) = 0
  BY NewNeedIsEmpty
<1>2. ns \in Seq(NeedsOf(p)) /\ l \in Nat /\ DOMAIN ns = 1..l
  BY DEF AddsUp
<1> HIDE DEF none
<1>3. /\ more \in Seq(NeedsOf(p)) /\ DOMAIN more = 1..(l + 1) /\ more[l + 1] = none
      /\ \A i \in 1..l : more[i] = ns[i]
  BY <1>1, <1>2 DEF none
<1> HIDE DEF more, l
<1>4. \A i, j \in DOMAIN more : more[i].key = more[j].key => i = j
  BY <1>1, <1>2, <1>3 DEF AddsUp
<1>5. \A i \in DOMAIN more : \A k \in DOMAIN p :
        p[k].source.id \in ToSet(more[i].sources) <=> k \in s /\ Identity(p[k]) = more[i].key
  BY <1>1, <1>2, <1>3 DEF AddsUp
<1>6. \A k \in s : \E i \in DOMAIN more : more[i].key = Identity(p[k])
  BY <1>2, <1>3 DEF AddsUp
<1>7. ASSUME NEW child \in DOMAIN StudentCounts
      PROVE  SumFunction([i \in DOMAIN more |-> GivenTo(more[i], child)])
               = SumFunction([i \in DOMAIN ns |-> GivenTo(ns[i], child)])
  <2> DEFINE f == [i \in DOMAIN ns |-> GivenTo(ns[i], child)]
             g == [i \in DOMAIN more |-> GivenTo(more[i], child)]
             S == 1..(l + 1)
             last == l + 1
  <2>1. /\ DOMAIN f = 1..l /\ DOMAIN g = S /\ S \ {last} = 1..l /\ last \in S
        /\ g[last] = 0 /\ \A i \in S \ {last} : f[i] = g[i]
    BY <1>1, <1>2, <1>3
  <2>2. \A i \in S : g[i] \in Int
    <3> SUFFICES ASSUME NEW i \in S PROVE GivenTo(more[i], child) \in Int
      BY <1>3
    <3>1. more[i] \in NeedsOf(p)
      BY <1>2, <1>3
    <3> QED
      BY <3>1, GivenIsWhole
  <2>3. \A i \in 1..l : f[i] \in Int
    BY <2>1, <2>2
  <2>4. IsFiniteSet(S) /\ IsFiniteSet(1..l)
    BY <1>2, FS_Interval
  <2> HIDE DEF f, g, S, last
  <2>5. SumFunctionOnSet(g, S) = SumFunctionOnSet(f, S \ {last}) + g[last]
    <3>1. last \in S /\ IsFiniteSet(S) /\ \A i \in S \ {last} : f[i] = g[i]
      BY <2>1, <2>4
    <3> QED
      BY <3>1, <2>2, SumChanged
  <2>8. SumFunctionOnSet(f, S \ {last}) = SumFunctionOnSet(f, 1..l)
    BY <2>1
  <2>6. SumFunctionOnSet(f, 1..l) \in Int
    BY <2>3, <2>4, SumInt
  <2>7. SumFunction(g) = SumFunction(f)
    BY <2>1, <2>5, <2>6, <2>8 DEF SumFunction
  <2> QED
    BY <2>7 DEF f, g
<1>8. \A i \in DOMAIN more : more[i].quantity = SumFunction(more[i].allocatedTo)
  BY <1>1, <1>2, <1>3 DEF AddsUp
<1>9. AddsUp(more, p, s)
  BY <1>3, <1>4, <1>5, <1>6, <1>7, <1>8 DEF AddsUp
<1> QED
  BY <1>9 DEF more

\* The need of its identity takes one more line in.
LEMMA JoinedNeedsAddUp ==
  ASSUME NEW p, Summable(p), NEW s \in SUBSET (DOMAIN p), NEW m \in s,
         NEW ns, AddsUp(ns, p, s \ {m}), NEW i \in DOMAIN ns, ns[i].key = Identity(p[m])
  PROVE  AddsUp([ns EXCEPT ![i] = Add(p[m], UnitsAsked(p[m], StudentCounts), ns[i])], p, s)
<1> DEFINE units == UnitsAsked(p[m], StudentCounts)
           new == Add(p[m], units, ns[i])
           more == [ns EXCEPT ![i] = new]
           l == Len(ns)
           id(k) == p[k].source.id
<1>1. ns \in Seq(NeedsOf(p)) /\ l \in Nat /\ DOMAIN ns = 1..l /\ ns[i] \in NeedsOf(p)
  BY DEF AddsUp
<1>2. units \in Int
  BY UnitsAreWhole
<1>3. new \in NeedsOf(p) /\ Joined(new, ns[i], p[m], units)
  <2> HIDE DEF units
  <2> QED
    BY <1>1, <1>2, LineJoins
<1> HIDE DEF units, new
<1>4. /\ more \in Seq(NeedsOf(p)) /\ DOMAIN more = 1..l /\ more[i] = new
      /\ \A j \in 1..l : j # i => more[j] = ns[j]
  BY <1>1, <1>3
<1> HIDE DEF more, l
<1>5. \A j \in 1..l : more[j].key = ns[j].key
  BY <1>3, <1>4 DEF Joined
<1>6. \A j, k \in DOMAIN more : more[j].key = more[k].key => j = k
  BY <1>1, <1>4, <1>5 DEF AddsUp
<1>7. ASSUME NEW j \in DOMAIN more, NEW k \in DOMAIN p
      PROVE  p[k].source.id \in ToSet(more[j].sources) <=> k \in s /\ Identity(p[k]) = more[j].key
  <2>1. p[k].source.id \in ToSet(ns[j].sources) <=> k \in s \ {m} /\ Identity(p[k]) = ns[j].key
    BY <1>1, <1>4 DEF AddsUp
  <2>2. p[k].source.id = p[m].source.id <=> k = m
    BY DEF Summable
  <2>3. CASE j = i
    BY <1>3, <1>4, <1>5, <2>1, <2>2, <2>3 DEF Joined
  <2>4. CASE j # i
    BY <1>1, <1>4, <2>1, <2>4 DEF AddsUp
  <2> QED
    BY <2>3, <2>4
<1>8. \A k \in s : \E j \in DOMAIN more : more[j].key = Identity(p[k])
  BY <1>1, <1>4, <1>5 DEF AddsUp
<1>9. ASSUME NEW child \in DOMAIN StudentCounts
      PROVE  SumFunction([j \in DOMAIN more |-> GivenTo(more[j], child)])
               = SumFunctionOnSet([k \in DOMAIN p |-> AskedFor(p[k], child)], s)
  <2> DEFINE f == [j \in DOMAIN ns |-> GivenTo(ns[j], child)]
             g == [j \in DOMAIN more |-> GivenTo(more[j], child)]
             S == 1..l
             a == [k \in DOMAIN p |-> AskedFor(p[k], child)]
  <2>1. /\ DOMAIN f = S /\ DOMAIN g = S /\ i \in S /\ IsFiniteSet(S)
        /\ \A j \in S \ {i} : f[j] = g[j]
    BY <1>1, <1>4, FS_Interval
  <2>2. \A j \in S : f[j] \in Int /\ g[j] \in Int
    <3> SUFFICES ASSUME NEW j \in S
                 PROVE  GivenTo(ns[j], child) \in Int /\ GivenTo(more[j], child) \in Int
      BY <1>1, <1>4
    <3>1. ns[j] \in NeedsOf(p) /\ more[j] \in NeedsOf(p)
      BY <1>1, <1>4
    <3> QED
      BY <3>1, GivenIsWhole
  <2>3. g[i] = f[i] + a[m]
    BY <1>1, <1>3, <1>4 DEF Joined, AskedFor, units
  <2>4. IsFiniteSet(s) /\ \A k \in s : a[k] \in Int
    <3>1. IsFiniteSet(DOMAIN p)
      <4>1. Len(p) \in Nat /\ DOMAIN p = 1..Len(p)
        BY DEF Summable
      <4> QED
        BY <4>1, FS_Interval
    <3>2. \A k \in DOMAIN p : AskedFor(p[k], child) \in Int
      BY UnitsAreWhole DEF AskedFor
    <3> QED
      BY <3>1, <3>2, FS_Subset
  <2>5. SumFunction(f) = SumFunctionOnSet(a, s \ {m})
    BY DEF AddsUp
  <2> HIDE DEF f, g, S, a
  <2>6. SumFunctionOnSet(g, S) = SumFunctionOnSet(f, S \ {i}) + g[i]
    BY <2>1, <2>2, SumChanged
  <2>7. SumFunctionOnSet(f, S) = f[i] + SumFunctionOnSet(f, S \ {i})
    BY <2>1, <2>2, SumOfOneMore
  <2>8. SumFunctionOnSet(a, s) = a[m] + SumFunctionOnSet(a, s \ {m})
    BY <2>4, SumOfOneMore
  <2>9. SumFunctionOnSet(f, S \ {i}) \in Int
    <3>1. IsFiniteSet(S \ {i})
      BY <2>1, FS_Subset
    <3> QED
      BY <3>1, <2>2, SumInt
  <2>10. a[m] \in Int /\ f[i] \in Int /\ g[i] \in Int
    BY <2>1, <2>2, <2>4
  <2>11. SumFunction(g) = SumFunctionOnSet(a, s)
    BY <2>1, <2>3, <2>5, <2>6, <2>7, <2>8, <2>9, <2>10 DEF SumFunction
  <2> QED
    BY <2>11 DEF g, a
<1>10. \A j \in DOMAIN more : more[j].quantity = SumFunction(more[j].allocatedTo)
  BY <1>1, <1>3, <1>4 DEF AddsUp, Joined
<1>11. AddsUp(more, p, s)
  BY <1>4, <1>6, <1>7, <1>8, <1>9, <1>10 DEF AddsUp
<1> QED
  BY <1>11 DEF more, new, units

\* Changing the last element that was appended is appending another.
LEMMA PutLast ==
  ASSUME NEW S, NEW s \in Seq(S), NEW a, NEW b
  PROVE  [Append(s, a) EXCEPT ![Len(s) + 1] = b] = Append(s, b)
<1> DEFINE T == S \cup {a, b}
           t == [Append(s, a) EXCEPT ![Len(s) + 1] = b]
<1>1. s \in Seq(T) /\ a \in T /\ b \in T
  BY SeqMonotonic
<1> HIDE DEF T
<1>2. Append(s, a) \in Seq(T) /\ Append(s, b) \in Seq(T) /\ Len(s) \in Nat
      /\ Len(Append(s, a)) = Len(s) + 1 /\ Len(Append(s, b)) = Len(s) + 1
  BY <1>1, AppendProperties
<1>3. t \in Seq(T) /\ Len(t) = Len(s) + 1
  BY <1>1, <1>2, ExceptSeq
<1>4. ASSUME NEW i \in 1..(Len(s) + 1) PROVE t[i] = Append(s, b)[i]
  <2>1. t[i] = IF i = Len(s) + 1 THEN b ELSE Append(s, a)[i]
    <3> DEFINE u == Append(s, a)
               l == Len(s) + 1
    <3>1. u \in Seq(T) /\ l \in 1..Len(u) /\ i \in 1..Len(u)
      BY <1>2
    <3> HIDE DEF u, l
    <3>2. [u EXCEPT ![l] = b][i] = IF i = l THEN b ELSE u[i]
      BY <3>1, <1>1, ExceptSeq
    <3> QED
      BY <3>2 DEF u, l
  <2>2. CASE i = Len(s) + 1
    BY <2>1, <2>2, <1>1, AppendProperties
  <2>3. CASE i # Len(s) + 1
    <3>1. i \in 1..Len(s)
      BY <2>3, <1>2
    <3>2. Append(s, a)[i] = s[i] /\ Append(s, b)[i] = s[i]
      BY <3>1, <1>1, AppendProperties
    <3> QED
      BY <2>1, <2>3, <3>2
  <2> QED
    BY <2>2, <2>3
<1> HIDE DEF t
<1>5. t = Append(s, b)
  BY <1>2, <1>3, <1>4, SeqEqual
<1> QED
  BY <1>5 DEF t

\* One line more keeps the needs the sum of the lines.
LEMMA LineAddsUp ==
  ASSUME NEW p, Summable(p), NEW s \in SUBSET (DOMAIN p), NEW m \in s,
         NEW ns, AddsUp(ns, p, s \ {m})
  PROVE  AddsUp(WithLine(ns, p[m], StudentCounts), p, s)
<1> DEFINE units == UnitsAsked(p[m], StudentCounts)
           same == {i \in DOMAIN ns : ns[i].key = Identity(p[m])}
<1>1. CASE same = {}
  <2> DEFINE none == NewNeed(p[m])
             more == Append(ns, none)
             l == Len(ns) + 1
  <2>1. AddsUp(more, p, s \ {m})
    BY <1>1, EmptyNeedAddsUp
  <2>2. l \in DOMAIN more /\ more[l] = none
    BY DEF AddsUp
  <2>3. more[l].key = Identity(p[m])
    BY <2>2, NewNeedIsEmpty
  <2>4. AddsUp([more EXCEPT ![l] = Add(p[m], units, more[l])], p, s)
    <3> HIDE DEF more, l
    <3> QED
      BY <2>1, <2>2, <2>3, JoinedNeedsAddUp
  <2>5. [more EXCEPT ![l] = Add(p[m], units, none)] = Append(ns, Add(p[m], units, none))
    <3>1. ns \in Seq(NeedsOf(p))
      BY DEF AddsUp
    <3> QED
      BY <3>1, PutLast
  <2>6. WithLine(ns, p[m], StudentCounts) = Append(ns, Add(p[m], units, none))
    BY <1>1 DEF WithLine
  <2> QED
    BY <2>2, <2>4, <2>5, <2>6
<1>2. CASE same # {}
  <2> DEFINE i == CHOOSE j \in same : TRUE
  <2>1. i \in same
    BY <1>2
  <2>2. WithLine(ns, p[m], StudentCounts) = [ns EXCEPT ![i] = Add(p[m], units, ns[i])]
    BY <1>2 DEF WithLine
  <2> HIDE DEF i
  <2> QED
    BY <2>1, <2>2, JoinedNeedsAddUp
<1> QED
  BY <1>1, <1>2

\* What each subset of the lines adds up to.
AddingUp(ns, p) ==
  ns = [s \in SUBSET (DOMAIN p) |->
          IF s = {} THEN <<>> ELSE WithLine(ns[s \ {Max(s)}], p[Max(s)], StudentCounts)]

\* One line more leaves a sequence of needs.
LEMMA WithLineIsNeeds ==
  ASSUME NEW p, Summable(p), NEW m \in DOMAIN p, NEW ns \in Seq(NeedsOf(p))
  PROVE  WithLine(ns, p[m], StudentCounts) \in Seq(NeedsOf(p))
<1> DEFINE units == UnitsAsked(p[m], StudentCounts)
           same == {i \in DOMAIN ns : ns[i].key = Identity(p[m])}
           none == NewNeed(p[m])
<1>1. units \in Int /\ none \in NeedsOf(p)
  BY UnitsAreWhole, NewNeedIsEmpty
<1>2. CASE same = {}
  <2>1. WithLine(ns, p[m], StudentCounts) = Append(ns, Add(p[m], units, none))
    BY <1>2 DEF WithLine
  <2>2. Add(p[m], units, none) \in NeedsOf(p)
    <3> HIDE DEF units, none
    <3> QED
      BY <1>1, LineJoins
  <2> QED
    BY <2>1, <2>2
<1>3. CASE same # {}
  <2> DEFINE i == CHOOSE j \in same : TRUE
  <2>1. i \in DOMAIN ns /\ ns[i] \in NeedsOf(p)
    BY <1>3
  <2>2. WithLine(ns, p[m], StudentCounts) = [ns EXCEPT ![i] = Add(p[m], units, ns[i])]
    BY <1>3 DEF WithLine
  <2> HIDE DEF i, units
  <2>3. Add(p[m], units, ns[i]) \in NeedsOf(p)
    BY <1>1, <2>1, LineJoins
  <2> QED
    BY <2>1, <2>2, <2>3
<1> QED
  BY <1>2, <1>3

\* Lines are added up one by one.
LEMMA AddingUpExists ==
  ASSUME NEW p, Summable(p)
  PROVE  \E ns : AddingUp(ns, p) /\ AggregateRequirements(p, StudentCounts) = ns[DOMAIN p]
<1> DEFINE n == Len(p)
           S == 1..n
           State == Seq(NeedsOf(p))
           step == [x \in State \X S |-> WithLine(x[1], p[x[2]], StudentCounts)]
           pick == Latest(n)
<1>1. n \in Nat /\ DOMAIN p = S /\ IsFiniteSet(S)
  <2>1. n \in Nat /\ DOMAIN p = S
    BY DEF Summable
  <2> QED
    BY <2>1, FS_Interval
<1>2. Picks(pick, S)
  BY <1>1, LatestPicks
<1>3. step \in [State \X S -> State]
  <2> SUFFICES ASSUME NEW ns \in State, NEW m \in S
               PROVE  WithLine(ns, p[m], StudentCounts) \in State
    OBVIOUS
  <2> QED
    BY <1>1, WithLineIsNeeds
<1>4. PICK h : Unfolds(step, <<>>, pick, S, h) /\ \A s \in SUBSET S : h[s] \in State
  <2> DEFINE base == <<>>
  <2>1. base \in State
    OBVIOUS
  <2> HIDE DEF State, step, pick, S, base
  <2> SUFFICES \E h : UnfoldsIn(State, step, base, pick, S, h)
    BY DEF base, UnfoldsIn
  <2> QED
    BY <1>1, <1>2, <1>3, <2>1, UnfoldsInto
<1>5. AddingUp(h, p)
  <2> SUFFICES ASSUME NEW s \in SUBSET S, s # {}
               PROVE  h[s] = WithLine(h[s \ {Max(s)}], p[Max(s)], StudentCounts)
    BY <1>1, <1>4 DEF Unfolds, AddingUp
  <2>1. pick[s] = Max(s) /\ Max(s) \in S
    BY <1>1, <1>2 DEF Picks, Latest
  <2>2. h[s] = step[<<h[s \ {Max(s)}], Max(s)>>]
    BY <1>4, <2>1 DEF Unfolds
  <2>3. h[s \ {Max(s)}] \in State
    BY <1>4
  <2> HIDE DEF State, S
  <2> QED
    BY <2>1, <2>2, <2>3
<1> DEFINE g == CHOOSE ns : AddingUp(ns, p)
<1>6. AddingUp(g, p)
  BY <1>5
<1>7. AggregateRequirements(p, StudentCounts) = g[DOMAIN p]
  BY DEF AggregateRequirements, FoldLeft, MapThenFoldSet, AddingUp
<1> QED
  BY <1>6, <1>7

\* The needs of the lists are what their lines add up to.
LEMMA NeedsAddUp ==
  ASSUME NEW p, Summable(p)
  PROVE  AddsUp(AggregateRequirements(p, StudentCounts), p, DOMAIN p)
<1> DEFINE n == Len(p)
           S == 1..n
           pick == Latest(n)
<1>1. n \in Nat /\ DOMAIN p = S /\ IsFiniteSet(S)
  <2>1. n \in Nat /\ DOMAIN p = S
    BY DEF Summable
  <2> QED
    BY <2>1, FS_Interval
<1>2. Picks(pick, S) /\ \A s \in SUBSET S : s # {} => pick[s] = Max(s)
  BY <1>1, LatestPicks DEF Latest
<1>3. PICK h : AddingUp(h, p) /\ AggregateRequirements(p, StudentCounts) = h[S]
  BY <1>1, AddingUpExists
<1> DEFINE H == {s \in SUBSET S : AddsUp(h[s], p, s)}
<1>4. {} \in H
  <2> DEFINE none == <<>>
  <2>1. h[{}] = none
    BY <1>1, <1>3 DEF AddingUp
  <2>2. none \in Seq(NeedsOf(p)) /\ DOMAIN none = {}
    OBVIOUS
  <2>3. ASSUME NEW child \in DOMAIN StudentCounts
        PROVE  SumFunction([i \in DOMAIN none |-> GivenTo(none[i], child)])
                 = SumFunctionOnSet([k \in DOMAIN p |-> AskedFor(p[k], child)], {})
    <3> DEFINE f == [i \in DOMAIN none |-> GivenTo(none[i], child)]
               g == [k \in DOMAIN p |-> AskedFor(p[k], child)]
    <3>1. DOMAIN f = {}
      BY <2>2
    <3> HIDE DEF f, g
    <3>2. SumFunction(f) = SumFunctionOnSet(g, {})
      BY <3>1, SumOfNone DEF SumFunction
    <3> QED
      BY <3>2 DEF f, g
  <2> HIDE DEF none
  <2>4. AddsUp(none, p, {})
    BY <2>2, <2>3 DEF AddsUp
  <2> QED
    BY <2>1, <2>4
<1>5. ASSUME NEW s \in SUBSET S, s # {}, s \ {pick[s]} \in H PROVE s \in H
  <2>1. h[s] = WithLine(h[s \ {pick[s]}], p[pick[s]], StudentCounts) /\ pick[s] \in s
    BY <1>1, <1>2, <1>3, <1>5 DEF AddingUp, Picks
  <2>2. AddsUp(h[s \ {pick[s]}], p, s \ {pick[s]})
    BY <1>5
  <2> HIDE DEF S, pick
  <2>3. AddsUp(h[s], p, s)
    BY <1>1, <2>1, <2>2, LineAddsUp
  <2> QED
    BY <2>3
<1>6. \A s \in SUBSET S : s \in H
  <2>1. H \subseteq SUBSET S /\ IsFiniteSet(S) /\ Picks(pick, S)
    BY <1>1, <1>2
  <2> HIDE DEF H, S, pick
  <2> QED
    BY <2>1, <1>4, <1>5, OneByOne
<1> QED
  BY <1>1, <1>3, <1>6

-----------------------------------------------------------------------------
(* The inductive invariant *)

\* The needs are what the lists add up to, as soon as there are any.
SummedUp ==
  /\ lists \in Lists
  /\ \/ needs = AggregateRequirements(Purchasable, StudentCounts)
     \/ needs = <<>> /\ cases = {} /\ stage \in {"lists", "failed"}

\* Each need with a case is in one batch.
Dealt ==
  /\ cases \subseteq PrefilterCases(needs)
  /\ IsFiniteSet(Batches)
  /\ UNION {batchNeeds[b] : b \in Batches} = {c[1] : c \in cases}
  /\ \A a, b \in Batches : a # b => batchNeeds[a] \cap batchNeeds[b] = {}

\* An answer is about the pairs of its batch.
Asked ==
  /\ DOMAIN batch = Batches /\ DOMAIN answers = Batches
  /\ \A b \in Batches : /\ batch[b] \in {"calling", "retrying", "answered", "raised"}
                         /\ DOMAIN answers[b] \subseteq BatchCases(b)

\* The judgments are exactly the answers that have been collected.
Collected ==
  /\ \A b \in gathered : b \in Batches /\ batch[b] = "answered"
  /\ \A c \in DOMAIN decisions : \E b \in gathered : c \in DOMAIN answers[b]
  /\ \A b \in gathered : \A c \in DOMAIN answers[b] :
       c \in DOMAIN decisions /\ decisions[c] = answers[b][c]
  /\ shown = NeedsDone(gathered)

Staged ==
  /\ stage \in {"lists", "split", "judging", "leaving", "matched", "failed"}
  /\ stage \in {"lists", "split"} => cases = {} /\ gathered = {} /\ decisions = <<>> /\ shown = 0
  /\ stage = "matched" => gathered = Batches

MatchInv == SummedUp /\ Dealt /\ Asked /\ Collected /\ Staged

\* The smaller of two numbers is one of them.
LEMMA LeastOfTwo ==
  ASSUME NEW m \in Nat, NEW n \in Nat
  PROVE  Min({m, n}) \in {m, n} /\ Min({m, n}) <= m /\ Min({m, n}) <= n
<1>1. \E x \in {m, n} : \A y \in {m, n} : x <= y
  OBVIOUS
<1> QED
  BY <1>1 DEF Min

\* Dealing puts each need with a case into one batch.
LEMMA DealtOnce ==
  ASSUME NEW pairs, NEW l \in Nat, \A c \in pairs : c[1] \in 1..l
  PROVE  /\ IsFiniteSet(DOMAIN DealNeeds(pairs))
         /\ UNION {DealNeeds(pairs)[b] : b \in DOMAIN DealNeeds(pairs)} = {c[1] : c \in pairs}
         /\ \A a, b \in DOMAIN DealNeeds(pairs) :
              a # b => DealNeeds(pairs)[a] \cap DealNeeds(pairs)[b] = {}
<1> DEFINE groups == {c[1] : c \in pairs}
           position(n) == Cardinality({m \in groups : m < n})
           count == Min({Cardinality(groups), MODEL_MAX_CONCURRENCY})
           dealt == [b \in 1..count |-> {n \in groups : position(n) % count = b - 1}]
<1>1. dealt = DealNeeds(pairs)
  BY DEF DealNeeds
<1>2. groups \subseteq 1..l /\ IsFiniteSet(1..l)
  BY FS_Interval
<1> HIDE DEF groups
<1>3. IsFiniteSet(groups) /\ Cardinality(groups) \in Nat
  BY <1>2, FS_Subset, FS_CardinalityType
<1>4. MODEL_MAX_CONCURRENCY \in Nat /\ MODEL_MAX_CONCURRENCY > 0
  BY MatchingConstants
<1>5. count \in Nat /\ (groups # {} => count > 0)
  <2>1. groups # {} => Cardinality(groups) # 0
    BY <1>3, FS_EmptySet
  <2> QED
    BY <1>3, <1>4, <2>1, LeastOfTwo
<1>6. ASSUME NEW n \in groups PROVE position(n) \in Nat
  <2>1. IsFiniteSet({m \in groups : m < n})
    BY <1>3, FS_Subset
  <2> QED
    BY <2>1, FS_CardinalityType
<1> HIDE DEF count, position
<1>7. ASSUME NEW n \in groups
      PROVE  (position(n) % count) + 1 \in 1..count /\ n \in dealt[(position(n) % count) + 1]
  <2>1. position(n) % count \in 0..(count - 1)
    BY <1>5, <1>6
  <2> QED
    BY <1>5, <2>1
<1>8. DOMAIN dealt = 1..count /\ \A b \in 1..count : dealt[b] \subseteq groups
  OBVIOUS
<1>9. UNION {dealt[b] : b \in DOMAIN dealt} = groups
  BY <1>7, <1>8
<1>10. \A a, b \in DOMAIN dealt : a # b => dealt[a] \cap dealt[b] = {}
  <2> SUFFICES ASSUME NEW a \in 1..count, NEW b \in 1..count,
                      NEW n \in dealt[a], n \in dealt[b]
               PROVE  a = b
    BY <1>8
  <2> QED
    BY <1>5
<1>11. IsFiniteSet(DOMAIN dealt)
  BY <1>5, <1>8, FS_Interval
<1> HIDE DEF dealt
<1> QED
  BY <1>1, <1>9, <1>10, <1>11 DEF groups

\* The needs are a sequence of what the lists may come to.
LEMMA NeedsAreNeeds ==
  ASSUME SummedUp
  PROVE  /\ needs \in Seq(NeedsOf(Purchasable))
         /\ Len(needs) \in Nat /\ DOMAIN needs = 1..Len(needs)
<1>1. Summable(Purchasable)
  BY PurchasablesAreSummable DEF SummedUp, Purchasable
<1>2. needs \in Seq(NeedsOf(Purchasable))
  <2>1. CASE needs = AggregateRequirements(Purchasable, StudentCounts)
    BY <1>1, <2>1, NeedsAddUp DEF AddsUp
  <2>2. CASE needs = <<>>
    BY <2>2
  <2> QED
    BY <2>1, <2>2 DEF SummedUp
<1> QED
  BY <1>2

\* Nothing is known of the lists before matching begins.
LEMMA MatchInvInit == Init => MatchInv
<1> SUFFICES ASSUME Init PROVE MatchInv
  OBVIOUS
<1> USE DEF Init
<1>1. SummedUp
  BY DEF SummedUp
<1>2. Batches = {} /\ IsFiniteSet(Batches)
  <2>1. Batches = {}
    BY DEF Batches
  <2> QED
    BY <2>1, FS_EmptySet
<1>3. Dealt
  BY <1>2 DEF Dealt
<1>4. Asked
  BY <1>2 DEF Asked, Batches
<1>5. NeedsDone({}) = 0
  BY FS_EmptySet DEF NeedsDone
<1>6. Collected
  BY <1>5 DEF Collected
<1>7. Staged
  BY DEF Staged
<1> QED
  BY <1>1, <1>3, <1>4, <1>6, <1>7 DEF MatchInv

\* A batch whose call goes on leaves everything but itself as it is.
LEMMA CallStep ==
  ASSUME MatchInv, NEW b \in Batches, Calling(b), ModelCall(b)
  PROVE  MatchInv'
<1>1. /\ UNCHANGED <<stage, work, gathered, decisions, shown>>
      /\ DOMAIN batch' = Batches /\ DOMAIN answers' = Batches
      /\ batch'[b] \in {"retrying", "answered", "raised"}
      /\ DOMAIN answers'[b] \subseteq BatchCases(b)
      /\ \A d \in Batches : d # b => batch'[d] = batch[d] /\ answers'[d] = answers[d]
  <2>1. CASE ModelAnswers(b)
    BY <2>1 DEF ModelAnswers, MatchInv, Asked
  <2>2. CASE AnswerIsInvalid(b)
    BY <2>2 DEF AnswerIsInvalid, MatchInv, Asked, Calling
  <2>3. CASE CallFails(b)
    BY <2>3 DEF CallFails, MatchInv, Asked
  <2> QED
    BY <2>1, <2>2, <2>3 DEF ModelCall
<1>2. UNCHANGED <<lists, needs, cases, batchNeeds, stage, gathered, decisions, shown>>
  BY <1>1 DEF work
<1>3. Batches' = Batches /\ (\A d : BatchCases(d)' = BatchCases(d)) /\ Purchasable' = Purchasable
  BY <1>2 DEF Batches, BatchCases, Purchasable
<1>4. b \notin gathered
  BY DEF MatchInv, Collected, Calling
<1>5. SummedUp' /\ Dealt' /\ Staged'
  BY <1>2, <1>3 DEF MatchInv, SummedUp, Dealt, Staged, Batches, Purchasable, PrefilterCases
<1>6. Asked'
  BY <1>1, <1>3 DEF MatchInv, Asked
<1>7. Collected'
  <2>1. \A d \in gathered : d \in Batches /\ d # b
    BY <1>4 DEF MatchInv, Collected
  <2>2. \A d \in gathered : batch'[d] = batch[d] /\ answers'[d] = answers[d]
    BY <1>1, <2>1
  <2>3. NeedsDone(gathered)' = NeedsDone(gathered)
    BY <1>2 DEF NeedsDone
  <2> QED
    BY <1>2, <1>3, <2>2, <2>3 DEF MatchInv, Collected
<1> QED
  BY <1>5, <1>6, <1>7 DEF MatchInv

\* The judge deals the cases and has no answer yet.
LEMMA JudgeStep == MatchInv /\ Judge => MatchInv'
<1> SUFFICES ASSUME MatchInv, Judge PROVE MatchInv'
  OBVIOUS
<1>1. /\ stage = "split" /\ cases' = PrefilterCases(needs)
      /\ stage' \in {"matched", "judging"} /\ (stage' = "matched" <=> cases' = {})
      /\ batchNeeds' = DealNeeds(cases')
      /\ batch' = [b \in DOMAIN batchNeeds' |-> "calling"]
      /\ answers' = [b \in DOMAIN batchNeeds' |-> <<>>]
      /\ UNCHANGED <<lists, needs, gathered, decisions, shown>>
  BY DEF Judge
<1>2. cases = {} /\ gathered = {} /\ decisions = <<>> /\ shown = 0
  BY <1>1 DEF MatchInv, Staged
<1>3. SummedUp'
  BY <1>1 DEF MatchInv, SummedUp, Purchasable
<1>4. Len(needs) \in Nat /\ DOMAIN needs = 1..Len(needs)
  BY NeedsAreNeeds DEF MatchInv
<1>5. \A c \in cases' : c[1] \in 1..Len(needs)
  BY <1>1, <1>4 DEF PrefilterCases
<1>6. /\ IsFiniteSet(DOMAIN batchNeeds')
      /\ UNION {batchNeeds'[b] : b \in DOMAIN batchNeeds'} = {c[1] : c \in cases'}
      /\ \A a, b \in DOMAIN batchNeeds' : a # b => batchNeeds'[a] \cap batchNeeds'[b] = {}
  <2> DEFINE pairs == cases'
             l == Len(needs)
  <2>1. l \in Nat /\ \A c \in pairs : c[1] \in 1..l
    BY <1>4, <1>5
  <2>2. batchNeeds' = DealNeeds(pairs)
    BY <1>1
  <2> HIDE DEF pairs, l
  <2>3. /\ IsFiniteSet(DOMAIN DealNeeds(pairs))
        /\ UNION {DealNeeds(pairs)[b] : b \in DOMAIN DealNeeds(pairs)} = {c[1] : c \in pairs}
        /\ \A a, b \in DOMAIN DealNeeds(pairs) :
             a # b => DealNeeds(pairs)[a] \cap DealNeeds(pairs)[b] = {}
    BY <2>1, DealtOnce
  <2> QED
    BY <2>2, <2>3 DEF pairs
<1>7. Dealt'
  BY <1>1, <1>6 DEF Dealt, Batches, PrefilterCases
<1>8. Asked'
  BY <1>1 DEF Asked, Batches, BatchCases
<1>9. Collected'
  <2>1. NeedsDone(gathered)' = 0
    BY <1>1, <1>2, FS_EmptySet DEF NeedsDone
  <2> QED
    BY <1>1, <1>2, <2>1 DEF Collected
<1>10. Staged'
  <2>1. stage' = "matched" => Batches' = {}
    <3> SUFFICES ASSUME cases' = {} PROVE Batches' = {}
      BY <1>1
    <3>1. batchNeeds' = DealNeeds({})
      BY <1>1
    <3>2. DOMAIN DealNeeds({}) = 1..Min({Cardinality({}), MODEL_MAX_CONCURRENCY})
      <4>1. {c[1] : c \in {}} = {}
        OBVIOUS
      <4> QED
        BY <4>1 DEF DealNeeds
    <3>3. Min({0, MODEL_MAX_CONCURRENCY}) = 0
      <4>1. MODEL_MAX_CONCURRENCY \in Nat
        BY MatchingConstants
      <4> QED
        BY <4>1, LeastOfTwo
    <3>4. Cardinality({}) = 0
      BY FS_EmptySet
    <3>5. DOMAIN DealNeeds({}) = 1..0
      BY <3>2, <3>3, <3>4
    <3> QED
      BY <3>1, <3>5 DEF Batches
  <2> QED
    BY <1>1, <1>2, <2>1 DEF Staged
<1> QED
  BY <1>3, <1>7, <1>8, <1>9, <1>10 DEF MatchInv

\* Collecting the answers of a batch does not touch those of another.
LEMMA GatherStep ==
  ASSUME MatchInv, NEW b \in Batches, Gather(b)
  PROVE  MatchInv'
<1>1. /\ stage = "judging" /\ b \notin gathered /\ batch[b] = "answered"
      /\ gathered' = gathered \cup {b}
      /\ decisions' = With(decisions, answers[b])
      /\ shown' = NeedsDone(gathered')
      /\ stage' = IF gathered' = Batches THEN "matched" ELSE stage
      /\ UNCHANGED <<lists, needs, cases, batchNeeds, batch, answers>>
  BY DEF Gather, work
<1>2. Batches' = Batches /\ (\A d : BatchCases(d)' = BatchCases(d)) /\ Purchasable' = Purchasable
  BY <1>1 DEF Batches, BatchCases, Purchasable
<1>3. SummedUp' /\ Dealt' /\ Asked'
  BY <1>1, <1>2 DEF MatchInv, SummedUp, Dealt, Asked, Batches, Purchasable, PrefilterCases
<1>4. /\ DOMAIN decisions' = (DOMAIN decisions) \cup (DOMAIN answers[b])
      /\ \A c \in DOMAIN answers[b] : decisions'[c] = answers[b][c]
      /\ \A c \in DOMAIN decisions : c \notin DOMAIN answers[b] => decisions'[c] = decisions[c]
  BY <1>1 DEF With
<1>5. ASSUME NEW d \in gathered, NEW c \in DOMAIN answers[d] PROVE c \notin DOMAIN answers[b]
  <2>1. d \in Batches /\ d # b
    BY <1>1 DEF MatchInv, Collected
  <2>2. c[1] \in batchNeeds[d] /\ (c \in DOMAIN answers[b] => c[1] \in batchNeeds[b])
    BY <2>1 DEF MatchInv, Asked, BatchCases
  <2>3. batchNeeds[d] \cap batchNeeds[b] = {}
    BY <2>1 DEF MatchInv, Dealt
  <2> QED
    BY <2>2, <2>3
<1>6. Collected'
  <2>1. \A d \in gathered' : d \in Batches /\ batch[d] = "answered"
    BY <1>1 DEF MatchInv, Collected
  <2>2. \A c \in DOMAIN decisions' : \E d \in gathered' : c \in DOMAIN answers[d]
    BY <1>1, <1>4 DEF MatchInv, Collected
  <2>3. \A d \in gathered' : \A c \in DOMAIN answers[d] :
          c \in DOMAIN decisions' /\ decisions'[c] = answers[d][c]
    BY <1>1, <1>4, <1>5 DEF MatchInv, Collected
  <2>4. NeedsDone(gathered)' = NeedsDone(gathered')
    BY <1>1 DEF NeedsDone
  <2> QED
    BY <1>1, <1>2, <2>1, <2>2, <2>3, <2>4 DEF Collected
<1>7. Staged'
  BY <1>1, <1>2 DEF Staged
<1> QED
  BY <1>3, <1>6, <1>7 DEF MatchInv

\* Each step keeps the invariant.
LEMMA MatchInvStep == MatchInv /\ [Next]_vars => MatchInv'
<1> SUFFICES ASSUME MatchInv, [Next]_vars PROVE MatchInv'
  OBVIOUS
<1>1. CASE AddUpLists
  <2>1. /\ stage = "lists"
        /\ \/ stage' = "failed" /\ needs' = needs
           \/ stage' = "split" /\ needs' = AggregateRequirements(Purchasable, StudentCounts)
        /\ UNCHANGED <<lists, cases, batchNeeds, batch, answers, gathered, decisions, shown>>
    BY <1>1 DEF AddUpLists, Purchasable
  <2>2. cases = {} /\ gathered = {} /\ decisions = <<>> /\ shown = 0
    BY <2>1 DEF MatchInv, Staged
  <2>3. Batches' = Batches /\ (\A d : BatchCases(d)' = BatchCases(d)) /\ Purchasable' = Purchasable
    BY <2>1 DEF Batches, BatchCases, Purchasable
  <2>4. SummedUp'
    BY <2>1, <2>2, <2>3 DEF MatchInv, SummedUp
  <2>5. Dealt' /\ Asked'
    BY <2>1, <2>2, <2>3 DEF MatchInv, Dealt, Asked, Batches
  <2>6. Collected'
    <3>1. NeedsDone(gathered)' = NeedsDone(gathered)
      BY <2>1 DEF NeedsDone
    <3> QED
      BY <2>1, <2>3, <3>1 DEF MatchInv, Collected
  <2>7. Staged'
    BY <2>1, <2>2, <2>3 DEF Staged
  <2> QED
    BY <2>4, <2>5, <2>6, <2>7 DEF MatchInv
<1>2. CASE Judge
  BY <1>2, JudgeStep
<1>3. ASSUME NEW b \in Batches, Gather(b) PROVE MatchInv'
  BY <1>3, GatherStep
<1>4. ASSUME UNCHANGED <<work, batch, answers, gathered, decisions, shown>>,
             \/ UNCHANGED stage
             \/ stage \in {"judging", "leaving"} /\ stage' \in {"leaving", "failed"}
      PROVE  MatchInv'
  <2>1. UNCHANGED <<lists, needs, cases, batchNeeds, batch, answers, gathered, decisions, shown>>
    BY <1>4 DEF work
  <2>2. Batches' = Batches /\ (\A d : BatchCases(d)' = BatchCases(d)) /\ Purchasable' = Purchasable
    BY <2>1 DEF Batches, BatchCases, Purchasable
  <2>3. SummedUp'
    BY <1>4, <2>1, <2>2 DEF MatchInv, SummedUp
  <2>4. Dealt' /\ Asked'
    BY <2>1, <2>2 DEF MatchInv, Dealt, Asked, Batches, PrefilterCases
  <2>5. Collected'
    <3>1. NeedsDone(gathered)' = NeedsDone(gathered)
      BY <2>1 DEF NeedsDone
    <3> QED
      BY <2>1, <2>2, <3>1 DEF MatchInv, Collected
  <2>6. Staged'
    BY <1>4, <2>1, <2>2 DEF MatchInv, Staged
  <2> QED
    BY <2>3, <2>4, <2>5, <2>6 DEF MatchInv
<1>5. ASSUME NEW b \in Batches, GatherError(b) PROVE MatchInv'
  BY <1>4, <1>5 DEF GatherError
<1>6. CASE LeavePool
  BY <1>4, <1>6 DEF LeavePool
<1>7. ASSUME NEW b \in Batches, ModelCall(b) PROVE MatchInv'
  <2>1. Calling(b)
    BY <1>7 DEF ModelCall, ModelAnswers, AnswerIsInvalid, CallFails
  <2> QED
    BY <1>7, <2>1, CallStep
<1>8. CASE Done \/ UNCHANGED vars
  BY <1>4, <1>8 DEF Done, vars
<1> QED
  BY <1>1, <1>2, <1>3, <1>5, <1>6, <1>7, <1>8 DEF Next, MainThread

\* The invariant holds in every state of matching.
LEMMA MatchInvariant == Spec => []MatchInv
<1>1. Init => MatchInv
  BY MatchInvInit
<1>2. MatchInv /\ [Next]_vars => MatchInv'
  BY MatchInvStep
<1> QED
  BY <1>1, <1>2, PTL DEF Spec

-----------------------------------------------------------------------------
(* What follows for what is bought *)

\* A case is a pair, and passed the rules.
LEMMA CasesServe ==
  ASSUME MatchInv, NEW c \in cases
  PROVE  c = <<c[1], c[2]>> /\ MayServe(needs[c[1]], Offers[c[2]])
BY DEF MatchInv, Dealt, PrefilterCases

\* A candidate passed the rules and was judged suitable with confidence.
LEMMA CandidatesAreCases ==
  ASSUME MatchInv, NEW i, NEW o \in Candidates(i)
  PROVE  /\ <<i, o>> \in cases /\ <<i, o>> \in DOMAIN decisions
         /\ decisions[<<i, o>>].suitable
         /\ decisions[<<i, o>>].confidence >= CONFIDENCE_FLOOR
<1>1. PICK c \in cases : c[1] = i /\ c[2] = o /\ Judgment(c).suitable
  BY DEF Candidates, Suitable
<1>2. c = <<i, o>>
  BY <1>1, CasesServe
<1>3. Judgment(<<i, o>>).confidence >= CONFIDENCE_FLOOR
  BY DEF Candidates
<1>4. <<i, o>> \in DOMAIN decisions
  <2> SUFFICES ASSUME <<i, o>> \notin DOMAIN decisions PROVE FALSE
    OBVIOUS
  <2>1. Judgment(<<i, o>>) = [suitable |-> TRUE, confidence |-> 0]
    BY DEF Judgment, MINIMUM_MATCH_CONFIDENCE
  <2>2. Judgment(<<i, o>>).confidence = 0
    BY <2>1
  <2> QED
    BY <1>3, <2>2 DEF CONFIDENCE_FLOOR
<1>5. Judgment(<<i, o>>) = decisions[<<i, o>>]
  BY <1>4 DEF Judgment
<1> QED
  BY <1>1, <1>2, <1>3, <1>4, <1>5

\* Nothing is bought that the model did not find suitable with confidence,
\* whichever batches of match.py fail, stay silent on a pair or end late.
THEOREM BoughtIsJudged == Spec => []UnjudgedIsNeverBought
<1>1. MatchInv => UnjudgedIsNeverBought
  <2> SUFFICES ASSUME MatchInv, NEW i \in DOMAIN needs, NEW o \in OptimizationCandidates(i)
               PROVE  \E b \in gathered :
                        /\ <<i, o>> \in DOMAIN answers[b]
                        /\ answers[b][<<i, o>>].suitable
                        /\ answers[b][<<i, o>>].confidence >= CONFIDENCE_FLOOR
    BY DEF UnjudgedIsNeverBought
  <2>1. o \in Candidates(i)
    BY DEF OptimizationCandidates
  <2>2. /\ <<i, o>> \in DOMAIN decisions /\ decisions[<<i, o>>].suitable
        /\ decisions[<<i, o>>].confidence >= CONFIDENCE_FLOOR
    BY <2>1, CandidatesAreCases
  <2>3. PICK b \in gathered : <<i, o>> \in DOMAIN answers[b]
    BY <2>2 DEF MatchInv, Collected
  <2>4. decisions[<<i, o>>] = answers[b][<<i, o>>]
    BY <2>3 DEF MatchInv, Collected
  <2> QED
    BY <2>2, <2>3, <2>4
<1> QED
  BY <1>1, MatchInvariant, PTL

\* A need becomes a gap only when the rules or a judgment leave nothing: a
\* batch without an answer, or silent on a pair, sends it to the parent.
THEOREM GapsAreJudged == Spec => []SilenceIsNoRefusal
<1>1. MatchInv => SilenceIsNoRefusal
  <2> SUFFICES ASSUME MatchInv, NEW i \in DOMAIN needs, Unfulfillable(i),
                      NEW c \in cases, c[1] = i
               PROVE  \E b \in gathered : c \in DOMAIN answers[b] /\ ~answers[b][c].suitable
    BY DEF SilenceIsNoRefusal
  <2>1. Suitable(i) = {}
    BY DEF Unfulfillable, ReviewBlocked
  <2>2. ~Judgment(c).suitable
    BY <2>1 DEF Suitable
  <2>3. c \in DOMAIN decisions
    <3> SUFFICES ASSUME c \notin DOMAIN decisions PROVE FALSE
      OBVIOUS
    <3>1. Judgment(c) = [suitable |-> TRUE, confidence |-> MINIMUM_MATCH_CONFIDENCE]
      BY DEF Judgment
    <3> QED
      BY <2>2, <3>1
  <2>4. Judgment(c) = decisions[c]
    BY <2>3 DEF Judgment
  <2>5. PICK b \in gathered : c \in DOMAIN answers[b]
    BY <2>3 DEF MatchInv, Collected
  <2>6. decisions[c] = answers[b][c]
    BY <2>5 DEF MatchInv, Collected
  <2> QED
    BY <2>2, <2>4, <2>5, <2>6
<1> QED
  BY <1>1, MatchInvariant, PTL

\* Once matching has begun, the needs are what the lists add up to.
LEMMA NeedsAreSums ==
  ASSUME MatchInv, stage \in {"split", "judging", "matched"}
  PROVE  Summable(Purchasable) /\ AddsUp(needs, Purchasable, DOMAIN Purchasable)
<1>1. Summable(Purchasable)
  BY PurchasablesAreSummable DEF MatchInv, SummedUp, Purchasable
<1>2. needs = AggregateRequirements(Purchasable, StudentCounts)
  BY DEF MatchInv, SummedUp
<1> QED
  BY <1>1, <1>2, NeedsAddUp

\* Rolling lines up never loosens one: what will do for a need has the brand
\* of each of its lines and nothing that any of them rules out, but for what
\* aggregate.py takes as implied by the item.
THEOREM LinesAreHonoured == Spec => []EveryLineIsHonoured
<1>1. MatchInv => EveryLineIsHonoured
  <2> SUFFICES ASSUME MatchInv, stage = "matched", NEW i \in DOMAIN needs,
                      NEW o \in Candidates(i), NEW k \in SourcesOf(i)
               PROVE  /\ Purchasable[k].source.brand \in {None, Offers[o].brand}
                      /\ \A e \in Purchasable[k].source.exclusions :
                           e \cap Implied(Purchasable[k].source.item) = {}
                             => (e \ ExclusionNoiseWords) \cap Offers[o].words = {}
    BY DEF EveryLineIsHonoured
  <2> DEFINE n == Purchasable[k]
  <2>1. AddsUp(needs, Purchasable, DOMAIN Purchasable)
    BY NeedsAreSums
  <2>2. k \in DOMAIN Purchasable /\ Identity(n) = needs[i].key
    BY <2>1 DEF SourcesOf, AddsUp
  <2>3. needs[i].brand = needs[i].key.brand /\ needs[i].exclusions = needs[i].key.exclusions
    <3>1. needs[i] \in NeedsOf(Purchasable)
      BY <2>1 DEF AddsUp
    <3> QED
      BY <3>1, NeedTypes
  <2>4. needs[i].brand = n.source.brand /\ needs[i].exclusions = EffectiveExclusions(n.source)
    BY <2>2, <2>3 DEF Identity
  <2>5. MayServe(needs[i], Offers[o])
    <3>1. <<i, o>> \in cases
      BY CandidatesAreCases
    <3> QED
      BY <3>1, CasesServe
  <2> HIDE DEF n
  <2>6. n.source.brand \in {None, Offers[o].brand}
    BY <2>4, <2>5 DEF MayServe
  <2>7. ASSUME NEW e \in n.source.exclusions, e \cap Implied(n.source.item) = {}
        PROVE  (e \ ExclusionNoiseWords) \cap Offers[o].words = {}
    <3>1. e \in needs[i].exclusions
      BY <2>4, <2>7 DEF EffectiveExclusions
    <3> QED
      BY <2>5, <3>1 DEF MayServe, ViolatesExclusion
  <2> QED
    BY <2>6, <2>7 DEF n
<1> QED
  BY <1>1, MatchInvariant, PTL

\* Each line is bought in exactly one need, and each child gets the units its
\* lines ask for, for every student unless the class shares them.
THEOREM UnitsReachNeeds == Spec => []EveryUnitReachesANeed
<1>1. MatchInv => EveryUnitReachesANeed
  <2> SUFFICES ASSUME MatchInv, stage \in {"split", "judging", "matched"}
               PROVE  EveryUnitReachesANeed
    BY DEF EveryUnitReachesANeed
  <2> DEFINE p == Purchasable
             students(n) == IF n.source.scope = "shared" THEN 1
                            ELSE StudentCounts[n.source.child]
             asked(child) == [k \in DOMAIN p |-> IF p[k].source.child = child
                                                 THEN p[k].quantity * students(p[k]) ELSE 0]
             given(child) == [i \in DOMAIN needs |-> IF child \in DOMAIN needs[i].allocatedTo
                                                     THEN needs[i].allocatedTo[child] ELSE 0]
  <2>1. Summable(p) /\ AddsUp(needs, p, DOMAIN p)
    BY NeedsAreSums
  <2>2. ASSUME NEW k \in DOMAIN p
        PROVE  Quantify(DOMAIN needs, LAMBDA i : k \in SourcesOf(i)) = 1
    <3>1. PICK i \in DOMAIN needs : needs[i].key = Identity(p[k])
      BY <2>1 DEF AddsUp
    <3>2. \A j \in DOMAIN needs : k \in SourcesOf(j) <=> Identity(p[k]) = needs[j].key
      BY <2>1 DEF SourcesOf, AddsUp
    <3>3. \A j \in DOMAIN needs : k \in SourcesOf(j) <=> j = i
      BY <2>1, <3>1, <3>2 DEF AddsUp
    <3>4. {j \in DOMAIN needs : k \in SourcesOf(j)} = {i}
      BY <3>3
    <3>5. Cardinality({i}) = 1
      BY FS_Singleton
    <3> QED
      BY <3>4, <3>5 DEF Quantify
  <2>3. ASSUME NEW child \in DOMAIN StudentCounts
        PROVE  SumFunction(asked(child)) = SumFunction(given(child))
    <3>1. given(child) = [i \in DOMAIN needs |-> GivenTo(needs[i], child)]
      BY DEF GivenTo
    <3>2. asked(child) = [k \in DOMAIN p |-> AskedFor(p[k], child)]
      <4> SUFFICES ASSUME NEW k \in DOMAIN p, p[k].source.child = child
                   PROVE  p[k].quantity * students(p[k]) = UnitsAsked(p[k], StudentCounts)
        BY DEF AskedFor
      <4>1. p[k].quantity \in Int
        BY <2>1 DEF Summable
      <4> QED
        BY <4>1 DEF UnitsAsked
    <3> DEFINE a == asked(child)
               g == given(child)
    <3>3. DOMAIN a = DOMAIN p
      OBVIOUS
    <3>4. SumFunction(g) = SumFunctionOnSet(a, DOMAIN p)
      <4> HIDE DEF asked, given
      <4> QED
        BY <2>1, <3>1, <3>2 DEF AddsUp
    <3> QED
      BY <3>3, <3>4 DEF SumFunction
  <2>4. \A i \in DOMAIN needs : needs[i].quantity = SumFunction(needs[i].allocatedTo)
    BY <2>1 DEF AddsUp
  <2> QED
    BY <2>2, <2>3, <2>4 DEF EveryUnitReachesANeed
<1> QED
  BY <1>1, MatchInvariant, PTL

\* How many needs have been answered, of a set of batches.
LEMMA FewerDone ==
  ASSUME MatchInv, NEW A, NEW B, A \subseteq B, B \subseteq Batches
  PROVE  /\ NeedsDone(A) \in Nat /\ NeedsDone(B) \in Nat /\ NeedsDone(A) <= NeedsDone(B)
         /\ NeedsDone(B) <= Len(needs)
<1>1. Len(needs) \in Nat /\ DOMAIN needs = 1..Len(needs)
  BY NeedsAreNeeds DEF MatchInv
<1>2. UNION {batchNeeds[b] : b \in Batches} \subseteq 1..Len(needs)
  BY <1>1 DEF MatchInv, Dealt, PrefilterCases
<1> DEFINE a == UNION {batchNeeds[b] : b \in A}
           b == UNION {batchNeeds[d] : d \in B}
           S == 1..Len(needs)
<1>3. a \subseteq b /\ b \subseteq S /\ IsFiniteSet(S) /\ Cardinality(S) = Len(needs)
  BY <1>1, <1>2, FS_Interval
<1> HIDE DEF a, b, S
<1>4. IsFiniteSet(a) /\ IsFiniteSet(b) /\ Cardinality(a) <= Cardinality(b)
      /\ Cardinality(b) <= Cardinality(S)
  BY <1>3, FS_Subset
<1>5. Cardinality(a) \in Nat /\ Cardinality(b) \in Nat
  BY <1>4, FS_CardinalityType
<1> QED
  BY <1>1, <1>3, <1>4, <1>5 DEF NeedsDone, a, b

\* Matching keeps its types, and counts no more needs than there are.
THEOREM MatchingTypes == Spec => []TypeOK
<1>1. MatchInv => TypeOK
  <2> SUFFICES ASSUME MatchInv PROVE TypeOK
    OBVIOUS
  <2>1. gathered \subseteq Batches /\ shown = NeedsDone(gathered)
    BY DEF MatchInv, Collected
  <2>2. shown \in 0..Len(needs)
    <3>1. Len(needs) \in Nat
      BY NeedsAreNeeds DEF MatchInv
    <3>2. NeedsDone(gathered) \in Nat /\ NeedsDone(gathered) <= Len(needs)
      BY <2>1, FewerDone
    <3> QED
      BY <2>1, <3>1, <3>2
  <2>3. DOMAIN decisions \subseteq cases
    <3> SUFFICES ASSUME NEW c \in DOMAIN decisions PROVE c \in cases
      OBVIOUS
    <3>1. PICK b \in gathered : c \in DOMAIN answers[b]
      BY DEF MatchInv, Collected
    <3> QED
      BY <2>1, <3>1 DEF MatchInv, Asked, BatchCases
  <2> QED
    BY <2>1, <2>2, <2>3 DEF TypeOK, MatchInv, Asked, Staged
<1> QED
  BY <1>1, MatchInvariant, PTL

\* The progress that is shown counts needs that have been answered, never
\* goes back, and stands at all of them when matching ends.
THEOREM ProgressIsNeverWrong == Spec => ProgressIsTrue
<1>1. MatchInv /\ MatchInv' /\ [Next]_vars
        => [/\ shown' >= shown
            /\ stage' = "matched" => shown' = Cardinality({c[1] : c \in cases'})]_vars
  <2> SUFFICES ASSUME MatchInv, MatchInv', Next
               PROVE  /\ shown' >= shown
                      /\ stage' = "matched" => shown' = Cardinality({c[1] : c \in cases'})
    OBVIOUS
  <2>1. gathered \subseteq Batches /\ shown = NeedsDone(gathered)
    BY DEF MatchInv, Collected
  <2>2. stage' = "matched" => shown' = Cardinality({c[1] : c \in cases'})
    <3> SUFFICES ASSUME stage' = "matched"
                 PROVE  shown' = Cardinality({c[1] : c \in cases'})
      OBVIOUS
    <3>1. gathered' = Batches' /\ shown' = NeedsDone(gathered)'
      BY DEF MatchInv, Staged, Collected
    <3>2. UNION {batchNeeds'[b] : b \in Batches'} = {c[1] : c \in cases'}
      BY DEF MatchInv, Dealt
    <3>3. NeedsDone(gathered)' = Cardinality(UNION {batchNeeds'[b] : b \in gathered'})
      BY DEF NeedsDone
    <3> QED
      BY <3>1, <3>2, <3>3
  <2>3. shown \in Nat
    BY <2>1, FewerDone
  <2>4. shown' >= shown
    <3>1. CASE UNCHANGED shown
      BY <2>3, <3>1
    <3>2. ASSUME NEW b \in Batches, Gather(b) PROVE shown' >= shown
      <4>1. shown' = NeedsDone(gathered \cup {b}) /\ UNCHANGED batchNeeds
        BY <3>2 DEF Gather, NeedsDone, work
      <4> DEFINE more == gathered \cup {b}
      <4>2. gathered \subseteq more /\ more \subseteq Batches
        BY <2>1
      <4> HIDE DEF more
      <4>3. NeedsDone(gathered) <= NeedsDone(more) /\ NeedsDone(more) \in Nat
        BY <4>2, FewerDone
      <4> QED
        BY <2>1, <2>3, <4>1, <4>3 DEF more
    <3> QED
      BY <3>1, <3>2 DEF Next, MainThread, AddUpLists, Judge, GatherError, LeavePool,
                        ModelCall, ModelAnswers, AnswerIsInvalid, CallFails, Done, vars
  <2> QED
    BY <2>2, <2>4
<1> QED
  BY <1>1, MatchInvariant, PTL DEF Spec, ProgressIsTrue
=============================================================================
